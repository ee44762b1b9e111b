---------------------------- MODULE CdcTruth_proofs ----------------------------
(***************************************************************************)
(* What the verdicts of the Path A drills are worth: theorems about        *)
(* CdcDrills, for any set of its drills, whatever step may fail.  A drill  *)
(* that passes tells the truth about source, current table and changelog,  *)
(* and a drill fails over a healthy pipeline only in ways that are known.  *)
(*                                                                         *)
(* The argument starts from what each step leaves in the source (the       *)
(* ledger of CdcDrills_proofs), and goes through what the current table    *)
(* shows of it (always all changes up to some point) and what the drill    *)
(* has seen of both (the audits).                                          *)
(***************************************************************************)
EXTENDS CdcDrills_proofs

-----------------------------------------------------------------------------
(* What the current table shows. *)

Cut(p) == [r \in Row |-> RowAfter(p, r)]

\* Of what job r has read, sink s shows all up to p, and it holds the rest.
Holds(r, s, p) ==
  /\ p <= r.done.pos
  /\ Held({f \in r.pend[s] : f.id <= r.done.id}) = p + 1 .. r.done.pos
  /\ Held({f \in r.pend[s] : f.id > r.done.id}) = r.done.pos + 1 .. r.read

Active(r) == r.status \in {"STARTING", "RUNNING", "CANCELING"}

\* The current table shows all up to p when m is the last checkpoint of the first job
\* in its summary, and job r is the first one;
FirstOf(r, m, p) ==
  /\ p <= r.done.pos /\ m <= r.done.id
  /\ Held(Beyond(r.done.pend[Cur], m)) = p + 1 .. r.done.pos
  /\ r.recover # {} => r.read = r.done.pos
  /\ Active(r) /\ Cur \notin r.recover =>
       Holds(r, Cur, p) /\ \A f \in r.pend[Cur] : f.id > m

\* all that point q holds of it is in it;
Shown(q, m) == Held(Beyond(q.pend[Cur], m)) = {}

\* job r is the restored one.
RestoredOf(r, m, p) ==
  /\ r.status = "STARTING" \/ r.recover # {} => r.read = r.done.pos
  /\ r.status = "STARTING" \/ Cur \in r.recover =>
       p = r.done.pos /\ Shown(r.done, m) /\ r.pend[Cur] = r.done.pend[Cur]
  /\ r.status = "RUNNING" /\ Cur \notin r.recover => Holds(r, Cur, p)

Restored == drill \in Restoring /\ pc > RestoresAt(drill)
BetweenJobs == drill \in Restoring /\ pc > FillsAt(drill) /\ pc <= RestoresAt(drill)
CurId == maxId["first"][Cur]
ShownPoint ==
  CASE drill \in {"savepoint_restore", "smoke"} ->
         pc >= StopsAt(drill) => Shown(seen.point, CurId)
    [] drill = "jobmanager_restart" -> pc >= 9 => Shown(seen.point, CurId)
    [] OTHER -> pc = 11 /\ seen.point \in points => Shown(seen.point, CurId)
CurrentAt(p) ==
  /\ p \in 0 .. Len(binlog) /\ current = Cut(p)
  /\ pc > FillsAt(drill) => p >= 1
  /\ ~Restored => FirstOf(F, CurId, p)
  /\ drill \in Restoring /\ pc > FillsAt(drill) => F.pend[Cur] = {}
  /\ BetweenJobs => p = Len(binlog) /\ ShownPoint
  /\ Restored => RestoredOf(R, CurId, p)

\* The audit of a drill, step by step, and the checks of the smoke.
Settled == current = SourceTable
Complete == late = {} => Published = DOMAIN binlog
AuditInv ==
  LET a == AuditsAt(drill) IN
  drill \in Audited =>
    /\ pc = a /\ seen.table = SourceTable => Settled
    /\ pc > a => Settled /\ Complete
    /\ pc > a + 1 => seen.table = SourceTable
    /\ pc > a + 2 /\ late = {} => seen.reported
SmokeInv ==
  drill = "smoke" =>
    /\ pc > 15 => Settled
    /\ pc > 16 => seen.source = SourceTable
    /\ pc > 17 => seen.table = SourceTable
    /\ pc > 18 => Complete

\* The rows of the small-file drill never change once they are there.
FilesInv ==
  drill = Rewriting =>
    /\ \A r \in Row : current[r] # 0 =>
         \E i \in DOMAIN binlog : binlog[i].row = r /\ current[r] = binlog[i].after
    /\ pc > 11 => Settled

\* The first job of the metrics run publishes the changes in order, beside whatever a job
\* of an earlier run publishes.
ByFirst == {n \in DOMAIN changelog : changelog[n].by = "first"}
FirstWrote(p) ==
  /\ {changelog[n].change : n \in ByFirst} = 1 .. p
  /\ \A m, n \in ByFirst : changelog[m].change = changelog[n].change => m = n
FirstWritesOn ==
  /\ tableId = 1 /\ Sound(F) /\ F.status \in {"STARTING", "RUNNING"} /\ F.recover = {}
  /\ F.status = "STARTING" => F.done = NoPoint
  /\ F.notify \subseteq Sink
  /\ \E p \in 0 .. Len(binlog) : FirstWrote(p) /\ Holds(F, Log, p)
MetricsInv ==
  drill = Metrics =>
    /\ R = NoJob /\ \A n \in DOMAIN changelog : changelog[n].by # "restored"
    /\ pc <= 4 => F = NoJob /\ ByFirst = {}
    /\ pc > 3 => tableId = 1
    /\ pc > 4 => FirstWritesOn
    /\ seen.zeros > 0 => pc >= 8 /\ Len(changelog) >= 3

TruthInv ==
  Followed =>
    /\ drill \in Updating => (\E p \in 0 .. Len(binlog) : CurrentAt(p)) /\ AuditInv /\ SmokeInv
    /\ FilesInv /\ MetricsInv

-----------------------------------------------------------------------------
(* What the current table shows, and what files hold of it. *)

\* Files hold the changes that lie within one of them.
LEMMA HeldIs ==
  ASSUME TypedInv, NEW files
  PROVE  /\ \A i : i \in Held(files) <=> i \in 1 .. Len(binlog) /\ \E f \in files : Within(f, i)
         /\ Len(binlog) \in Nat
<1>1. Len(binlog) \in Nat /\ DOMAIN binlog = 1 .. Len(binlog)
  BY LedgerIs DEF TypedInv
<1> QED BY <1>1 DEF Held, Within

\* Sequence c is b, and what is written behind it.
Extends(c, b) ==
  /\ Len(b) \in Nat /\ Len(c) \in Nat /\ Len(b) <= Len(c)
  /\ DOMAIN b = 1 .. Len(b) /\ DOMAIN c = 1 .. Len(c)
  /\ \A i \in 1 .. Len(b) : c[i] = b[i]

\* Files hold the same changes however much is written behind what they hold.
LEMMA HeldSame ==
  ASSUME Extends(binlog', binlog), NEW files, files \subseteq Files,
         binlog' = binlog \/ \A f \in files : f.hi <= Len(binlog)
  PROVE  Held(files)' = Held(files)
<1>1. CASE binlog' = binlog
  BY <1>1 DEF Held
<1>2. CASE \A f \in files : f.hi <= Len(binlog)
  <2>1. \A f \in files : f.hi \in Nat
    BY DEF Files
  <2>2. \A i \in DOMAIN binlog' : (\E f \in files : f.lo < i /\ i <= f.hi) => i \in DOMAIN binlog
    BY <1>2, <2>1 DEF Extends
  <2>3. DOMAIN binlog \subseteq DOMAIN binlog'
    BY DEF Extends
  <2> QED BY <2>2, <2>3 DEF Held
<1> QED BY <1>1, <1>2

\* The cut at a change is what it was, whatever is written behind it.
LEMMA CutSame ==
  ASSUME Extends(binlog', binlog), NEW p \in 0 .. Len(binlog)
  PROVE  Cut(p)' = Cut(p)
<1>1. p \in Nat /\ \A i \in 1 .. p : binlog'[i] = binlog[i]
  BY DEF Extends
<1>2. \A r : RowIn(binlog', p, r) = RowIn(binlog, p, r)
  BY <1>1, RowInSame
<1>3. \A r : RowAfter(p, r)' = RowIn(binlog', p, r)
  BY DEF RowAfter, RowIn
<1> QED BY <1>2, <1>3, SourceIs DEF Cut

\* The cut at the last change is the source.
LEMMA CutIs ==
  ASSUME NEW p
  PROVE  /\ Cut(p) = [r \in Row |-> Cut(p)[r]]
         /\ \A r \in Row : Cut(p)[r] = RowIn(binlog, p, r)
         /\ Cut(Len(binlog)) = SourceTable
BY SourceIs DEF Cut, SourceTable

\* A publication of what lies between two cuts goes from the one to the other.
LEMMA PublishCut ==
  ASSUME TypedInv, NEW p \in 0 .. Len(binlog), NEW q \in p .. Len(binlog), current = Cut(p),
         NEW j, NEW files, NEW id, Publish(j, Cur, files, id), Held(files) = p + 1 .. q
  PROVE  current' = Cut(q)
<1>1. TypeInv /\ Len(binlog) \in Nat
  BY TypedIsType, LedgerIs DEF TypedInv
<1>2. p \in Nat /\ q \in Nat /\ p <= q
  BY <1>1
<1>3. ASSUME NEW r \in Row PROVE current'[r] = Cut(q)[r]
  <2>1. current[r] = RowIn(binlog, p, r) /\ Cut(q)[r] = RowIn(binlog, q, r)
    BY CutIs
  <2>2. CASE (\A i \in Held(files) : binlog[i].row # r) /\ current'[r] = current[r]
    <3>1. \A i \in p + 1 .. q : binlog[i].row # r
      BY <2>2
    <3>2. RowIn(binlog, q, r) = RowIn(binlog, p, r)
      BY <1>2, <3>1, RowInMore
    <3> QED BY <2>1, <2>2, <3>2
  <2>3. ASSUME NEW i \in Held(files), binlog[i].row = r, current'[r] = binlog[i].after,
               \A m \in Held(files) : binlog[m].row = r => m <= i
        PROVE  current'[r] = Cut(q)[r]
    <3>1. i \in p + 1 .. q
      BY <2>3
    <3>2. i \in 1 .. q
      BY <1>2, <3>1
    <3>3. ASSUME NEW m \in 1 .. q, binlog[m].row = r PROVE m <= i
      <4>1. CASE m <= p
        BY <1>2, <3>1, <4>1
      <4>2. CASE ~(m <= p)
        <5>1. m \in p + 1 .. q
          BY <1>2, <4>2
        <5> QED BY <2>3, <3>3, <5>1
      <4> QED BY <4>1, <4>2
    <3>4. RowIn(binlog, q, r) = binlog[i].after
      BY <1>2, <2>3, <3>2, <3>3, RowInLast
    <3> QED BY <2>1, <2>3, <3>4
  <2> QED BY <1>1, <2>2, <2>3, PublishRows
<1>4. current' = [r \in Row |-> current'[r]]
  BY <1>1, PublishCurrent DEF Cur
<1>5. Cut(q) = [r \in Row |-> Cut(q)[r]]
  BY CutIs
<1> QED BY <1>3, <1>4, <1>5

\* A table that is the source table, and shows anything, shows every change: an event
\* id is not given twice, and the row that is deleted was the first to be there.
LEMMA SettledIsAll ==
  ASSUME TypedInv, NEW p \in 1 .. Len(binlog), Cut(p) = SourceTable
  PROVE  p = Len(binlog)
<1> DEFINE l == Len(binlog)
<1>1. /\ l \in Nat /\ \A i \in 1 .. l : binlog[i].row \in Row
  BY LedgerIs DEF TypedInv
<1>2. /\ \A i, m \in 1 .. l : binlog[i].after = binlog[m].after => i = m
      /\ \A i \in 1 .. l : /\ i = 1 => binlog[i].row = 1
                           /\ binlog[i].after = 0 => binlog[i].row = 1
  BY DEF TypedInv, Ledger, LedgerOf
<1>3. SUFFICES ASSUME p < l PROVE FALSE
  BY <1>1
<1> DEFINE r == binlog[l].row
<1>4. l \in 1 .. l /\ p \in Nat /\ p \in 1 .. l /\ 1 \in 1 .. p /\ r \in Row
  BY <1>1, <1>3
<1>5. RowIn(binlog, l, r) = RowIn(binlog, p, r)
  BY <1>4, CutIs
<1> HIDE DEF r
<1>6. RowIn(binlog, l, r) = binlog[l].after
  <2>1. binlog[l].row = r /\ \A m \in 1 .. l : m <= l
    BY <1>1 DEF r
  <2> QED BY <1>1, <1>4, <2>1, RowInLast
<1>7. ASSUME NEW i \in 1 .. p, binlog[i].after = RowIn(binlog, p, r) PROVE FALSE
  <2>1. i \in 1 .. l /\ i # l
    BY <1>1, <1>3, <1>4, <1>7
  <2> QED BY <1>2, <1>4, <1>5, <1>6, <1>7, <2>1
<1>8. (\A i \in 1 .. p : binlog[i].row # r) /\ RowIn(binlog, p, r) = 0
  BY <1>4, <1>7, RowInIs
<1>9. r = 1
  BY <1>2, <1>4, <1>5, <1>6, <1>8 DEF r
<1>10. binlog[1].row = 1
  <2>1. 1 \in 1 .. l
    BY <1>1, <1>4
  <2> QED BY <1>2, <2>1
<1> QED BY <1>4, <1>8, <1>9, <1>10

\* Files of two kinds hold what each kind holds.
LEMMA HeldBoth ==
  ASSUME NEW A, NEW B PROVE Held(A \cup B) = Held(A) \cup Held(B)
BY DEF Held

\* One file holds what lies in it.
LEMMA HeldOne ==
  ASSUME TypedInv, NEW f, NEW lo \in Nat, NEW hi \in lo .. Len(binlog), f.lo = lo, f.hi = hi
  PROVE  Held({f}) = lo + 1 .. hi
<1>1. Len(binlog) \in Nat /\ hi \in Nat
  BY LedgerIs DEF TypedInv
<1>2. ASSUME NEW i PROVE i \in Held({f}) <=> i \in lo + 1 .. hi
  <2>1. i \in Held({f}) <=> i \in 1 .. Len(binlog) /\ lo < i /\ i <= hi
    BY <1>1, HeldIs DEF Within
  <2>2. i \in 1 .. Len(binlog) /\ lo < i /\ i <= hi <=> i \in lo + 1 .. hi
    BY <1>1
  <2> QED BY <2>1, <2>2
<1> QED BY <1>2

\* Of sink s job r holds the changes behind p up to what it has read.
LEMMA HoldsAll ==
  ASSUME TypedInv, NEW r \in Job, Sound(r), r.status # "absent", NEW s \in Sink, NEW p \in Nat,
         Holds(r, s, p)
  PROVE  /\ Held(r.pend[s]) = p + 1 .. r.read /\ p <= r.read
         /\ \A f \in r.pend[s] : f.id <= r.epoch /\ f.id \in Nat
<1>1. r.done.pos \in Nat /\ r.done.id \in Nat /\ r.read \in Nat /\ r.done.pos <= r.read
  BY AliveIs
<1>2. \A f \in r.pend[s] : f.id <= r.epoch /\ f.id \in Nat
  BY JobKinds DEF Sound, Intervals, Files
<1> DEFINE A == {f \in r.pend[s] : f.id <= r.done.id}
           B == {f \in r.pend[s] : f.id > r.done.id}
<1>3. p <= r.done.pos /\ Held(A) = p + 1 .. r.done.pos /\ Held(B) = r.done.pos + 1 .. r.read
  BY DEF Holds
<1>4. r.pend[s] = A \cup B
  BY <1>1, <1>2
<1> HIDE DEF A, B
<1>5. Held(A \cup B) = (p + 1 .. r.done.pos) \cup (r.done.pos + 1 .. r.read)
  <2>1. Held(A \cup B) = Held(A) \cup Held(B)
    BY HeldBoth
  <2> QED BY <1>3, <2>1
<1>6. (p + 1 .. r.done.pos) \cup (r.done.pos + 1 .. r.read) = p + 1 .. r.read /\ p <= r.read
  BY <1>1, <1>3
<1> QED BY <1>2, <1>4, <1>5, <1>6

\* Behind a barrier it holds what it has read, too.
LEMMA FlushPend ==
  ASSUME NEW j, NEW n, job[j] \in Job
  PROVE  \A s \in Sink : Flushed(j, n).pend[s] = job[j].pend[s] \cup
           (IF n = job[j].read THEN {}
            ELSE {[id |-> job[j].epoch + 1, lo |-> job[j].read, hi |-> n]})
<1> DEFINE r == job[j]
           files == IF n = r.read THEN {} ELSE {[id |-> r.epoch + 1, lo |-> r.read, hi |-> n]}
<1>1. Flushed(j, n) = [r EXCEPT !.epoch = r.epoch + 1, !.read = n,
                                !.pend = [s \in Sink |-> r.pend[s] \cup files]]
  BY DEF Flushed
<1> HIDE DEF r, files
<1>2. r \in Job
  BY DEF r
<1>3. Flushed(j, n).pend = [s \in Sink |-> r.pend[s] \cup files]
  BY <1>1, <1>2 DEF Job
<1> QED BY <1>3 DEF r, files

\* So it goes on holding what is not shown.
LEMMA HoldsFlushed ==
  ASSUME TypedInv, NEW r \in Job, Sound(r), r.status # "absent", NEW s \in Sink, NEW p \in Nat,
         Holds(r, s, p), NEW n \in r.read .. Len(binlog), NEW q,
         q.done = r.done, q.read = n,
         q.pend[s] = r.pend[s] \cup
           (IF n = r.read THEN {} ELSE {[id |-> r.epoch + 1, lo |-> r.read, hi |-> n]})
  PROVE  Holds(q, s, p)
<1>1. /\ r.done.pos \in Nat /\ r.done.id \in Nat /\ r.read \in Nat /\ r.done.pos <= r.read
      /\ r.epoch \in Nat /\ r.done.id <= r.epoch
  BY AliveIs
<1>2. /\ p <= r.done.pos
      /\ Held({f \in r.pend[s] : f.id <= r.done.id}) = p + 1 .. r.done.pos
      /\ Held({f \in r.pend[s] : f.id > r.done.id}) = r.done.pos + 1 .. r.read
  BY DEF Holds
<1>3. CASE n = r.read
  <2>1. q.pend[s] = r.pend[s]
    BY <1>3
  <2> QED BY <1>2, <1>3, <2>1 DEF Holds
<1>4. CASE n # r.read
  <2> DEFINE f0 == [id |-> r.epoch + 1, lo |-> r.read, hi |-> n]
  <2>1. q.pend[s] = r.pend[s] \cup {f0} /\ f0.id = r.epoch + 1
    BY <1>4
  <2>2. Held({f0}) = r.read + 1 .. n /\ n \in Nat /\ r.read <= n
    <3>1. Len(binlog) \in Nat
      BY LedgerIs DEF TypedInv
    <3>2. f0.lo = r.read /\ f0.hi = n
      OBVIOUS
    <3> HIDE DEF f0
    <3>3. Held({f0}) = r.read + 1 .. n
      BY <1>1, <3>2, HeldOne
    <3> QED BY <1>1, <3>1, <3>3
  <2> HIDE DEF f0
  <2>3. {f \in q.pend[s] : f.id <= r.done.id} = {f \in r.pend[s] : f.id <= r.done.id}
    BY <1>1, <2>1
  <2>4. {f \in q.pend[s] : f.id > r.done.id} = {f \in r.pend[s] : f.id > r.done.id} \cup {f0}
    BY <1>1, <2>1
  <2> DEFINE B == {f \in r.pend[s] : f.id > r.done.id}
  <2> HIDE DEF B
  <2>5. Held(B \cup {f0}) = Held(B) \cup Held({f0})
    BY HeldBoth
  <2>6. Held(B) = r.done.pos + 1 .. r.read
    BY <1>2 DEF B
  <2>7. (r.done.pos + 1 .. r.read) \cup (r.read + 1 .. n) = r.done.pos + 1 .. n
    BY <1>1, <2>2
  <2>8. Held({f \in q.pend[s] : f.id > r.done.id}) = r.done.pos + 1 .. n
    BY <2>2, <2>4, <2>5, <2>6, <2>7 DEF B
  <2> QED BY <1>2, <2>3, <2>8 DEF Holds
<1> QED BY <1>3, <1>4

\* A completed checkpoint has all it holds.
LEMMA HoldsDone ==
  ASSUME TypedInv, NEW r \in Job, Sound(r), r.status # "absent", NEW s \in Sink, NEW p \in Nat,
         Holds(r, s, p), NEW q, q.done.id = r.epoch, q.done.pos = r.read, q.read = r.read,
         q.pend[s] = r.pend[s]
  PROVE  Holds(q, s, p)
<1>1. /\ Held(r.pend[s]) = p + 1 .. r.read /\ p <= r.read
      /\ \A f \in r.pend[s] : f.id <= r.epoch /\ f.id \in Nat
  BY HoldsAll
<1>2. r.read \in Nat /\ r.epoch \in Nat
  BY AliveIs
<1>3. {f \in q.pend[s] : f.id <= q.done.id} = r.pend[s]
  BY <1>1
<1>4. {f \in q.pend[s] : f.id > q.done.id} = {}
  BY <1>1, <1>2
<1>5. r.read + 1 .. r.read = {}
  BY <1>2
<1> QED BY <1>1, <1>3, <1>4, <1>5, NothingHeld DEF Holds

\* What it publishes of the last checkpoint it does not hold any longer.
LEMMA HoldsPublished ==
  ASSUME TypedInv, NEW r \in Job, Sound(r), r.status # "absent", NEW s \in Sink, NEW p \in Nat,
         Holds(r, s, p), NEW q, q.done = r.done, q.read = r.read,
         q.pend[s] = r.pend[s] \ {f \in r.pend[s] : f.id <= r.done.id}
  PROVE  Holds(q, s, r.done.pos)
<1>1. r.done.pos \in Nat /\ r.done.id \in Nat /\ r.read \in Nat
  BY AliveIs
<1>2. \A f \in r.pend[s] : f.id \in Nat
  BY HoldsAll
<1>3. {f \in q.pend[s] : f.id <= r.done.id} = {}
  OBVIOUS
<1>4. {f \in q.pend[s] : f.id > r.done.id} = {f \in r.pend[s] : f.id > r.done.id}
  BY <1>1, <1>2
<1>5. r.done.pos + 1 .. r.done.pos = {} /\ r.done.pos <= r.done.pos
  BY <1>1
<1> QED BY <1>3, <1>4, <1>5, NothingHeld DEF Holds

\* A job that holds no files and has read nothing behind its last checkpoint.
LEMMA HoldsNothing ==
  ASSUME NEW q, NEW s, q.pend[s] = {}, q.read = q.done.pos, q.done.pos \in Nat
  PROVE  Holds(q, s, q.done.pos)
<1>1. {f \in q.pend[s] : f.id <= q.done.id} = {} /\ {f \in q.pend[s] : f.id > q.done.id} = {}
  OBVIOUS
<1>2. q.done.pos + 1 .. q.done.pos = {} /\ q.done.pos <= q.done.pos
  OBVIOUS
<1> QED BY <1>1, <1>2, NothingHeld DEF Holds

-----------------------------------------------------------------------------
(* The first job and the current table. *)

\* Behind what the summary has a checkpoint holds nothing once that is its own id.
LEMMA NothingBeyond ==
  ASSUME NEW r \in Job, Sound(r)
  PROVE  Beyond(r.done.pend[Cur], r.done.id) = {} /\ Held({}) = {}
<1>1. Cur \in Sink
  BY LogIsASink DEF Cur
<1>2. \A f \in r.done.pend[Cur] : f.id <= r.done.id /\ f.id \in Nat /\ r.done.id \in Nat
  BY <1>1, JobKinds DEF Sound, Intervals, Files
<1> QED BY <1>2, NothingHeld DEF Beyond

\* The job changes in what does not matter here,
LEMMA FirstStays ==
  ASSUME NEW r, NEW q, NEW m, NEW p, FirstOf(r, m, p),
         q.done = r.done, q.pend[Cur] = r.pend[Cur], q.read = r.read,
         q.recover \subseteq r.recover, Cur \in r.recover => Cur \in q.recover,
         Active(q) => Active(r)
  PROVE  FirstOf(q, m, p)
BY DEF FirstOf, Holds

\* fails or is gone,
LEMMA FirstStops ==
  ASSUME NEW r, NEW q, NEW m, NEW p, FirstOf(r, m, p),
         q.done = r.done, q.recover = {}, ~Active(q)
  PROVE  FirstOf(q, m, p)
BY DEF FirstOf

\* starts again from its last checkpoint,
LEMMA FirstAgain ==
  ASSUME NEW r \in Job, Sound(r), NEW q, NEW m \in Nat, NEW p \in Nat, FirstOf(r, m, p),
         q.done = r.done, q.read = r.done.pos, q.pend = r.done.pend,
         q.recover = IF r.done.id > 0 THEN Sink ELSE {}
  PROVE  FirstOf(q, m, p)
<1>1. r.done.id \in Nat /\ r.done.pos \in Nat /\ Cur \in Sink
  BY JobKinds, LogIsASink DEF Cur
<1>2. CASE r.done.id > 0
  BY <1>1, <1>2 DEF FirstOf
<1>3. CASE ~(r.done.id > 0)
  <2>1. r.done = NoPoint /\ r.done.pos = 0
    BY <1>1, <1>3, EmptyIsSound DEF Sound
  <2>2. q.pend[Cur] = {} /\ q.read = q.done.pos /\ q.done.pos = 0
    BY <1>1, <2>1, EmptyIsSound
  <2>3. p = 0
    BY <2>1 DEF FirstOf
  <2>4. Holds(q, Cur, q.done.pos)
    BY <2>2, HoldsNothing, 0 \in Nat
  <2> QED BY <1>3, <2>2, <2>3, <2>4 DEF FirstOf
<1> QED BY <1>2, <1>3

\* flushes at a barrier,
LEMMA FirstFlushed ==
  ASSUME TypedInv, NEW r \in Job, Sound(r), Active(r), r.recover = {},
         NEW m \in Nat, NEW p \in Nat, FirstOf(r, m, p),
         NEW n \in r.read .. Len(binlog), NEW q,
         q.done = r.done, q.read = n, q.recover = r.recover,
         q.pend[Cur] = r.pend[Cur] \cup
           (IF n = r.read THEN {} ELSE {[id |-> r.epoch + 1, lo |-> r.read, hi |-> n]})
  PROVE  FirstOf(q, m, p)
<1>1. Cur \in Sink /\ r.status # "absent"
  BY LogIsASink DEF Cur, Active
<1>2. Holds(r, Cur, p) /\ \A f \in r.pend[Cur] : f.id > m
  BY DEF FirstOf
<1>3. Holds(q, Cur, p)
  BY <1>1, <1>2, HoldsFlushed
<1>4. \A f \in q.pend[Cur] : f.id > m
  <2>1. m <= r.done.id /\ r.done.id <= r.epoch /\ r.done.id \in Nat /\ r.epoch \in Nat
    BY <1>1, AliveIs DEF FirstOf
  <2>2. \A f \in q.pend[Cur] : f \in r.pend[Cur] \/ f.id = r.epoch + 1
    OBVIOUS
  <2> QED BY <1>2, <2>1, <2>2
<1> QED BY <1>3, <1>4 DEF FirstOf

\* completes a checkpoint,
LEMMA FirstCompleted ==
  ASSUME TypedInv, NEW r \in Job, Sound(r), Active(r), r.recover = {},
         NEW m \in Nat, NEW p \in Nat, FirstOf(r, m, p), NEW q,
         q.done.id = r.epoch, q.done.pos = r.read, q.done.pend = r.pend, q.read = r.read,
         q.pend = r.pend, q.recover = {}
  PROVE  FirstOf(q, m, p)
<1>1. Cur \in Sink /\ r.status # "absent"
  BY LogIsASink DEF Cur, Active
<1>2. Holds(r, Cur, p) /\ \A f \in r.pend[Cur] : f.id > m
  BY DEF FirstOf
<1>3. Holds(q, Cur, p)
  BY <1>1, <1>2, HoldsDone
<1>4. Held(r.pend[Cur]) = p + 1 .. r.read /\ p <= r.read
  BY <1>1, <1>2, HoldsAll
<1>5. Beyond(q.done.pend[Cur], m) = r.pend[Cur]
  BY <1>2 DEF Beyond
<1>6. m <= q.done.id
  <2>1. m <= r.done.id /\ r.done.id <= r.epoch /\ r.done.id \in Nat /\ r.epoch \in Nat
    BY <1>1, AliveIs DEF FirstOf
  <2> QED BY <2>1
<1> QED BY <1>2, <1>3, <1>4, <1>5, <1>6 DEF FirstOf

\* The files of checkpoints up to id.
UpTo(files, id) == {f \in files : f.id <= id}

\* publishes what that has,
LEMMA FirstCommitted ==
  ASSUME TypedInv, NEW r \in Job, Sound(r), Active(r), r.recover = {},
         NEW m \in Nat, NEW p \in Nat, FirstOf(r, m, p), NEW q, NEW files, NEW k,
         files = UpTo(r.pend[Cur], r.done.id),
         q.done = r.done, q.read = r.read, q.recover = {}, q.pend[Cur] = r.pend[Cur] \ files,
         files = {} => k = m, files # {} => k = r.done.id
  PROVE  Held(files) = p + 1 .. r.done.pos /\ p <= r.done.pos /\ FirstOf(q, k, r.done.pos)
<1>1. Cur \in Sink /\ r.status # "absent"
  BY LogIsASink DEF Cur, Active
<1>2. Holds(r, Cur, p) /\ \A f \in r.pend[Cur] : f.id > m
  BY DEF FirstOf
<1>0. files = {f \in r.pend[Cur] : f.id <= r.done.id}
  BY DEF UpTo
<1>3. Held(files) = p + 1 .. r.done.pos /\ p <= r.done.pos
  BY <1>0, <1>2 DEF Holds
<1>4. Holds(q, Cur, r.done.pos)
  BY <1>0, <1>1, <1>2, HoldsPublished
<1>5. r.done.id \in Nat /\ r.done.pos \in Nat /\ \A f \in r.pend[Cur] : f.id \in Nat
  BY <1>1, <1>2, AliveIs, HoldsAll
<1>6. \A f \in q.pend[Cur] : f.id > k
  BY <1>0, <1>2, <1>5
<1>7. k <= q.done.id /\ r.done.pos <= q.done.pos
  BY <1>5 DEF FirstOf
<1>8. Held(Beyond(q.done.pend[Cur], k)) = r.done.pos + 1 .. r.done.pos
  <2>1. r.done.pos + 1 .. r.done.pos = {}
    BY <1>5
  <2>2. CASE files = {}
    <3>1. p + 1 .. r.done.pos = {}
      BY <1>3, <2>2, NothingHeld
    <3> QED BY <2>1, <2>2, <3>1 DEF FirstOf
  <2>3. CASE files # {}
    <3>1. k = r.done.id
      BY <2>3
    <3> QED BY <2>1, <3>1, NothingBeyond
  <2> QED BY <2>2, <2>3
<1> QED BY <1>3, <1>4, <1>6, <1>7, <1>8 DEF FirstOf

\* or recovers what the summary lacks.
LEMMA FirstRecovered ==
  ASSUME TypedInv, NEW r \in Job, Sound(r), Cur \in r.recover,
         NEW m \in Nat, NEW p \in Nat, FirstOf(r, m, p), NEW q, NEW files, NEW k,
         files = Beyond(r.pend[Cur], m),
         q.done = r.done, q.read = r.read, q.pend[Cur] = {}, Cur \notin q.recover,
         files = {} => k = m, files # {} => k = r.done.id
  PROVE  Held(files) = p + 1 .. r.done.pos /\ p <= r.done.pos /\ FirstOf(q, k, r.done.pos)
<1>1. Cur \in Sink
  BY LogIsASink DEF Cur
<1>2. r.pend[Cur] = r.done.pend[Cur] /\ r.recover # {}
  BY <1>1 DEF Sound
<1>3. Held(files) = p + 1 .. r.done.pos /\ p <= r.done.pos /\ r.read = r.done.pos
  BY <1>2 DEF FirstOf
<1>5. r.done.id \in Nat /\ r.done.pos \in Nat
  BY JobKinds
<1>4. Holds(q, Cur, r.done.pos)
  BY <1>3, <1>5, HoldsNothing
<1>7. k <= q.done.id /\ r.done.pos <= q.done.pos
  BY <1>5 DEF FirstOf
<1>8. Held(Beyond(q.done.pend[Cur], k)) = r.done.pos + 1 .. r.done.pos
  <2>1. r.done.pos + 1 .. r.done.pos = {}
    BY <1>5
  <2>2. CASE files = {}
    <3>1. p + 1 .. r.done.pos = {}
      BY <1>3, <2>2, NothingHeld
    <3> QED BY <2>1, <2>2, <3>1 DEF FirstOf
  <2>3. CASE files # {}
    <3>1. k = r.done.id
      BY <2>3
    <3> QED BY <2>1, <3>1, NothingBeyond
  <2> QED BY <2>2, <2>3
<1> QED BY <1>3, <1>4, <1>7, <1>8 DEF FirstOf

-----------------------------------------------------------------------------
(* What a step of a job does to what one of its sinks holds. *)

Untouched(s) ==
  /\ s = Cur => current' = current
  /\ s = Log => changelog' = changelog
  /\ \A k \in Name : maxId'[k][s] = maxId[k][s]

Starts(r, q, s) ==
  /\ r.status = "STARTING" /\ q.status = "RUNNING" /\ q.done = r.done /\ q.read = r.read
  /\ q.pend = r.pend /\ q.recover = (IF r.done.id > 0 THEN Sink ELSE {}) /\ Untouched(s)
StartsAgain(r, q, s) ==
  /\ r.status = "RESTARTING" /\ q.status = "RUNNING" /\ q.done = r.done
  /\ q.read = r.done.pos /\ q.pend = r.done.pend
  /\ q.recover = (IF r.done.id > 0 THEN Sink ELSE {}) /\ Untouched(s)
Fails(j, r, q, s) ==
  /\ r.status = "RUNNING" /\ ("fault" \in r.notify \/ (j = "first" /\ drill \in Fault))
  /\ q.status = "RESTARTING" /\ q.done = r.done /\ q.recover = {} /\ q.pend = NoPoint.pend
  /\ Untouched(s)
IsGone(r, q, s) ==
  /\ r.status = "CANCELING" /\ q.status = "absent" /\ q.done = r.done /\ q.recover = {}
  /\ q.pend = NoPoint.pend /\ Untouched(s)
Flushes(r, q, s) ==
  /\ r.status = "RUNNING" /\ q.status = "RUNNING" /\ r.recover = {} /\ q.recover = {}
  /\ q.done = r.done /\ q.read \in r.read .. Len(binlog)
  /\ q.pend[s] = r.pend[s] \cup
       (IF q.read = r.read THEN {} ELSE {[id |-> r.epoch + 1, lo |-> r.read, hi |-> q.read]})
  /\ Untouched(s)
Completes(r, q, s) ==
  /\ r.status = "RUNNING" /\ q.status = "RUNNING" /\ r.recover = {} /\ q.recover = {}
  /\ q.done.id = r.epoch /\ q.done.pos = r.read /\ q.done.pend = r.pend
  /\ q.read = r.read /\ q.pend = r.pend /\ Untouched(s)
Commits(j, r, q, s) ==
  \E files :
    /\ r.status \in {"RUNNING", "CANCELING"} /\ q.status = r.status
    /\ r.recover = {} /\ q.recover = {} /\ q.done = r.done /\ q.read = r.read
    /\ files = {f \in r.pend[s] : f.id <= r.done.id} /\ q.pend[s] = r.pend[s] \ files
    /\ Publish(j, s, files, r.done.id)
Recovers(j, r, q, s) ==
  \E files :
    /\ r.status = "RUNNING" /\ q.status = "RUNNING" /\ s \in r.recover
    /\ q.recover = r.recover \ {s} /\ q.done = r.done /\ q.read = r.read
    /\ files = Beyond(r.pend[s], maxId[Lineage(j)][s]) /\ q.pend[s] = {}
    /\ Publish(j, s, files, r.done.id)
Stays(r, q, s) ==
  /\ r.status # "STARTING" /\ q.status = r.status /\ q.done = r.done /\ q.read = r.read
  /\ q.pend[s] = r.pend[s] /\ q.recover \subseteq r.recover
  /\ s \in r.recover => s \in q.recover
  /\ Untouched(s)

Does(j, r, q, s) ==
  \/ Starts(r, q, s) \/ StartsAgain(r, q, s) \/ Fails(j, r, q, s) \/ IsGone(r, q, s)
  \/ Flushes(r, q, s) \/ Completes(r, q, s) \/ Commits(j, r, q, s) \/ Recovers(j, r, q, s)
  \/ Stays(r, q, s)

\* What is not published to leaves a sink untouched,
LEMMA Touches ==
  ASSUME TypeInv, NEW s \in Sink
  PROVE  /\ UNCHANGED tables => Untouched(s)
         /\ \A j \in Name, t \in Sink, id \in Nat : \A files :
              Publish(j, t, files, id) /\ t # s => Untouched(s)
<1>1. UNCHANGED tables => Untouched(s)
  BY DEF tables, Untouched
<1>2. ASSUME NEW j \in Name, NEW t \in Sink, NEW id \in Nat, NEW files,
             Publish(j, t, files, id), t # s
      PROVE  Untouched(s)
  <2>1. \A k \in Name : maxId'[k][s] = maxId[k][s]
    BY <1>2, PublishSummary
  <2>2. s = Cur => current' = current
    BY <1>2 DEF Publish, Cur, Sink
  <2>3. s = Log => changelog' = changelog
    BY <1>2 DEF Publish, Log, Sink
  <2> QED BY <2>1, <2>2, <2>3 DEF Untouched
<1> QED BY <1>1, <1>2

\* and every step of one of the drill's jobs is one of these.
LEMMA JobDoes ==
  ASSUME TypedInv, NEW j \in Own, NEW s \in Sink, Sound(job[j]), tableId = 1, JobStep(j)
  PROVE  \E q \in Job :
           /\ Update(j, q) /\ Sound(q) /\ Does(j, job[j], q, s)
           /\ drill # "sink_commit_fault" => q.notify \subseteq job[j].notify \cup Sink
           /\ UNCHANGED <<binlog, tableId, harness>>
<1> DEFINE r == job[j]
<1>1. j \in Name /\ TypeInv /\ r \in Job /\ Len(binlog) \in Nat /\ Sound(r)
  <2>1. j \in Name
    BY DEF Own, Name
  <2> QED BY <2>1, TypedIsType, LedgerIs DEF TypedInv, JobsTyped
<1>2. r.done.id \in Nat
  BY <1>1, JobKinds
<1> HIDE DEF r
<1>3. CASE JobStarts(j)
  <2>1. PICK q : q = [r EXCEPT !.status = "RUNNING", !.table = 1,
                               !.recover = IF r.done.id > 0 THEN Sink ELSE {}]
    OBVIOUS
  <2>2. Update(j, q) /\ r.status = "STARTING" /\ UNCHANGED <<binlog, tables, harness>>
    BY <1>3, <2>1 DEF JobStarts, r
  <2>3. q \in Job /\ Sound(q)
    BY <1>1, <2>1, <2>2, StartedSound
  <2>4. /\ q.status = "RUNNING" /\ q.done = r.done /\ q.read = r.read /\ q.pend = r.pend
        /\ q.recover = (IF r.done.id > 0 THEN Sink ELSE {}) /\ q.notify = r.notify
    BY <1>1, <2>1 DEF Job
  <2>5. Starts(r, q, s)
    BY <1>1, <2>2, <2>4, Touches DEF Starts
  <2> QED BY <2>2, <2>3, <2>4, <2>5 DEF Does, tables, r
<1>4. CASE Restart(j)
  <2>1. PICK q : q = [r EXCEPT !.status = "RUNNING", !.table = 1, !.read = r.done.pos,
                               !.pend = r.done.pend,
                               !.recover = IF r.done.id > 0 THEN Sink ELSE {}]
    OBVIOUS
  <2>2. Update(j, q) /\ r.status = "RESTARTING" /\ UNCHANGED <<binlog, tables, harness>>
    BY <1>4, <2>1 DEF Restart, r
  <2>3. q \in Job /\ Sound(q)
    BY <1>1, <2>1, <2>2, RestartedSound
  <2>4. /\ q.status = "RUNNING" /\ q.done = r.done /\ q.read = r.done.pos /\ q.pend = r.done.pend
        /\ q.recover = (IF r.done.id > 0 THEN Sink ELSE {}) /\ q.notify = r.notify
    BY <1>1, <2>1 DEF Job
  <2>5. StartsAgain(r, q, s)
    BY <1>1, <2>2, <2>4, Touches DEF StartsAgain
  <2> QED BY <2>2, <2>3, <2>4, <2>5 DEF Does, tables, r
<1>5. ASSUME r.status = "RUNNING", Update(j, Failed(j)), UNCHANGED <<binlog, tables, harness>>,
             "fault" \in r.notify \/ (j = "first" /\ drill \in Fault)
      PROVE  \E q \in Job :
               /\ Update(j, q) /\ Sound(q) /\ Does(j, r, q, s)
               /\ drill # "sink_commit_fault" => q.notify \subseteq r.notify \cup Sink
               /\ UNCHANGED <<binlog, tableId, harness>>
  <2>1. PICK q : q = Failed(j)
    OBVIOUS
  <2>2. q = [r EXCEPT !.status = "RESTARTING", !.ongoing = NoPoint, !.notify = {},
                      !.recover = {}, !.pend = NoPoint.pend]
    BY <2>1 DEF Failed, r
  <2>3. q \in Job /\ Sound(q)
    BY <1>1, <1>5, <2>2, FailedSound
  <2>4. /\ q.status = "RESTARTING" /\ q.done = r.done /\ q.recover = {} /\ q.pend = NoPoint.pend
        /\ q.notify = {}
    BY <1>1, <2>2 DEF Job
  <2>5. Fails(j, r, q, s)
    BY <1>1, <1>5, <2>4, Touches DEF Fails
  <2> QED BY <1>5, <2>1, <2>3, <2>4, <2>5 DEF Does, tables
<1>6. CASE Strikes(j)
  <2>1. r.status = "RUNNING" /\ Update(j, Failed(j)) /\ UNCHANGED <<binlog, tables, harness>>
        /\ j = "first" /\ drill \in Fault
    BY <1>6 DEF Strikes, Armed, r, Fault
  <2> QED BY <1>5, <2>1 DEF r
<1>7. ASSUME NEW l, r.status \in {"RUNNING", "CANCELING"}, Update(j, [r EXCEPT !.notify = @ \ {l}]),
             Untouched(s), UNCHANGED <<binlog, tableId, harness>>
      PROVE  \E q \in Job :
               /\ Update(j, q) /\ Sound(q) /\ Does(j, r, q, s)
               /\ drill # "sink_commit_fault" => q.notify \subseteq r.notify \cup Sink
               /\ UNCHANGED <<binlog, tableId, harness>>
  <2>1. PICK q : q = [r EXCEPT !.notify = @ \ {l}]
    OBVIOUS
  <2>2. q \in Job /\ Sound(q)
    BY <1>1, <2>1, ToldSound
  <2>3. /\ q.status = r.status /\ q.done = r.done /\ q.read = r.read /\ q.recover = r.recover
        /\ q.notify \subseteq r.notify /\ q.pend = r.pend
    BY <1>1, <2>1 DEF Job
  <2>4. Stays(r, q, s)
    BY <1>7, <2>3 DEF Stays
  <2> QED BY <1>7, <2>1, <2>2, <2>3, <2>4 DEF Does
<1>8. CASE ToldFault(j)
  <2>1. /\ r.status \in {"RUNNING", "CANCELING"} /\ "fault" \in r.notify
        /\ UNCHANGED <<binlog, tables, harness>>
        /\ \/ r.status = "RUNNING" /\ Update(j, Failed(j))
           \/ Update(j, [r EXCEPT !.notify = @ \ {"fault"}])
    BY <1>8 DEF ToldFault, Told, r
  <2>2. Untouched(s) /\ tableId' = tableId
    BY <1>1, <2>1, Touches DEF tables
  <2> QED BY <1>5, <1>7, <2>1, <2>2 DEF r
<1>9. CASE JobEnds(j)
  <2>1. PICK q : q = [NoJob EXCEPT !.done = r.done]
    OBVIOUS
  <2>2. q \in Job /\ Sound(q)
    BY <1>1, <2>1, GoneSound
  <2>3. /\ q.status = "absent" /\ q.done = r.done /\ q.pend = NoPoint.pend
        /\ q.recover = {} /\ q.notify = {}
    BY <2>1, EmptyIsSound DEF Job
  <2>4. Update(j, q) /\ r.status = "CANCELING" /\ UNCHANGED <<binlog, tables, harness>>
    BY <1>9, <2>1 DEF JobEnds, r
  <2>5. IsGone(r, q, s)
    BY <1>1, <2>3, <2>4, Touches DEF IsGone
  <2> QED BY <2>2, <2>3, <2>4, <2>5 DEF Does, tables, r
<1>10. CASE Trigger(j)
  <2>1. PICK n \in Reached(j) :
          Update(j, [Flushed(j, n) EXCEPT !.ongoing = PointOf(Flushed(j, n))])
    BY <1>10 DEF Trigger
  <2>2. r.status = "RUNNING" /\ r.recover = {} /\ r.ongoing = NoPoint /\ r.notify = {}
        /\ UNCHANGED <<binlog, tables, harness>>
    BY <1>10 DEF Trigger, r
  <2>3. n \in r.read .. Len(binlog) /\ r.read \in Nat
    BY <1>1, <2>1, JobKinds DEF Reached, r
  <2>4. n \in Nat /\ r.read <= n /\ n <= Len(binlog)
    BY <1>1, <2>3
  <2>5. PICK p : p = Flushed(j, n)
    OBVIOUS
  <2>6. PICK q : q = [p EXCEPT !.ongoing = PointOf(p)]
    OBVIOUS
  <2>7. /\ p \in Job /\ p.status = r.status /\ p.read = n /\ p.done = r.done
        /\ p.notify = r.notify /\ p.recover = r.recover
    BY <1>1, <2>4, <2>5, FlushedIs DEF r
  <2>8. q \in Job /\ Sound(q)
    BY <1>1, <2>2, <2>4, <2>5, <2>6, FlushedSound DEF r
  <2>9. /\ q.status = p.status /\ q.read = p.read /\ q.done = p.done /\ q.notify = p.notify
        /\ q.recover = p.recover /\ q.pend = p.pend
    BY <2>6, <2>7 DEF Job
  <2>10. p.pend[s] = r.pend[s] \cup
           (IF n = r.read THEN {} ELSE {[id |-> r.epoch + 1, lo |-> r.read, hi |-> n]})
    BY <1>1, <2>5, FlushPend DEF r
  <2>11. Flushes(r, q, s)
    <3>1. Untouched(s)
      BY <1>1, <2>2, Touches
    <3> QED BY <2>2, <2>3, <2>7, <2>9, <2>10, <3>1 DEF Flushes
  <2>12. Update(j, q)
    BY <2>1, <2>5, <2>6
  <2> QED BY <2>2, <2>7, <2>8, <2>9, <2>11, <2>12 DEF Does, tables, r
<1>11. CASE CompleteCheckpoint(j)
  <2>1. PICK told : told = IF Armed(j, "sink_commit_fault") THEN Sink \cup {"fault"} ELSE Sink
    OBVIOUS
  <2>2. PICK q : q = [r EXCEPT !.done = r.ongoing, !.ongoing = NoPoint, !.notify = told]
    OBVIOUS
  <2>3. Update(j, q) /\ r.status = "RUNNING" /\ r.ongoing # NoPoint
        /\ UNCHANGED <<binlog, tables, harness>>
    BY <1>11, <2>1, <2>2 DEF CompleteCheckpoint, r
  <2>4. q \in Job /\ Sound(q)
    BY <1>1, <2>1, <2>2, <2>3, CompletedSound
  <2>5. /\ q.status = r.status /\ q.done = r.ongoing /\ q.recover = r.recover
        /\ q.notify = told /\ q.pend = r.pend /\ q.read = r.read
    BY <1>1, <2>2 DEF Job
  <2>6. /\ r.ongoing.id = r.epoch /\ r.ongoing.pos = r.read /\ r.ongoing.pend = r.pend
        /\ r.recover = {}
    BY <1>1, <2>3, OngoingIs
  <2>7. Completes(r, q, s)
    BY <1>1, <2>3, <2>5, <2>6, Touches DEF Completes
  <2>8. drill # "sink_commit_fault" => q.notify \subseteq r.notify \cup Sink
    BY <2>1, <2>5 DEF Armed
  <2> QED BY <2>3, <2>4, <2>7, <2>8 DEF Does, tables, r
<1>12. ASSUME NEW t \in Sink, Commit(j, t)
       PROVE  \E q \in Job :
                /\ Update(j, q) /\ Sound(q) /\ Does(j, r, q, s)
                /\ drill # "sink_commit_fault" => q.notify \subseteq r.notify \cup Sink
                /\ UNCHANGED <<binlog, tableId, harness>>
  <2>1. t \in r.notify /\ r.status \in {"RUNNING", "CANCELING"}
    BY <1>12 DEF Commit, Told, r
  <2>2. r.table = 1 /\ r.recover = {} /\ r.ongoing = NoPoint
    BY <1>1, <2>1 DEF Sound
  <2>3. Opened(j)
    BY <2>2 DEF Opened, r
  <2>4. PICK files : files = {f \in r.pend[t] : f.id <= r.done.id}
    OBVIOUS
  <2>5. PICK q : q = [r EXCEPT !.notify = @ \ {t}, !.pend[t] = @ \ files]
    OBVIOUS
  <2>6. /\ Update(j, q) /\ Publish(j, t, files, r.done.id) /\ UNCHANGED <<binlog, harness>>
    BY <1>12, <2>3, <2>4, <2>5 DEF Commit, r
  <2>7. /\ q.status = r.status /\ q.done = r.done /\ q.recover = r.recover
        /\ q.notify = r.notify \ {t} /\ q.read = r.read /\ q.epoch = r.epoch
        /\ q.ongoing = r.ongoing /\ q.table = r.table
        /\ q.pend = [r.pend EXCEPT ![t] = r.pend[t] \ files]
    BY <1>1, <2>5 DEF Job
  <2>8. q \in Job
    <3>1. q.pend \in [Sink -> SUBSET Files]
      BY <1>1, <2>7 DEF Job
    <3> QED BY <1>1, <2>5, <2>7, <3>1 DEF Job
  <2>9. Sound(q)
    BY <1>1, <2>1, <2>2, <2>7, <2>8, FewerSound
  <2>10. q.pend[t] = r.pend[t] \ files /\ (t # s => q.pend[s] = r.pend[s])
    BY <1>1, <2>7 DEF Job
  <2>11. CASE t = s
    <3>1. Commits(j, r, q, s)
      BY <2>1, <2>2, <2>4, <2>6, <2>7, <2>10, <2>11 DEF Commits
    <3> QED BY <2>6, <2>7, <2>8, <2>9, <3>1 DEF Does, Publish
  <2>12. CASE t # s
    <3>1. Untouched(s)
      BY <1>1, <1>2, <2>6, <2>12, Touches
    <3>2. Stays(r, q, s)
      BY <2>1, <2>7, <2>10, <2>12, <3>1 DEF Stays
    <3> QED BY <2>6, <2>7, <2>8, <2>9, <3>2 DEF Does, Publish
  <2> QED BY <2>11, <2>12
<1>13. ASSUME NEW t \in Sink, Recover(j, t)
       PROVE  \E q \in Job :
                /\ Update(j, q) /\ Sound(q) /\ Does(j, r, q, s)
                /\ drill # "sink_commit_fault" => q.notify \subseteq r.notify \cup Sink
                /\ UNCHANGED <<binlog, tableId, harness>>
  <2>1. t \in r.recover /\ r.status = "RUNNING"
    BY <1>13 DEF Recover, r
  <2>2. r.ongoing = NoPoint
    BY <1>1, <2>1 DEF Sound
  <2>4. PICK files : files = Beyond(r.pend[t], maxId[Lineage(j)][t])
    OBVIOUS
  <2>5. PICK q : q = [r EXCEPT !.recover = @ \ {t}, !.pend[t] = {}]
    OBVIOUS
  <2>6. /\ Update(j, q) /\ Publish(j, t, files, r.done.id) /\ UNCHANGED <<binlog, harness>>
    BY <1>13, <2>4, <2>5 DEF Recover, Missing, Beyond, r
  <2>7. /\ q.status = r.status /\ q.done = r.done /\ q.recover = r.recover \ {t}
        /\ q.notify = r.notify /\ q.read = r.read /\ q.epoch = r.epoch
        /\ q.ongoing = r.ongoing /\ q.table = r.table
        /\ q.pend = [r.pend EXCEPT ![t] = {}]
    BY <1>1, <2>5 DEF Job
  <2>8. q \in Job
    <3>1. q.pend \in [Sink -> SUBSET Files]
      BY <1>1, <2>7 DEF Job
    <3> QED BY <1>1, <2>5, <2>7, <3>1 DEF Job
  <2>9. Sound(q)
    BY <1>1, <2>1, <2>2, <2>7, <2>8, FewerSound
  <2>10. q.pend[t] = {} /\ (t # s => q.pend[s] = r.pend[s])
    BY <1>1, <2>7 DEF Job
  <2>11. CASE t = s
    <3>1. Recovers(j, r, q, s)
      BY <2>1, <2>4, <2>6, <2>7, <2>10, <2>11 DEF Recovers
    <3> QED BY <2>6, <2>7, <2>8, <2>9, <3>1 DEF Does, Publish
  <2>12. CASE t # s
    <3>1. Untouched(s)
      BY <1>1, <1>2, <2>6, <2>12, Touches
    <3>2. Stays(r, q, s)
      BY <2>1, <2>7, <2>10, <2>12, <3>1 DEF Stays
    <3> QED BY <2>6, <2>7, <2>8, <2>9, <3>2 DEF Does, Publish
  <2> QED BY <2>11, <2>12
<1> QED BY <1>3, <1>4, <1>6, <1>8, <1>9, <1>10, <1>11, <1>12, <1>13 DEF JobStep, r

\* A job that takes a step is there.
LEMMA StepsAreThere ==
  ASSUME NEW j, JobStep(j) PROVE job[j].status # "absent"
BY DEF JobStep, JobStarts, Restart, Strikes, Trigger, CompleteCheckpoint, ToldFault, JobEnds,
       Recover, Commit, Told

\* What is said of a job's state is said of the job when it has that state.
LEMMA FirstNext ==
  ASSUME NEW q, NEW m, NEW x, binlog' = binlog, F' = q, CurId' = m, FirstOf(q, m, x)
  PROVE  FirstOf(F, CurId, x)'
BY DEF FirstOf, Holds, Held, Beyond, Active

\* Of a step of the first job the current table shows more, or the same.
LEMMA FirstShows ==
  ASSUME TypedInv, ScriptInv, Inv, drill \in Judged, JobStep("first"),
         NEW p \in 0 .. Len(binlog), current = Cut(p), FirstOf(F, CurId, p)
  PROVE  /\ UNCHANGED <<binlog, tableId, harness, R>>
         /\ \E x \in p .. Len(binlog) : current' = Cut(x) /\ FirstOf(F, CurId, x)'
<1>1. F.status # "absent" /\ tableId = 1 /\ pc > 4
  BY StepsAreThere, FirstThere DEF F
<1>2. /\ TypeInv /\ F \in Job /\ Len(binlog) \in Nat /\ Sound(F) /\ Cur \in Sink
      /\ "first" \in Own /\ "first" \in Name
  BY TypedIsType, Kinds, LogIsASink DEF Inv, Cur, Own, Name
<1>3. PICK q \in Job :
        /\ Update("first", q) /\ Sound(q) /\ Does("first", F, q, Cur)
        /\ UNCHANGED <<binlog, tableId, harness>>
  BY <1>1, <1>2, JobDoes DEF F
<1>4. F' = q /\ R' = R
  BY <1>2, <1>3, FirstUpdated
<1> SUFFICES \E x \in p .. Len(binlog) : current' = Cut(x) /\ FirstOf(F, CurId, x)'
  BY <1>3, <1>4
<1>5. p \in Nat /\ p <= Len(binlog) /\ p \in p .. Len(binlog)
  BY <1>2
<1>6. F.done.pos \in Nat /\ F.done.pos <= Len(binlog) /\ F.done.id \in Nat /\ CurId \in Nat
  <2>1. CurId \in Nat
    BY <1>2 DEF TypeInv, CurId
  <2>2. F.done.pos <= F.read /\ F.read <= Len(binlog) /\ F.read \in Nat /\ F.done.pos \in Nat
        /\ F.done.id \in Nat
    BY <1>1, <1>2, AliveIs
  <2> QED BY <1>2, <2>1, <2>2
<1>7. ASSUME Untouched(Cur), FirstOf(q, CurId, p)
      PROVE  \E x \in p .. Len(binlog) : current' = Cut(x) /\ FirstOf(F, CurId, x)'
  <2>1. current' = Cut(p) /\ CurId' = CurId
    BY <1>2, <1>7 DEF Untouched, CurId
  <2>2. FirstOf(F, CurId, p)'
    BY <1>3, <1>4, <1>7, <2>1, FirstNext
  <2> QED BY <1>5, <2>1, <2>2
<1>8. ASSUME NEW files, Publish("first", Cur, files, F.done.id),
             Held(files) = p + 1 .. F.done.pos, p <= F.done.pos,
             NEW k, files = {} => k = CurId, files # {} => k = F.done.id, FirstOf(q, k, F.done.pos)
      PROVE  \E x \in p .. Len(binlog) : current' = Cut(x) /\ FirstOf(F, CurId, x)'
  <2>1. F.done.pos \in p .. Len(binlog)
    BY <1>2, <1>5, <1>6, <1>8
  <2>2. current' = Cut(F.done.pos)
    BY <1>8, <2>1, PublishCut
  <2>3. CurId' = k
    BY <1>2, <1>6, <1>8, PublishSummary DEF CurId
  <2>4. \E x \in p .. Len(binlog) : x = F.done.pos
    BY <2>1
  <2>5. PICK x \in p .. Len(binlog) : x = F.done.pos
    BY <2>4
  <2>6. FirstOf(q, k, x)
    BY <1>8, <2>5
  <2>7. FirstOf(F, CurId, x)'
    BY <1>3, <1>4, <2>3, <2>6, FirstNext
  <2> QED BY <2>2, <2>5, <2>7
<1>9. CASE Starts(F, q, Cur)
  <2>1. F = [NoJob EXCEPT !.status = "STARTING"]
    BY <1>9 DEF Starts, Inv, FirstInv
  <2>2. F.done.id = 0 /\ F.recover = {}
    BY <2>1, EmptyIsSound
  <2>3. q.recover = {} /\ Active(F)
    BY <1>9, <2>2 DEF Starts, Active
  <2>4. FirstOf(q, CurId, p)
    BY <1>9, <2>2, <2>3, FirstStays DEF Starts
  <2> QED BY <1>7, <1>9, <2>4 DEF Starts
<1>10. CASE StartsAgain(F, q, Cur)
  <2>1. FirstOf(q, CurId, p)
    BY <1>2, <1>5, <1>6, <1>10, FirstAgain DEF StartsAgain
  <2> QED BY <1>7, <1>10, <2>1 DEF StartsAgain
<1>11. CASE Fails("first", F, q, Cur) \/ IsGone(F, q, Cur)
  <2>1. q.done = F.done /\ q.recover = {} /\ ~Active(q) /\ Untouched(Cur)
    BY <1>11 DEF Fails, IsGone, Active
  <2>2. FirstOf(q, CurId, p)
    BY <2>1, FirstStops
  <2> QED BY <1>7, <2>1, <2>2
<1>12. CASE Flushes(F, q, Cur)
  <2>1. Active(F)
    BY <1>12 DEF Flushes, Active
  <2>2. FirstOf(q, CurId, p)
    <3>1. PICK n \in F.read .. Len(binlog) : n = q.read
      BY <1>12 DEF Flushes
    <3>2. /\ q.done = F.done /\ q.read = n /\ q.recover = F.recover /\ F.recover = {}
          /\ q.pend[Cur] = F.pend[Cur] \cup
               (IF n = F.read THEN {} ELSE {[id |-> F.epoch + 1, lo |-> F.read, hi |-> n]})
      BY <1>12, <3>1 DEF Flushes
    <3> QED BY <1>2, <1>5, <1>6, <2>1, <3>2, FirstFlushed
  <2> QED BY <1>7, <1>12, <2>2 DEF Flushes
<1>13. CASE Completes(F, q, Cur)
  <2>1. /\ Active(F) /\ F.recover = {} /\ q.recover = {} /\ q.done.id = F.epoch
        /\ q.done.pos = F.read /\ q.done.pend = F.pend /\ q.read = F.read /\ q.pend = F.pend
    BY <1>13 DEF Completes, Active
  <2>2. FirstOf(q, CurId, p)
    BY <1>2, <1>5, <1>6, <2>1, FirstCompleted
  <2> QED BY <1>7, <1>13, <2>2 DEF Completes
<1>14. CASE Commits("first", F, q, Cur)
  <2>1. PICK files :
          /\ F.status \in {"RUNNING", "CANCELING"} /\ q.status = F.status
          /\ F.recover = {} /\ q.recover = {} /\ q.done = F.done /\ q.read = F.read
          /\ files = {f \in F.pend[Cur] : f.id <= F.done.id}
          /\ q.pend[Cur] = F.pend[Cur] \ files
          /\ Publish("first", Cur, files, F.done.id)
    BY <1>14 DEF Commits
  <2>2. Active(F)
    BY <2>1 DEF Active
  <2>3. PICK k : (files = {} => k = CurId) /\ (files # {} => k = F.done.id)
    OBVIOUS
  <2>4. /\ Held(files) = p + 1 .. F.done.pos /\ p <= F.done.pos
        /\ FirstOf(q, k, F.done.pos)
    <3>1. files = UpTo(F.pend[Cur], F.done.id)
      BY <2>1 DEF UpTo
    <3> QED BY <1>2, <1>5, <1>6, <2>1, <2>2, <2>3, <3>1, FirstCommitted
  <2> QED BY <1>8, <2>1, <2>3, <2>4
<1>15. CASE Recovers("first", F, q, Cur)
  <2>1. PICK files :
          /\ F.status = "RUNNING" /\ q.status = "RUNNING" /\ Cur \in F.recover
          /\ q.recover = F.recover \ {Cur} /\ q.done = F.done /\ q.read = F.read
          /\ files = Beyond(F.pend[Cur], maxId[Lineage("first")][Cur]) /\ q.pend[Cur] = {}
          /\ Publish("first", Cur, files, F.done.id)
    BY <1>15 DEF Recovers
  <2>2. files = Beyond(F.pend[Cur], CurId) /\ Cur \notin q.recover
    BY <2>1 DEF Lineage, CurId
  <2>3. PICK k : (files = {} => k = CurId) /\ (files # {} => k = F.done.id)
    OBVIOUS
  <2>4. /\ Held(files) = p + 1 .. F.done.pos /\ p <= F.done.pos
        /\ FirstOf(q, k, F.done.pos)
    BY <1>2, <1>5, <1>6, <2>1, <2>2, <2>3, FirstRecovered
  <2> QED BY <1>8, <2>1, <2>3, <2>4
<1>16. CASE Stays(F, q, Cur)
  <2>1. Active(q) => Active(F)
    BY <1>16 DEF Stays, Active
  <2>2. FirstOf(q, CurId, p)
    BY <1>16, <2>1, FirstStays DEF Stays
  <2> QED BY <1>7, <1>16, <2>2 DEF Stays
<1> QED BY <1>3, <1>9, <1>10, <1>11, <1>12, <1>13, <1>14, <1>15, <1>16 DEF Does

\* Nothing is published of no files.
LEMMA PublishNothing ==
  ASSUME TypeInv, NEW j \in Name, NEW s \in Sink, NEW id \in Nat, Publish(j, s, {}, id)
  PROVE  current' = current /\ \A k \in Name, t \in Sink : maxId'[k][t] = maxId[k][t]
<1>1. \A k \in Name, t \in Sink : maxId'[k][t] = maxId[k][t]
  BY PublishSummary
<1>2. s = Cur => current' = current
  BY NothingHeld, PublishCurrent DEF Cur
<1>3. s # Cur => current' = current
  BY DEF Publish, Cur
<1> QED BY <1>1, <1>2, <1>3

\* Checkpoints appear on disk only of a first job that runs.
LEMMA PointsAppear ==
  ASSUME SystemStep PROVE points' \subseteq points \/ F.status = "RUNNING"
<1>1. CASE \E j \in Name : CompleteCheckpoint(j)
  BY <1>1 DEF CompleteCheckpoint, F
<1>2. CASE DeleteSubsumed \/ DiscardAborted \/ ClusterStarts
  <2>1. CASE DeleteSubsumed
    <3>1. PICK p : points' = points \ {p}
      BY <2>1 DEF DeleteSubsumed
    <3> QED BY <3>1
  <2>2. CASE DiscardAborted \/ ClusterStarts
    <3>1. points' = points
      BY <2>2 DEF DiscardAborted, ClusterStarts, disk
    <3> QED BY <3>1
  <2> QED BY <1>2, <2>1, <2>2
<1>3. CASE \E j \in Name : JobStarts(j) \/ Restart(j) \/ Strikes(j) \/ Trigger(j) \/ ToldFault(j)
                           \/ JobEnds(j) \/ \E s \in Sink : Recover(j, s) \/ Commit(j, s)
  <2>1. points' = points
    BY <1>3 DEF JobStarts, Restart, Strikes, Trigger, ToldFault, JobEnds, Recover, Commit, disk
  <2> QED BY <2>1
<1> QED BY <1>1, <1>2, <1>3 DEF SystemStep

\* A first job that has nothing left for the current table goes on having nothing.
LEMMA FirstRests ==
  ASSUME TypedInv, ScriptInv, Inv, drill \in Restoring, pc > FillsAt(drill), JobStep("first"),
         F.pend[Cur] = {}
  PROVE  /\ F'.pend[Cur] = {} /\ current' = current /\ CurId' = CurId
         /\ UNCHANGED <<binlog, tableId, harness, R>>
<1>1. F.status # "absent" /\ tableId = 1 /\ pc > 4 /\ drill \in Judged
  BY StepsAreThere, FirstThere DEF F, Judged
<1>2. /\ TypeInv /\ F \in Job /\ Len(binlog) \in Nat /\ Sound(F) /\ Cur \in Sink
      /\ "first" \in Own /\ "first" \in Name /\ F.done.id \in Nat
  BY TypedIsType, Kinds, LogIsASink, JobKinds DEF Inv, Cur, Own, Name
<1>3. PICK q \in Job :
        /\ Update("first", q) /\ Sound(q) /\ Does("first", F, q, Cur)
        /\ UNCHANGED <<binlog, tableId, harness>>
  BY <1>1, <1>2, JobDoes DEF F
<1>4. F' = q /\ R' = R
  BY <1>2, <1>3, FirstUpdated
<1>5. F.status # "RESTARTING" /\ F.recover = {}
      /\ (pc > StopsAt(drill) => F.status \in {"absent", "CANCELING"})
  BY <1>1 DEF Inv, FirstInv, Fault, Restoring
<1> SUFFICES q.pend[Cur] = {} /\ current' = current /\ CurId' = CurId
  BY <1>3, <1>4
<1>6. Untouched(Cur) => current' = current /\ CurId' = CurId
  BY <1>2 DEF Untouched, CurId
<1>7. CASE Starts(F, q, Cur) \/ Completes(F, q, Cur) \/ Stays(F, q, Cur)
  BY <1>6, <1>7 DEF Starts, Completes, Stays
<1>8. CASE Fails("first", F, q, Cur) \/ IsGone(F, q, Cur)
  <2>1. q.pend = NoPoint.pend /\ Untouched(Cur)
    BY <1>8 DEF Fails, IsGone
  <2> QED BY <1>2, <1>6, <2>1, EmptyIsSound
<1>9. CASE StartsAgain(F, q, Cur) \/ Recovers("first", F, q, Cur)
  BY <1>5, <1>9 DEF StartsAgain, Recovers
<1>10. CASE Flushes(F, q, Cur)
  <2>1. F.status = "RUNNING"
    BY <1>10 DEF Flushes
  <2>2. pc <= RestoresAt(drill)
    <3>1. pc <= StopsAt(drill) /\ pc \in Nat
      BY <1>1, <1>5, <2>1, Place, Positions
    <3> QED BY <3>1, Positions
  <2>3. F.done.pos = Len(binlog)
    BY <2>2 DEF Inv, StopInv
  <2>4. F.done.pos <= F.read /\ F.read <= Len(binlog) /\ F.read \in Nat
    BY <1>1, <1>2, AliveIs
  <2>5. q.read = F.read
    <3>1. q.read \in F.read .. Len(binlog)
      BY <1>10 DEF Flushes
    <3> QED BY <1>2, <2>3, <2>4, <3>1
  <2>6. q.pend[Cur] = {}
    BY <1>10, <2>5 DEF Flushes
  <2> QED BY <1>6, <1>10, <2>6 DEF Flushes
<1>11. CASE Commits("first", F, q, Cur)
  <2>1. PICK files :
          /\ files = {f \in F.pend[Cur] : f.id <= F.done.id}
          /\ q.pend[Cur] = F.pend[Cur] \ files
          /\ Publish("first", Cur, files, F.done.id)
    BY <1>11 DEF Commits
  <2>2. files = {} /\ q.pend[Cur] = {}
    BY <2>1
  <2>3. Publish("first", Cur, {}, F.done.id)
    BY <2>1, <2>2
  <2> QED BY <1>2, <2>2, <2>3, PublishNothing DEF CurId
<1> QED BY <1>3, <1>7, <1>8, <1>9, <1>10, <1>11 DEF Does

-----------------------------------------------------------------------------
(* The restored job and the current table. *)

\* What is said of a job's state is said of the job when it has that state.
LEMMA RestoredNext ==
  ASSUME NEW q, NEW m, NEW x, binlog' = binlog, R' = q, CurId' = m, RestoredOf(q, m, x)
  PROVE  RestoredOf(R, CurId, x)'
BY DEF RestoredOf, Shown, Holds, Held, Beyond

\* Of a step of the restored job the current table shows more, or the same.
LEMMA RestoredShows ==
  ASSUME TypedInv, ScriptInv, Inv, drill \in Judged, JobStep("restored"),
         NEW p \in 0 .. Len(binlog), current = Cut(p), RestoredOf(R, CurId, p)
  PROVE  /\ UNCHANGED <<binlog, tableId, harness, F>> /\ CurId' = CurId
         /\ \E x \in p .. Len(binlog) : current' = Cut(x) /\ RestoredOf(R, CurId, x)'
<1>1. /\ R.status # "absent" /\ tableId = 1 /\ pc > 4 /\ drill \in Restoring
      /\ pc > RestoresAt(drill)
  BY StepsAreThere, RestoredThere DEF R
<1>2. /\ TypeInv /\ R \in Job /\ Len(binlog) \in Nat /\ Sound(R) /\ Cur \in Sink
      /\ "restored" \in Own /\ "restored" \in Name /\ "first" \in Name
  BY TypedIsType, Kinds, LogIsASink DEF Inv, Cur, Own, Name
<1>3. PICK q \in Job :
        /\ Update("restored", q) /\ Sound(q) /\ Does("restored", R, q, Cur)
        /\ UNCHANGED <<binlog, tableId, harness>>
  BY <1>1, <1>2, JobDoes DEF R
<1>4. F' = F /\ R' = q
  <2>1. job'["restored"] = q /\ job'["first"] = job["first"]
    BY <1>2, <1>3, JobUpdated
  <2> QED BY <2>1 DEF F, R
<1>5. p \in Nat /\ p <= Len(binlog) /\ p \in p .. Len(binlog)
  BY <1>2
<1>6. /\ R.read \in Nat /\ R.read <= Len(binlog) /\ R.done.pos <= Len(binlog)
      /\ R.done.pos \in Nat /\ R.done.id \in Nat
  <2>1. R.done.pos <= R.read /\ R.read <= Len(binlog) /\ R.read \in Nat /\ R.done.pos \in Nat
        /\ R.done.id \in Nat
    BY <1>1, <1>2, AliveIs
  <2> QED BY <1>2, <2>1
<1>7. /\ R.status \in {"STARTING", "RUNNING"} /\ "fault" \notin R.notify
      /\ R.status = "STARTING" => R.done.id >= 1
  BY <1>1 DEF Inv, RestoredInv, HandedOver
<1>8. CurId' = CurId
  <2>1. ASSUME NEW files, Publish("restored", Cur, files, R.done.id) PROVE CurId' = CurId
    BY <1>2, <1>6, <2>1, PublishSummary DEF CurId
  <2>2. CASE Untouched(Cur)
    BY <1>2, <2>2 DEF Untouched, CurId
  <2> QED BY <1>3, <2>1, <2>2
       DEF Does, Starts, StartsAgain, Fails, IsGone, Flushes, Completes, Commits, Recovers, Stays
<1> SUFFICES \E x \in p .. Len(binlog) : current' = Cut(x) /\ RestoredOf(q, CurId, x)
  BY <1>3, <1>4, <1>8, RestoredNext
<1>9. ASSUME Untouched(Cur), RestoredOf(q, CurId, p)
      PROVE  \E x \in p .. Len(binlog) : current' = Cut(x) /\ RestoredOf(q, CurId, x)
  <2>1. current' = Cut(p)
    BY <1>2, <1>9 DEF Untouched
  <2> QED BY <1>5, <1>9, <2>1
<1>10. CASE Starts(R, q, Cur)
  <2>1. R.status = "STARTING" /\ R.done.id > 0
    BY <1>6, <1>7, <1>10 DEF Starts
  <2>2. RestoredOf(q, CurId, p)
    BY <1>2, <1>10, <2>1 DEF Starts, RestoredOf
  <2> QED BY <1>9, <1>10, <2>2 DEF Starts
<1>11. CASE StartsAgain(R, q, Cur) \/ Fails("restored", R, q, Cur) \/ IsGone(R, q, Cur)
  BY <1>7, <1>11 DEF StartsAgain, Fails, IsGone
<1>12. CASE Flushes(R, q, Cur)
  <2>1. R.status = "RUNNING" /\ R.recover = {} /\ q.status = "RUNNING" /\ q.recover = {}
    BY <1>12 DEF Flushes
  <2>2. Holds(R, Cur, p)
    BY <2>1 DEF RestoredOf
  <2>3. PICK n \in R.read .. Len(binlog) : n = q.read
    BY <1>12 DEF Flushes
  <2>4. /\ q.done = R.done /\ q.read = n
        /\ q.pend[Cur] = R.pend[Cur] \cup
             (IF n = R.read THEN {} ELSE {[id |-> R.epoch + 1, lo |-> R.read, hi |-> n]})
    BY <1>12, <2>3 DEF Flushes
  <2>5. Holds(q, Cur, p)
    BY <1>1, <1>2, <1>5, <2>2, <2>4, HoldsFlushed
  <2>6. RestoredOf(q, CurId, p)
    BY <2>1, <2>5 DEF RestoredOf
  <2> QED BY <1>9, <1>12, <2>6 DEF Flushes
<1>13. CASE Completes(R, q, Cur)
  <2>1. /\ R.status = "RUNNING" /\ R.recover = {} /\ q.status = "RUNNING" /\ q.recover = {}
        /\ q.done.id = R.epoch /\ q.done.pos = R.read /\ q.done.pend = R.pend
        /\ q.read = R.read /\ q.pend = R.pend
    BY <1>13 DEF Completes
  <2>2. Holds(R, Cur, p)
    BY <2>1 DEF RestoredOf
  <2>3. Holds(q, Cur, p)
    BY <1>1, <1>2, <1>5, <2>1, <2>2, HoldsDone
  <2>4. RestoredOf(q, CurId, p)
    BY <2>1, <2>3 DEF RestoredOf
  <2> QED BY <1>9, <1>13, <2>4 DEF Completes
<1>14. CASE Commits("restored", R, q, Cur)
  <2>1. PICK files :
          /\ q.status = R.status /\ R.status \in {"RUNNING", "CANCELING"}
          /\ R.recover = {} /\ q.recover = {} /\ q.done = R.done /\ q.read = R.read
          /\ files = {f \in R.pend[Cur] : f.id <= R.done.id}
          /\ q.pend[Cur] = R.pend[Cur] \ files
          /\ Publish("restored", Cur, files, R.done.id)
    BY <1>14 DEF Commits
  <2>2. R.status = "RUNNING"
    BY <1>7, <2>1
  <2>3. Holds(R, Cur, p)
    BY <2>1, <2>2 DEF RestoredOf
  <2>4. Held(files) = p + 1 .. R.done.pos /\ p <= R.done.pos
    BY <2>1, <2>3 DEF Holds
  <2>5. q.pend[Cur] = R.pend[Cur] \ {f \in R.pend[Cur] : f.id <= R.done.id}
    BY <2>1
  <2>6. Holds(q, Cur, R.done.pos)
    BY <1>1, <1>2, <1>5, <2>1, <2>3, <2>5, HoldsPublished
  <2>7. PICK x \in p .. Len(binlog) : x = R.done.pos
    <3>1. R.done.pos \in p .. Len(binlog)
      BY <1>2, <1>5, <1>6, <2>4
    <3> QED BY <3>1
  <2>8. current' = Cut(x)
    BY <2>1, <2>4, <2>7, PublishCut
  <2>9. RestoredOf(q, CurId, x)
    BY <2>1, <2>2, <2>6, <2>7 DEF RestoredOf
  <2> QED BY <2>8, <2>9
<1>15. CASE Recovers("restored", R, q, Cur)
  <2>1. PICK files :
          /\ R.status = "RUNNING" /\ q.status = "RUNNING" /\ Cur \in R.recover
          /\ q.recover = R.recover \ {Cur} /\ q.done = R.done /\ q.read = R.read
          /\ files = Beyond(R.pend[Cur], CurId) /\ q.pend[Cur] = {}
          /\ Publish("restored", Cur, files, R.done.id)
    BY <1>15 DEF Recovers, Lineage, CurId
  <2>2. p = R.done.pos /\ Shown(R.done, CurId) /\ R.pend[Cur] = R.done.pend[Cur]
        /\ R.read = R.done.pos
    BY <2>1 DEF RestoredOf
  <2>3. Held(files) = {}
    BY <2>1, <2>2 DEF Shown
  <2>4. current' = Cut(p)
    BY <1>2, <2>1, <2>3, PublishCurrent DEF Cur
  <2>5. Holds(q, Cur, R.done.pos)
    BY <1>6, <2>1, <2>2, HoldsNothing
  <2>6. RestoredOf(q, CurId, p)
    BY <2>1, <2>2, <2>5 DEF RestoredOf
  <2> QED BY <1>5, <2>4, <2>6
<1>16. CASE Stays(R, q, Cur)
  <2>1. RestoredOf(q, CurId, p)
    BY <1>16 DEF Stays, RestoredOf, Holds
  <2> QED BY <1>9, <1>16, <2>1 DEF Stays
<1> QED BY <1>3, <1>10, <1>11, <1>12, <1>13, <1>14, <1>15, <1>16 DEF Does

-----------------------------------------------------------------------------
(* What the current table shows through every step of the jobs. *)

\* It shows what it is to show if each part does.
LEMMA ShowsOn ==
  ASSUME Len(binlog) \in Nat, NEW p, CurrentAt(p), NEW x \in p .. Len(binlog), current' = Cut(x),
         UNCHANGED <<binlog, harness>>, BetweenJobs => CurId' = CurId,
         pc = 11 /\ drill = "checkpoint_restore" => points' \subseteq points,
         ~Restored => FirstOf(F, CurId, x)',
         drill \in Restoring /\ pc > FillsAt(drill) => F'.pend[Cur] = {},
         Restored => RestoredOf(R, CurId, x)'
  PROVE  CurrentAt(x)'
<1>1. p \in Nat /\ p <= Len(binlog) /\ x \in Nat /\ p <= x /\ x <= Len(binlog)
  BY DEF CurrentAt
<1>2. drill' = drill /\ pc' = pc /\ seen' = seen /\ binlog' = binlog
  BY DEF harness, script
<1>3. (x \in 0 .. Len(binlog) /\ current = Cut(x))'
  <2>1. Cut(x)' = Cut(x)
    BY <1>2 DEF Cut, RowAfter
  <2> QED BY <1>1, <1>2, <2>1
<1>4. (pc > FillsAt(drill) => x >= 1)'
  BY <1>1, <1>2 DEF CurrentAt
<1>5. Restored' = Restored /\ BetweenJobs' = BetweenJobs
  BY <1>2 DEF Restored, BetweenJobs
<1>6. (BetweenJobs => x = Len(binlog) /\ ShownPoint)'
  <2>1. SUFFICES ASSUME BetweenJobs PROVE x = Len(binlog) /\ ShownPoint'
    BY <1>2, <1>5
  <2>2. x = Len(binlog) /\ ShownPoint /\ CurId' = CurId
    BY <1>1, <2>1 DEF CurrentAt
  <2>3. Shown(seen.point, CurId)' <=> Shown(seen.point, CurId)
    BY <1>2, <2>2 DEF Shown, Held, Beyond
  <2>4. ShownPoint'
    <3>1. CASE drill \in {"savepoint_restore", "smoke"}
      BY <1>2, <2>2, <2>3, <3>1 DEF ShownPoint
    <3>2. CASE drill = "jobmanager_restart"
      BY <1>2, <2>2, <2>3, <3>2 DEF ShownPoint
    <3>3. CASE drill = "checkpoint_restore"
      BY <1>2, <2>2, <2>3, <3>3 DEF ShownPoint
    <3> QED BY <2>1, <3>1, <3>2, <3>3 DEF BetweenJobs, Restoring
  <2> QED BY <2>2, <2>4
<1>7. (~Restored => FirstOf(F, CurId, x))'
  BY <1>5
<1>8. (drill \in Restoring /\ pc > FillsAt(drill) => F.pend[Cur] = {})'
  BY <1>2
<1>9. (Restored => RestoredOf(R, CurId, x))'
  BY <1>5
<1> QED BY <1>3, <1>4, <1>6, <1>7, <1>8, <1>9 DEF CurrentAt

\* The first job and the table as they are.
LEMMA SameShows ==
  ASSUME Len(binlog) \in Nat, NEW p, CurrentAt(p), current' = current, CurId' = CurId,
         F' = F, R' = R, UNCHANGED <<binlog, harness>>, points' \subseteq points
  PROVE  CurrentAt(p)'
<1>1. p \in p .. Len(binlog) /\ current' = Cut(p)
  BY DEF CurrentAt
<1>2. ~Restored => FirstOf(F, CurId, p)'
  BY FirstNext DEF CurrentAt
<1>3. Restored => RestoredOf(R, CurId, p)'
  BY RestoredNext DEF CurrentAt
<1>4. drill \in Restoring /\ pc > FillsAt(drill) => F'.pend[Cur] = {}
  BY DEF CurrentAt
<1> QED BY <1>1, <1>2, <1>3, <1>4, ShowsOn

\* Whatever the jobs and the cluster do, the current table shows the source up to some
\* change, and never less of it.
LEMMA SystemShows ==
  ASSUME TypedInv, ScriptInv, Inv, drill \in Updating, SystemStep, NEW p, CurrentAt(p)
  PROVE  UNCHANGED <<binlog, harness>> /\ \E x \in p .. Len(binlog) : CurrentAt(x)'
<1>1. /\ Len(binlog) \in Nat /\ p \in 0 .. Len(binlog) /\ p \in p .. Len(binlog)
      /\ current = Cut(p) /\ drill \in Judged /\ p \in Nat
  <2>1. Len(binlog) \in Nat
    BY LedgerIs DEF TypedInv
  <2> QED BY <2>1 DEF CurrentAt, Updating, Judged
<1>2. TypeInv /\ pc \in Nat
  BY <1>1, TypedIsType, Place
<1>3. CASE JobStep("first")
  <2>1. /\ UNCHANGED <<binlog, tableId, harness, R>>
        /\ ~Restored => \E x \in p .. Len(binlog) : current' = Cut(x) /\ FirstOf(F, CurId, x)'
    <3>1. CASE Restored
      <4>1. drill \in Restoring /\ pc > FillsAt(drill)
        BY <1>2, <3>1, Positions DEF Restored
      <4>2. F.pend[Cur] = {}
        BY <4>1 DEF CurrentAt
      <4> QED BY <1>3, <3>1, <4>1, <4>2, FirstRests
    <3>2. CASE ~Restored
      <4>1. FirstOf(F, CurId, p)
        BY <3>2 DEF CurrentAt
      <4> QED BY <1>1, <1>3, <4>1, FirstShows
    <3> QED BY <3>1, <3>2
  <2>2. CASE drill \in Restoring /\ pc > FillsAt(drill)
    <3>1. F.pend[Cur] = {}
      BY <2>2 DEF CurrentAt
    <3>2. F'.pend[Cur] = {} /\ current' = current /\ CurId' = CurId
      BY <1>3, <2>2, <3>1, FirstRests
    <3>3. pc = 11 /\ drill = "checkpoint_restore" => points' \subseteq points
      <4>1. SUFFICES ASSUME pc = 11, drill = "checkpoint_restore" PROVE points' \subseteq points
        OBVIOUS
      <4>2. F.status \in {"absent", "CANCELING"}
        <5>1. StopsAt(drill) = 9 /\ drill \notin Fault
          BY <4>1 DEF StopsAt, Rewriting, Fault
        <5> QED BY <4>1, <5>1 DEF Inv, FirstInv
      <4> QED BY <4>2, PointsAppear
    <3>4. CASE Restored
      <4>1. RestoredOf(R, CurId, p)'
        BY <2>1, <3>2, <3>4, RestoredNext DEF CurrentAt
      <4>2. CurrentAt(p)'
        BY <1>1, <2>1, <2>2, <3>2, <3>3, <3>4, <4>1, ShowsOn
      <4> QED BY <1>1, <2>1, <4>2
    <3>5. CASE ~Restored
      <4>1. PICK x \in p .. Len(binlog) : current' = Cut(x) /\ FirstOf(F, CurId, x)'
        BY <2>1, <3>5
      <4>2. CurrentAt(x)'
        BY <1>1, <2>1, <3>2, <3>3, <3>5, <4>1, ShowsOn
      <4> QED BY <2>1, <4>1, <4>2
    <3> QED BY <3>4, <3>5
  <2>3. CASE ~(drill \in Restoring /\ pc > FillsAt(drill))
    <3>1. ~Restored /\ ~BetweenJobs /\ ~(pc = 11 /\ drill = "checkpoint_restore")
      BY <1>2, <2>3, Positions DEF Restored, BetweenJobs, Restoring
    <3>2. PICK x \in p .. Len(binlog) : current' = Cut(x) /\ FirstOf(F, CurId, x)'
      BY <2>1, <3>1
    <3>3. CurrentAt(x)'
      BY <1>1, <2>1, <2>3, <3>1, <3>2, ShowsOn
    <3> QED BY <2>1, <3>2, <3>3
  <2> QED BY <2>2, <2>3
<1>4. CASE JobStep("restored")
  <2>1. Restored /\ drill \in Restoring /\ pc > FillsAt(drill) /\ ~BetweenJobs
    <3>1. drill \in Restoring /\ pc > RestoresAt(drill)
      BY <1>1, <1>4, StepsAreThere, RestoredThere DEF R
    <3> QED BY <1>2, <3>1, Positions DEF Restored, BetweenJobs
  <2>2. RestoredOf(R, CurId, p) /\ F.pend[Cur] = {}
    BY <2>1 DEF CurrentAt
  <2>3. UNCHANGED <<binlog, harness>> /\ F' = F
    BY <1>1, <1>4, <2>2, RestoredShows
  <2>4. PICK x \in p .. Len(binlog) : current' = Cut(x) /\ RestoredOf(R, CurId, x)'
    BY <1>1, <1>4, <2>2, RestoredShows
  <2>5. pc = 11 /\ drill = "checkpoint_restore" => points' \subseteq points
    BY <2>1 DEF Restored, RestoresAt
  <2>6. CurrentAt(x)'
    BY <1>1, <2>1, <2>2, <2>3, <2>4, <2>5, ShowsOn
  <2> QED BY <2>3, <2>4, <2>6
<1>5. CASE JobStep("left")
  <2>1. F' = F /\ R' = R /\ UNCHANGED <<binlog, points, tables, harness>>
    BY <1>5, LeftEnds
  <2>2. current' = current /\ CurId' = CurId /\ points' \subseteq points
    BY <2>1 DEF tables, CurId
  <2>3. CurrentAt(p)'
    BY <1>1, <2>1, <2>2, SameShows
  <2> QED BY <1>1, <2>1, <2>3
<1>6. CASE DeleteSubsumed \/ DiscardAborted \/ ClusterStarts
  <2>1. UNCHANGED <<binlog, job, tables, harness>>
    BY <1>6 DEF DeleteSubsumed, DiscardAborted, ClusterStarts
  <2>2. points' \subseteq points
    BY <1>6 DEF DeleteSubsumed, DiscardAborted, ClusterStarts, disk
  <2>3. F' = F /\ R' = R /\ current' = current /\ CurId' = CurId
    BY <2>1 DEF F, R, tables, CurId
  <2>4. CurrentAt(p)'
    BY <1>1, <2>1, <2>2, <2>3, SameShows
  <2> QED BY <1>1, <2>1, <2>4
<1> QED BY <1>3, <1>4, <1>5, <1>6 DEF SystemStep, JobStep, Name

-----------------------------------------------------------------------------
(* What the current table shows through every step of a drill. *)

\* What is written behind what a job has read changes nothing of what it holds.
LEMMA HoldsStill ==
  ASSUME Extends(binlog', binlog), NEW r, JobTyped(r), Sound(r), NEW s \in Sink
  PROVE  /\ \A p : Holds(r, s, p)' = Holds(r, s, p)
         /\ \A m : Held(Beyond(r.done.pend[s], m))' = Held(Beyond(r.done.pend[s], m))
<1>1. r \in Job /\ r.read <= Len(binlog) /\ r.done.pos <= Len(binlog)
      /\ Len(binlog) \in Nat /\ r.read \in Nat /\ r.done.pos \in Nat
  BY JobKinds DEF JobTyped, Extends
<1>2. /\ r.pend[s] \subseteq Files /\ r.done.pend[s] \subseteq Files
      /\ \A f \in r.pend[s] : f.hi <= r.read
      /\ \A f \in r.done.pend[s] : f.hi <= r.done.pos
  BY <1>1, JobKinds DEF Sound, Intervals
<1>3. /\ \A f \in r.pend[s] : f.hi <= Len(binlog)
      /\ \A f \in r.done.pend[s] : f.hi <= Len(binlog)
  BY <1>1, <1>2 DEF Files
<1>4. \A m : Held(Beyond(r.done.pend[s], m))' = Held(Beyond(r.done.pend[s], m))
  <2> TAKE m
  <2>1. PICK files : files = Beyond(r.done.pend[s], m)
    OBVIOUS
  <2>2. files \subseteq Files /\ \A f \in files : f.hi <= Len(binlog)
    BY <1>2, <1>3, <2>1 DEF Beyond
  <2>3. Held(files)' = Held(files)
    BY <2>2, HeldSame
  <2> QED BY <2>1, <2>3
<1>5. \A p : Holds(r, s, p)' = Holds(r, s, p)
  <2>1. PICK A : A = {f \in r.pend[s] : f.id <= r.done.id}
    OBVIOUS
  <2>2. PICK B : B = {f \in r.pend[s] : f.id > r.done.id}
    OBVIOUS
  <2>3. A \subseteq Files /\ \A f \in A : f.hi <= Len(binlog)
    BY <1>2, <1>3, <2>1
  <2>4. B \subseteq Files /\ \A f \in B : f.hi <= Len(binlog)
    BY <1>2, <1>3, <2>2
  <2>5. Held(A)' = Held(A) /\ Held(B)' = Held(B)
    BY <2>3, <2>4, HeldSame
  <2> QED BY <2>1, <2>2, <2>5 DEF Holds
<1> QED BY <1>4, <1>5

\* So what is said of a job by what it holds stays true.
LEMMA HeldStill ==
  ASSUME Extends(binlog', binlog), NEW r, JobTyped(r), Sound(r)
  PROVE  /\ \A p, m : FirstOf(r, m, p) => FirstOf(r, m, p)'
         /\ \A p, m : RestoredOf(r, m, p) => RestoredOf(r, m, p)'
<1>1. /\ \A p : Holds(r, Cur, p)' = Holds(r, Cur, p)
      /\ \A m : Held(Beyond(r.done.pend[Cur], m))' = Held(Beyond(r.done.pend[Cur], m))
  BY HoldsStill, LogIsASink DEF Cur
<1>2. \A p, m : FirstOf(r, m, p) => FirstOf(r, m, p)'
  BY <1>1 DEF FirstOf, Active
<1>3. \A p, m : RestoredOf(r, m, p) => RestoredOf(r, m, p)'
  BY <1>1 DEF RestoredOf, Shown
<1> QED BY <1>2, <1>3

\* Nor does it change what the table shows.
LEMMA CutKept ==
  ASSUME Extends(binlog', binlog), NEW p \in 0 .. Len(binlog), current = Cut(p),
         current' = current
  PROVE  (p \in 0 .. Len(binlog) /\ current = Cut(p))'
<1>1. Cut(p)' = Cut(p)
  BY CutSame
<1>2. p \in 0 .. Len(binlog')
  BY DEF Extends
<1> QED BY <1>1, <1>2

\* A table that shows nothing of the source has no rows.
LEMMA RowsShow ==
  ASSUME NEW p \in Nat, current = Cut(p), NEW n \in Nat \ {0}, RowsArrived(n)
  PROVE  p >= 1
<1>1. SUFFICES ASSUME p = 0 PROVE FALSE
  OBVIOUS
<1>2. \A r \in Row : RowIn(binlog, 0, r) = 0
  BY RowInIs
<1>3. Present(current) = {}
  BY <1>1, <1>2, CutIs DEF Present
<1>4. Cardinality(Present(current)) = 0
  BY <1>3, FS_EmptySet
<1> QED BY <1>4 DEF RowsArrived

\* What a step leaves alone that only reads, or writes the source.
LEMMA ReadsOrWrites ==
  ASSUME TypedInv, ScriptInv, drill \in Updating, Quiet \/ Write
  PROVE  /\ Extends(binlog', binlog) /\ UNCHANGED <<drill, job, points, current, maxId>>
         /\ verdict = "none" /\ drill \in Judged /\ TypeInv
         /\ Write => pc' = pc + 1 /\ Step.do \in Writes
         /\ Quiet => QuietSeen /\ QuietPlace /\ QuietKeeps
<1>1. drill \in Judged /\ TypeInv
  BY TypedIsType DEF Updating, Judged
<1>2. /\ Len(binlog) \in Nat /\ DOMAIN binlog = 1 .. Len(binlog)
  BY LedgerIs DEF TypedInv
<1>3. CASE Quiet
  <2>1. QuietSeen /\ QuietPlace /\ QuietKeeps /\ verdict = "none"
    BY <1>1, <1>3, QuietIs, QuietGoes
  <2>2. ~Write
    BY <2>1, <1>3 DEF QuietPlace, Write, At, Writes
  <2>3. binlog' = binlog
    BY <2>1 DEF QuietKeeps
  <2>4. Extends(binlog', binlog)
    BY <1>2, <2>3 DEF Extends
  <2> QED BY <1>1, <2>1, <2>2, <2>4 DEF QuietKeeps
<1>4. CASE Write /\ ~Quiet
  <2>1. /\ Len(binlog) < Len(binlog') /\ \A i \in 1 .. Len(binlog) : binlog'[i] = binlog[i]
    BY <1>4, WriteBooked DEF TypedInv, ScriptInv
  <2>2. /\ Stretch(binlog') /\ pc' = pc + 1 /\ Step.do \in Writes
    BY <1>1, <1>4, WriteAppends
  <2>3. Len(binlog') \in Nat /\ DOMAIN binlog' = 1 .. Len(binlog')
    BY <2>2 DEF Stretch
  <2>4. Extends(binlog', binlog)
    BY <1>2, <2>1, <2>3 DEF Extends
  <2>5. UNCHANGED <<drill, job, points, current, maxId>> /\ verdict = "none"
    BY <1>4 DEF Write, Go, disk, tables, At
  <2> QED BY <1>1, <1>4, <2>2, <2>4, <2>5
<1> QED BY <1>3, <1>4

\* A drill that reads or writes at the ends, or behind the restoration.
LEMMA FollowsOn ==
  ASSUME TypedInv, ScriptInv, Inv, drill \in Updating, Quiet \/ Write, pc > 4,
         NEW p, CurrentAt(p), ~BetweenJobs'
  PROVE  CurrentAt(p)'
<1>1. /\ Extends(binlog', binlog) /\ UNCHANGED <<drill, job, points, current, maxId>>
      /\ drill \in Judged /\ TypeInv
      /\ Write => pc' = pc + 1 /\ Step.do \in Writes
      /\ Quiet => QuietSeen /\ QuietPlace /\ QuietKeeps
  BY ReadsOrWrites
<1>2. /\ p \in 0 .. Len(binlog) /\ current = Cut(p) /\ p \in Nat
  BY DEF CurrentAt
<1>3. /\ F' = F /\ R' = R /\ CurId' = CurId /\ Sound(F) /\ Sound(R)
      /\ JobTyped(F) /\ JobTyped(R)
  <2>1. JobTyped(F) /\ JobTyped(R)
    BY DEF TypedInv, JobsTyped, F, R, Name
  <2> QED BY <1>1, <2>1 DEF F, R, CurId, Inv
<1>4. (p \in 0 .. Len(binlog) /\ current = Cut(p))'
  BY <1>1, <1>2, CutKept
<1>5. /\ pc \in Nat /\ pc' \in Nat /\ pc' <= pc + 1 /\ (pc' < pc => pc > 12 /\ pc' = pc - 1)
      /\ FillsAt(drill) = 7 /\ RestoresAt(drill) \in {10, 11}
  <2>1. pc \in Nat /\ (Step.do = "await_audit" => pc > 12) /\ FillsAt(drill) = 7
        /\ RestoresAt(drill) \in {10, 11}
    BY <1>1, Place, Positions DEF FillsAt, Updating, Restoring, Rewriting, Fault
  <2>2. pc' = pc \/ pc' = pc + 1 \/ (pc' = pc - 1 /\ Step.do = "await_audit")
    BY <1>1 DEF QuietPlace
  <2> QED BY <2>1, <2>2
<1>6. drill \in Restoring /\ pc = RestoresAt(drill) => FALSE
  <2>1. SUFFICES ASSUME drill \in Restoring, pc = RestoresAt(drill) PROVE FALSE
    OBVIOUS
  <2>2. Step.do = "submit_restored"
    BY <2>1, RestorePlace, Positions DEF RestoresAt, Restoring
  <2> QED BY <1>1, <2>2 DEF QuietPlace, Writes
<1>7. Restored' = Restored
  <2>1. drill \in Restoring => (pc' > RestoresAt(drill) <=> pc > RestoresAt(drill))
    BY <1>5, <1>6
  <2> QED BY <1>1, <2>1 DEF Restored
<1>8. (pc > FillsAt(drill) => p >= 1)'
  <2>1. SUFFICES ASSUME pc' > 7 PROVE p >= 1
    BY <1>1, <1>5
  <2>2. CASE pc > 7
    BY <1>5, <2>2 DEF CurrentAt
  <2>3. CASE pc = 7
    <3>1. Step.do = "await_rows" /\ Step.n \in Nat \ {0}
      <4>1. CASE drill \in Fault
        <5>1. IsFaultDrill(Script[drill])
          BY <4>1, ScriptsListed DEF ScriptInv
        <5>2. Script[drill][7].do = "await_rows" /\ Script[drill][7].n = 2
          BY <5>1 DEF IsFaultDrill, IsFilling
        <5> QED BY <2>3, <5>2 DEF Step
      <4>2. CASE drill \in Restoring
        <5>1. Step.do = "await_rows"
          BY <2>3, <4>2, RestorePlace
        <5>2. Script[drill][7].n \in Nat \ {0}
          BY <4>2, ScriptsLegal DEF ScriptInv, Legal, StopsAndRestores
        <5> QED BY <2>3, <5>1, <5>2 DEF Step
      <4> QED BY <4>1, <4>2 DEF Updating
    <3>2. Quiet /\ pc' = pc + 1
      BY <1>1, <1>5, <2>1, <2>3, <3>1 DEF Writes
    <3>3. RowsArrived(Step.n)
      BY <1>1, <3>1, <3>2 DEF QuietSeen
    <3> QED BY <1>2, <3>1, <3>3, RowsShow
  <2> QED BY <1>5, <2>1, <2>2, <2>3
<1>9. (~Restored => FirstOf(F, CurId, p))'
  <2>1. SUFFICES ASSUME ~Restored PROVE FirstOf(F, CurId, p)'
    BY <1>7
  <2>2. PICK r : r = F
    OBVIOUS
  <2>3. PICK m : m = CurId
    OBVIOUS
  <2>4. FirstOf(r, m, p)
    BY <2>1, <2>2, <2>3 DEF CurrentAt
  <2>5. JobTyped(r) /\ Sound(r)
    BY <1>3, <2>2
  <2>6. FirstOf(r, m, p)'
    BY <1>1, <2>4, <2>5, HeldStill
  <2>7. F' = r /\ CurId' = m
    BY <1>3, <2>2, <2>3
  <2> QED BY <2>6, <2>7
<1>10. (Restored => RestoredOf(R, CurId, p))'
  <2>1. SUFFICES ASSUME Restored PROVE RestoredOf(R, CurId, p)'
    BY <1>7
  <2>2. PICK r : r = R
    OBVIOUS
  <2>3. PICK m : m = CurId
    OBVIOUS
  <2>4. RestoredOf(r, m, p)
    BY <2>1, <2>2, <2>3 DEF CurrentAt
  <2>5. JobTyped(r) /\ Sound(r)
    BY <1>3, <2>2
  <2>6. RestoredOf(r, m, p)'
    BY <1>1, <2>4, <2>5, HeldStill
  <2>7. R' = r /\ CurId' = m
    BY <1>3, <2>2, <2>3
  <2> QED BY <2>6, <2>7
<1>11. (drill \in Restoring /\ pc > FillsAt(drill) => F.pend[Cur] = {})'
  <2>1. SUFFICES ASSUME drill \in Restoring, pc' > 7 PROVE F.pend[Cur] = {}
    BY <1>1, <1>3, <1>5
  <2>2. ~(pc' <= RestoresAt(drill))
    BY <1>1, <1>5, <2>1 DEF BetweenJobs
  <2>3. pc > 7
    BY <1>5, <2>2
  <2> QED BY <1>5, <2>1, <2>3 DEF CurrentAt
<1> QED BY <1>4, <1>8, <1>9, <1>10, <1>11 DEF CurrentAt

\* A drill that reads between its two jobs: it has waited for all rows, and what it
\* finds to restore from is what the table shows.
LEMMA BetweenOn ==
  ASSUME TypedInv, ScriptInv, Inv, drill \in Updating, Quiet \/ Write, pc > 4,
         NEW p, CurrentAt(p), BetweenJobs'
  PROVE  CurrentAt(p)'
<1>1. /\ Extends(binlog', binlog) /\ UNCHANGED <<drill, job, points, current, maxId>>
      /\ drill \in Judged /\ TypeInv
      /\ Write => pc' = pc + 1 /\ Step.do \in Writes
      /\ Quiet => QuietSeen /\ QuietPlace /\ QuietKeeps
  BY ReadsOrWrites
<1>2. /\ p \in 0 .. Len(binlog) /\ current = Cut(p) /\ p \in Nat /\ Len(binlog) \in Nat
  <2>1. Len(binlog) \in Nat
    BY LedgerIs DEF TypedInv
  <2> QED BY <2>1 DEF CurrentAt
<1>3. /\ drill \in Restoring /\ pc' \in Nat /\ pc \in Nat /\ pc' > 7 /\ pc' <= RestoresAt(drill)
      /\ FillsAt(drill) = 7 /\ RestoresAt(drill) = (IF drill = "smoke" THEN 10 ELSE 11)
      /\ StopsAt(drill) = (IF drill = "savepoint_restore" THEN 10 ELSE 9)
      /\ pc' = pc + 1 /\ Quiet
  <2>1. drill \in Restoring /\ FillsAt(drill) = 7 /\ pc \in Nat
        /\ RestoresAt(drill) = (IF drill = "smoke" THEN 10 ELSE 11)
        /\ StopsAt(drill) = (IF drill = "savepoint_restore" THEN 10 ELSE 9)
    BY <1>1, Positions, Place DEF BetweenJobs
  <2>2. pc' > 7 /\ pc' <= RestoresAt(drill)
    BY <1>1, <2>1 DEF BetweenJobs
  <2>3. Step.do = "await_audit" => pc > 12
    BY <1>1, Place
  <2>4. pc' = pc + 1 /\ Quiet
    <3>1. CASE Write
      <4>1. pc = 6 \/ pc > RestoresAt(drill)
        BY <1>1, <2>1, <3>1, StopPlace
      <4> QED BY <1>1, <2>1, <2>2, <3>1, <4>1
    <3>2. CASE Quiet
      <4>1. pc' = pc + 1 \/ (pc' = pc /\ Step.do \in {"sample", "verdict"})
        BY <1>1, <2>1, <2>2, <2>3, <3>2 DEF QuietPlace
      <4>2. CASE pc' = pc /\ Step.do \in {"sample", "verdict"}
        BY <2>1, <2>2, <4>2, RestorePlace
      <4> QED BY <3>2, <4>1, <4>2
    <3> QED BY <3>1, <3>2
  <2> QED BY <2>1, <2>2, <2>4
<1>4. QuietSeen /\ QuietPlace /\ binlog' = binlog
  BY <1>1, <1>3 DEF QuietKeeps
<1>5. /\ F' = F /\ R' = R /\ CurId' = CurId /\ F \in Job
      /\ pc <= 10 /\ ~Restored /\ ~Restored' /\ drill' = drill
  <2>1. pc <= 10 /\ ~(pc > RestoresAt(drill))
    BY <1>3
  <2> QED BY <1>1, <1>3, <2>1, Kinds DEF F, R, CurId, Restored
<1>6. (p \in 0 .. Len(binlog) /\ current = Cut(p))'
  BY <1>1, <1>2, CutKept
<1>7. FirstOf(F, CurId, p)
  BY <1>5 DEF CurrentAt
<1>8. /\ F.pend[Cur] = {} /\ p = Len(binlog) /\ p >= 1
      /\ F.done.pos = Len(binlog) /\ F.done.id >= 1
  <2>1. CASE pc = 7
    <3>1. RowsArrived(Step.n)
      BY <1>3, <1>4, <2>1, RestorePlace DEF QuietSeen
    <3>2. F.pend[Cur] = {} /\ F.done.pos = Len(binlog) /\ F.done.id >= 1
      BY <1>3, <2>1, <3>1, RowsThere DEF Cur
    <3>3. F.status \in {"STARTING", "RUNNING"} /\ F.recover = {}
      <4>1. drill \notin Fault /\ ~(pc > StopsAt(drill))
        BY <1>3, <2>1 DEF Restoring, Fault
      <4> QED BY <4>1 DEF Inv, FirstInv
    <3>4. p <= F.done.pos /\ Held({f \in F.pend[Cur] : f.id <= F.done.id}) = p + 1 .. F.done.pos
      BY <1>7, <3>3 DEF FirstOf, Holds, Active
    <3>5. {f \in F.pend[Cur] : f.id <= F.done.id} = {}
      BY <3>2
    <3>6. p + 1 .. F.done.pos = {}
      BY <3>4, <3>5, NothingHeld
    <3>7. Len(binlog) > 0
      BY <1>3, <2>1 DEF Inv, StopInv
    <3> QED BY <1>2, <3>2, <3>4, <3>6, <3>7
  <2>2. CASE pc > 7
    <3>1. BetweenJobs /\ pc > FillsAt(drill)
      BY <1>3, <2>2 DEF BetweenJobs
    <3>2. F.done.pos = Len(binlog) /\ F.done.id >= 1
      BY <1>3, <3>1 DEF Inv, StopInv, BetweenJobs
    <3> QED BY <1>3, <3>1, <3>2 DEF CurrentAt
  <2> QED BY <1>3, <2>1, <2>2
<1>9. Shown(F.done, CurId)
  <2>1. Held(Beyond(F.done.pend[Cur], CurId)) = p + 1 .. F.done.pos
    BY <1>7 DEF FirstOf
  <2>2. p + 1 .. F.done.pos = {}
    BY <1>2, <1>8
  <2> QED BY <2>1, <2>2 DEF Shown
<1>10. Shown(seen.point, CurId)' <=> Shown(seen'.point, CurId)
  BY <1>4, <1>5 DEF Shown, Held, Beyond
<1>11. ShownPoint'
  <2>1. pc \in {7, 8, 9, 10}
    BY <1>3
  <2>2. CASE drill \in {"savepoint_restore", "smoke"}
    <3>1. SUFFICES ASSUME pc' >= StopsAt(drill) PROVE Shown(seen'.point, CurId)
      BY <1>5, <1>10, <2>2 DEF ShownPoint
    <3>2. pc >= StopsAt(drill) - 1 /\ pc # StopsAt(drill) - 1
      <4>1. pc = StopsAt(drill) - 1 => Step.do = "savepoint"
        BY <1>3, <2>2, RestorePlace
      <4> QED BY <1>3, <1>4, <3>1, <4>1 DEF QuietPlace
    <3>3. pc >= StopsAt(drill) /\ pc > 7
      BY <1>3, <3>2
    <3>4. Shown(seen.point, CurId)
      BY <1>3, <1>5, <2>2, <3>3 DEF CurrentAt, BetweenJobs, ShownPoint
    <3>5. FALSE
      <4>1. Step.do \in {"cancel", "submit_restored"}
        BY <1>3, <2>1, <2>2, <3>3, RestorePlace
      <4> QED BY <1>4, <4>1 DEF QuietPlace, Stops
    <3> QED BY <3>5
  <2>3. CASE drill = "jobmanager_restart"
    <3>1. SUFFICES ASSUME pc' >= 9 PROVE Shown(seen'.point, CurId)
      BY <1>5, <1>10, <2>3 DEF ShownPoint
    <3>2. pc \in {8, 10}
      <4>1. pc = 9 => Step.do = "restart_jobmanager"
        BY <1>3, <2>3, RestorePlace
      <4> QED BY <1>3, <1>4, <2>1, <3>1, <4>1 DEF QuietPlace, Stops
    <3>3. CASE pc = 8
      <4>1. Step.do \in Takes
        BY <1>3, <2>3, <3>3, RestorePlace DEF Takes
      <4>2. seen'.point = F.done
        BY <1>4, <4>1 DEF QuietSeen
      <4> QED BY <1>9, <4>2
    <3>4. CASE pc = 10
      <4>1. Step.do = "await_cluster"
        BY <1>3, <2>3, <3>4, RestorePlace
      <4>2. seen'.point = seen.point
        BY <1>4, <4>1 DEF QuietSeen, Takes
      <4>3. Shown(seen.point, CurId)
        BY <1>3, <1>5, <2>3, <3>4 DEF CurrentAt, BetweenJobs, ShownPoint
      <4> QED BY <4>2, <4>3
    <3> QED BY <3>2, <3>3, <3>4
  <2>4. CASE drill = "checkpoint_restore"
    <3>1. SUFFICES ASSUME pc' = 11, seen'.point \in points PROVE Shown(seen'.point, CurId)
      BY <1>1, <1>5, <1>10, <2>4 DEF ShownPoint
    <3>2. pc = 10 /\ Step.do = "find_retained"
      BY <1>3, <2>4, <3>1, RestorePlace
    <3>3. FindRetained
      BY <1>4, <3>2 DEF QuietSeen
    <3>4. seen'.point = F.done
      <4>1. TypeInv /\ DiskInv /\ pc <= RestoresAt(drill)
        BY <1>1, <1>3, <2>4, <3>2 DEF Inv
      <4> QED BY <1>5, <1>8, <2>4, <3>1, <3>3, <4>1, Retained
    <3> QED BY <1>9, <3>4
  <2> QED BY <1>3, <2>2, <2>3, <2>4 DEF Restoring
<1>12. (~Restored => FirstOf(F, CurId, p))'
  BY <1>4, <1>5, <1>7, FirstNext
<1> QED BY <1>4, <1>5, <1>6, <1>8, <1>11, <1>12 DEF CurrentAt

\* A job that has read nothing, or none, and a table that shows nothing.
LEMMA NothingShown ==
  ASSUME NEW r, r.done = NoPoint, r.pend = NoPoint.pend, r.read = 0, r.recover = {}
  PROVE  FirstOf(r, 0, 0) /\ Cut(0) = [x \in Row |-> 0]
<1>1. Cur \in Sink
  BY LogIsASink DEF Cur
<1>2. r.done.pos = 0 /\ r.done.id = 0 /\ r.done.pend[Cur] = {} /\ r.pend[Cur] = {}
  BY <1>1, EmptyIsSound
<1>3. 0 + 1 .. 0 = {}
  OBVIOUS
<1>4. Beyond(r.done.pend[Cur], 0) = {} /\ Held({}) = {}
  BY <1>2, NothingHeld DEF Beyond
<1>5. Holds(r, Cur, r.done.pos)
  BY <1>2, HoldsNothing, 0 \in Nat
<1>6. FirstOf(r, 0, 0)
  BY <1>2, <1>3, <1>4, <1>5 DEF FirstOf
<1>7. \A x \in Row : Cut(0)[x] = 0
  <2>1. \A x \in Row : RowIn(binlog, 0, x) = 0
    BY RowInIs
  <2> QED BY <2>1, CutIs
<1> QED BY <1>6, <1>7, CutIs

\* Up to the submission nothing is there.
LEMMA EarlyShows ==
  drill \in Updating /\ pc \in 1 .. 4 /\ StartInv /\ TypeInv => CurrentAt(0)
<1> SUFFICES ASSUME drill \in Updating, pc \in 1 .. 4, StartInv, TypeInv PROVE CurrentAt(0)
  OBVIOUS
<1>1. /\ binlog = <<>> /\ F = NoJob /\ (\A r \in Row : current[r] = 0) /\ CurId = 0
  BY LogIsASink DEF StartInv, CurId, Cur
<1>2. FirstOf(F, 0, 0) /\ Cut(0) = [x \in Row |-> 0]
  BY <1>1, EmptyIsSound, NothingShown
<1>3. current = Cut(0)
  BY <1>1, <1>2 DEF TypeInv
<1>4. ~(pc > FillsAt(drill)) /\ ~BetweenJobs /\ ~Restored
  BY Positions DEF BetweenJobs, Restored
<1>5. 0 \in 0 .. Len(binlog)
  BY <1>1
<1> QED BY <1>1, <1>2, <1>3, <1>4, <1>5 DEF CurrentAt

\* The job that is submitted has read nothing.
LEMMA SubmitShows ==
  ASSUME TypedInv, ScriptInv, Inv, drill \in Updating, Submit
  PROVE  CurrentAt(0)'
<1>1. drill \in Judged /\ TypeInv
  BY TypedIsType DEF Updating, Judged
<1>2. pc = 4 /\ pc' = 5 /\ UNCHANGED <<drill, binlog, current, maxId>>
  BY <1>1, Place DEF Submit, At, Go, tables
<1>3. PICK q : q = [NoJob EXCEPT !.status = "STARTING"]
  OBVIOUS
<1>4. /\ q \in Job /\ q.done = NoPoint /\ q.pend = NoPoint.pend /\ q.read = 0 /\ q.recover = {}
  BY <1>3, EmptyIsSound DEF Job
<1>5. F' = q
  BY <1>1, <1>3, <1>4, FirstUpdated DEF Submit
<1>6. /\ binlog = <<>> /\ (\A r \in Row : current[r] = 0) /\ CurId = 0
  BY <1>2, LogIsASink DEF Inv, StartInv, CurId, Cur
<1>7. FirstOf(q, 0, 0) /\ Cut(0) = [x \in Row |-> 0]
  BY <1>4, NothingShown
<1>8. current = Cut(0)
  BY <1>1, <1>6, <1>7 DEF TypeInv
<1>9. (~Restored => FirstOf(F, CurId, 0))'
  BY <1>2, <1>5, <1>6, <1>7, FirstNext DEF CurId
<1>10. (current = Cut(0))'
  BY <1>2, <1>8 DEF Cut, RowAfter
<1>11. ~(pc > FillsAt(drill))' /\ ~BetweenJobs' /\ ~Restored'
  BY <1>2, Positions DEF BetweenJobs, Restored
<1>12. (0 \in 0 .. Len(binlog))'
  BY <1>2, <1>6
<1> QED BY <1>9, <1>10, <1>11, <1>12 DEF CurrentAt

\* Between its jobs a drill takes a savepoint or stops its job; what the table shows is
\* what it was.
LEMMA StopShows ==
  ASSUME TypedInv, ScriptInv, Inv, drill \in Updating, NEW p, CurrentAt(p),
         TakeSavepoint \/ CancelJob \/ RestartJobManager
  PROVE  CurrentAt(p)'
<1>1. drill \in Judged /\ TypeInv /\ F \in Job /\ Cur \in Sink /\ Sound(F) /\ Len(binlog) \in Nat
  BY TypedIsType, Kinds, LogIsASink DEF Updating, Judged, Inv, Cur
<1>2. /\ UNCHANGED <<drill, binlog, current, maxId, points>> /\ pc' = pc + 1
      /\ Step.do \in {"savepoint", "cancel", "restart_jobmanager"}
      /\ Step.do # "savepoint" => Update("first", Stopped("first")) /\ seen' = seen
      /\ Step.do = "savepoint" => TakeSavepoint
  BY DEF TakeSavepoint, CancelJob, RestartJobManager, At, Go, disk, tables
<1>3. /\ drill \in Restoring /\ pc \in Nat /\ pc > 7 /\ pc < RestoresAt(drill)
      /\ FillsAt(drill) = 7 /\ RestoresAt(drill) = (IF drill = "smoke" THEN 10 ELSE 11)
      /\ StopsAt(drill) = (IF drill = "savepoint_restore" THEN 10 ELSE 9)
      /\ Step.do = "savepoint" <=> pc = StopsAt(drill) - 1
      /\ Step.do = "savepoint" => drill \in {"savepoint_restore", "smoke"}
      /\ Step.do # "savepoint" => pc = StopsAt(drill)
  <2>1. drill \in Restoring
    BY <1>1, <1>2, StopPlace DEF Stops, Updating, Restoring
  <2>2. /\ pc \in Nat /\ FillsAt(drill) = 7
        /\ RestoresAt(drill) = (IF drill = "smoke" THEN 10 ELSE 11)
        /\ StopsAt(drill) = (IF drill = "savepoint_restore" THEN 10 ELSE 9)
    BY <1>1, <2>1, Place, Positions
  <2>3. /\ Step.do = "savepoint" =>
              drill \in {"savepoint_restore", "smoke"} /\ pc = StopsAt(drill) - 1
        /\ Step.do # "savepoint" => pc = StopsAt(drill)
    BY <1>1, <1>2, StopPlace DEF Stops
  <2> QED BY <2>1, <2>2, <2>3
<1>4. BetweenJobs /\ BetweenJobs' /\ ~Restored /\ ~Restored'
  BY <1>2, <1>3 DEF BetweenJobs, Restored
<1>5. /\ p = Len(binlog) /\ p >= 1 /\ current = Cut(p) /\ F.pend[Cur] = {} /\ FirstOf(F, CurId, p)
      /\ ShownPoint
  BY <1>3, <1>4 DEF CurrentAt
<1>6. CurId' = CurId /\ binlog' = binlog /\ F.done.pos = Len(binlog) /\ F.recover = {}
      /\ F.status \in {"STARTING", "RUNNING"}
  <2>1. F.done.pos = Len(binlog)
    BY <1>3, <1>4 DEF BetweenJobs, Inv, StopInv
  <2>2. drill \notin Fault /\ pc > 4 /\ ~(pc > StopsAt(drill))
    BY <1>3 DEF Restoring, Fault
  <2>3. F.recover = {} /\ F.status \in {"STARTING", "RUNNING"}
    BY <2>2 DEF Inv, FirstInv
  <2> QED BY <1>2, <2>1, <2>3 DEF CurId
<1>7. /\ F'.pend[Cur] = {} /\ (FirstOf(F, CurId, p))'
      /\ Step.do = "savepoint" => seen'.point.pend[Cur] = {}
  <2>1. CASE Step.do = "savepoint"
    <3>1. F.status = "RUNNING" /\ F.ongoing = NoPoint
      BY <1>2, <2>1 DEF TakeSavepoint, F
    <3>2. PICK n \in Reached("first") :
            /\ Update("first", Flushed("first", n))
            /\ seen' = [seen EXCEPT !.point = PointOf(Flushed("first", n))]
      BY <1>2, <2>1 DEF TakeSavepoint
    <3>3. PICK q : q = Flushed("first", n)
      OBVIOUS
    <3>4. /\ n \in Nat /\ F.read <= n /\ n <= Len(binlog) /\ q \in Job
          /\ q.status = F.status /\ q.done = F.done /\ q.recover = F.recover
          /\ PointOf(q).pend = q.pend /\ q.read = n
      BY <1>1, <1>6, <3>1, <3>3, FirstFlushes
    <3>5. F.done.pos <= F.read /\ F.read \in Nat
      BY <1>1, <1>6, AliveIs
    <3>6. n = F.read
      BY <1>1, <1>6, <3>4, <3>5
    <3>7. q.pend[Cur] = {}
      <4>1. q.pend[Cur] = F.pend[Cur] \cup
             (IF n = F.read THEN {} ELSE {[id |-> F.epoch + 1, lo |-> F.read, hi |-> n]})
        BY <1>1, <3>3, FlushPend DEF F
      <4> QED BY <1>5, <3>6, <4>1
    <3>8. F' = q
      BY <1>1, <3>2, <3>3, <3>4, FirstUpdated
    <3>9. seen'.point = PointOf(q)
      BY <3>2, <3>3 DEF TypedInv, SeenTyped, Seen
    <3>10. Active(q) => Active(F)
      BY <3>4 DEF Active
    <3>11. FirstOf(q, CurId, p)
      BY <1>5, <3>4, <3>6, <3>7, <3>10, FirstStays
    <3>12. (FirstOf(F, CurId, p))'
      BY <1>6, <3>8, <3>11, FirstNext
    <3> QED BY <3>4, <3>7, <3>8, <3>9, <3>12
  <2>2. CASE Step.do # "savepoint"
    <3>1. PICK q : q = [F EXCEPT !.status = "CANCELING", !.ongoing = NoPoint]
      OBVIOUS
    <3>2. /\ q \in Job /\ q.done = F.done /\ q.pend = F.pend /\ q.read = F.read
          /\ q.recover = F.recover
      BY <1>1, <1>6, <3>1, EmptyIsSound DEF Job
    <3>3. Update("first", q)
      BY <1>2, <2>2, <3>1 DEF Stopped, F
    <3>4. F' = q
      BY <1>1, <3>2, <3>3, FirstUpdated
    <3>5. Active(q) => Active(F)
      BY <1>6 DEF Active
    <3>6. FirstOf(q, CurId, p)
      BY <1>5, <3>2, <3>5, FirstStays
    <3>7. (FirstOf(F, CurId, p))'
      BY <1>6, <3>4, <3>6, FirstNext
    <3> QED BY <1>5, <2>2, <3>2, <3>4, <3>7
  <2> QED BY <2>1, <2>2
<1>8. ShownPoint'
  <2>1. CASE Step.do = "savepoint"
    <3>1. Shown(seen.point, CurId)'
      BY <1>6, <1>7, <2>1, NothingHeld DEF Shown, Beyond, Held
    <3>2. drill' \in {"savepoint_restore", "smoke"}
      BY <1>2, <1>3, <2>1
    <3> QED BY <3>1, <3>2 DEF ShownPoint
  <2>2. CASE Step.do # "savepoint"
    <3>1. seen' = seen /\ pc = StopsAt(drill)
      BY <1>2, <1>3, <2>2
    <3>2. Shown(seen.point, CurId)' <=> Shown(seen.point, CurId)
      BY <1>6, <3>1 DEF Shown, Held, Beyond
    <3>3. CASE drill \in {"savepoint_restore", "smoke"}
      BY <1>2, <1>3, <1>5, <3>1, <3>2, <3>3 DEF ShownPoint
    <3>4. CASE drill = "jobmanager_restart"
      BY <1>2, <1>3, <1>5, <3>1, <3>2, <3>4 DEF ShownPoint
    <3>5. CASE drill = "checkpoint_restore"
      <4>1. pc' = 10
        BY <1>2, <1>3, <3>1, <3>5
      <4> QED BY <1>2, <3>5, <4>1 DEF ShownPoint
    <3> QED BY <1>3, <3>3, <3>4, <3>5 DEF Restoring
  <2> QED BY <2>1, <2>2
<1>9. (p \in 0 .. Len(binlog) /\ current = Cut(p))'
  <2>1. Cut(p)' = Cut(p)
    BY <1>6 DEF Cut, RowAfter
  <2> QED BY <1>1, <1>2, <1>5, <2>1
<1> QED BY <1>2, <1>4, <1>5, <1>7, <1>8, <1>9 DEF CurrentAt

\* The restored job starts from what the table shows.
LEMMA RestoreShows ==
  ASSUME TypedInv, ScriptInv, Inv, drill \in Updating, NEW p, CurrentAt(p),
         SubmitRestored, Readable
  PROVE  CurrentAt(p)'
<1>1. drill \in Judged /\ TypeInv /\ Cur \in Sink /\ Len(binlog) \in Nat /\ seen.point \in Point
  BY TypedIsType, Kinds, LogIsASink DEF Updating, Judged, Inv, Cur
<1>2. PICK from : from = seen.point
  OBVIOUS
<1>3. PICK q : q = [NoJob EXCEPT !.status = "STARTING", !.read = from.pos, !.epoch = from.id,
                                 !.pend = from.pend, !.done = from]
  OBVIOUS
<1>4. /\ Step.do = "submit_restored" /\ Update("restored", q) /\ pc' = pc + 1
      /\ UNCHANGED <<drill, binlog, current, maxId>>
  BY <1>2, <1>3 DEF SubmitRestored, At, Go, tables
<1>5. /\ drill \in Restoring /\ pc = RestoresAt(drill) /\ pc \in Nat
      /\ FillsAt(drill) = 7 /\ RestoresAt(drill) = (IF drill = "smoke" THEN 10 ELSE 11)
      /\ StopsAt(drill) = (IF drill = "savepoint_restore" THEN 10 ELSE 9)
  <2>1. drill \in Restoring /\ pc = RestoresAt(drill)
    BY <1>1, <1>4, StopPlace
  <2> QED BY <1>1, <2>1, Place, Positions
<1>6. BetweenJobs /\ ~BetweenJobs' /\ ~Restored /\ Restored'
  BY <1>4, <1>5 DEF BetweenJobs, Restored
<1>7. /\ p = Len(binlog) /\ p >= 1 /\ current = Cut(p) /\ F.pend[Cur] = {} /\ ShownPoint
  BY <1>5, <1>6 DEF CurrentAt
<1>8. Shown(from, CurId) /\ GoodPoint(seen.point)
  <2>1. RestorePoint
    BY <1>5 DEF Inv, StopInv
  <2>2. CASE drill \in {"savepoint_restore", "smoke"}
    BY <1>2, <1>5, <1>7, <2>1, <2>2 DEF RestorePoint, ShownPoint
  <2>3. CASE drill = "jobmanager_restart"
    BY <1>2, <1>5, <1>7, <2>1, <2>3 DEF RestorePoint, ShownPoint
  <2>4. CASE drill = "checkpoint_restore"
    BY <1>2, <1>5, <1>7, <2>1, <2>4 DEF RestorePoint, ShownPoint, Readable
  <2> QED BY <1>5, <2>2, <2>3, <2>4 DEF Restoring
<1>9. from.pos = Len(binlog) /\ from \in Point
  BY <1>1, <1>2, <1>8 DEF GoodPoint
<1>10. /\ q \in Job /\ q.status = "STARTING" /\ q.read = from.pos /\ q.pend = from.pend
       /\ q.done = from /\ q.recover = {}
  BY <1>3, <1>9, EmptyIsSound DEF Job, Point
<1>11. RestoredOf(q, CurId, p)
  BY <1>7, <1>8, <1>9, <1>10 DEF RestoredOf
<1>12. R' = q /\ F' = F
  <2>1. "restored" \in Name /\ "first" \in Name
    BY DEF Name
  <2>2. job'["restored"] = q /\ job'["first"] = job["first"]
    BY <1>1, <1>4, <1>10, <2>1, JobUpdated
  <2> QED BY <2>2 DEF F, R
<1>13. RestoredOf(R, CurId, p)'
  BY <1>4, <1>11, <1>12, RestoredNext DEF CurId
<1>14. (p \in 0 .. Len(binlog) /\ current = Cut(p))'
  <2>1. Cut(p)' = Cut(p)
    BY <1>4 DEF Cut, RowAfter
  <2> QED BY <1>1, <1>4, <1>7, <2>1
<1> QED BY <1>4, <1>6, <1>7, <1>12, <1>13, <1>14 DEF CurrentAt

\* Whatever the drill does to go on, the table shows the source up to some change.
LEMMA MovesShow ==
  ASSUME TypedInv, ScriptInv, Inv, drill \in Updating, Moves, NEW p, CurrentAt(p)
  PROVE  \E x \in 0 .. Len(binlog') : CurrentAt(x)'
<1>1. /\ drill \in Judged /\ TypeInv /\ drill' = drill /\ pc \in 1 .. Len(Script[drill])
      /\ pc \in Nat
  BY TypedIsType, MovesOn, Place DEF Updating, Judged, ScriptInv
<1>2. ~LeftActive'
  BY <1>1 DEF LeftActive, Careless, Updating, Fault, Restoring
<1>3. Inv' /\ TypeInv' /\ ScriptInv'
  BY <1>1, <1>2, MovesKeep, MovesOn DEF Inv
<1>4. \A x : CurrentAt(x)' => x \in 0 .. Len(binlog')
  BY DEF CurrentAt
<1>5. CASE pc' <= 4
  <2>1. pc' \in 1 .. 4 /\ StartInv'
    <3>1. pc' \in 1 .. Len(Script[drill])
      BY <1>1, <1>3 DEF ScriptInv
    <3> QED BY <1>1, <1>3, <1>5, <3>1, Place DEF Inv
  <2>2. (drill \in Updating /\ pc \in 1 .. 4 /\ StartInv /\ TypeInv => CurrentAt(0))'
    BY EarlyShows, PTL
  <2> QED BY <1>1, <1>3, <1>4, <2>1, <2>2
<1>6. CASE Submit
  BY <1>4, <1>6, SubmitShows
<1>7. CASE TakeSavepoint \/ CancelJob \/ RestartJobManager
  BY <1>4, <1>7, StopShows
<1>8. CASE SubmitRestored /\ Readable
  BY <1>4, <1>8, RestoreShows
<1>9. CASE (Quiet \/ Write) /\ pc > 4
  BY <1>4, <1>9, FollowsOn, BetweenOn
<1>10. CASE CancelListed \/ ResetTables \/ ((Quiet \/ Write) /\ pc <= 4)
  <2>1. pc' <= 4
    <3>1. CASE CancelListed \/ ResetTables
      BY <1>1, <3>1, Place DEF CancelListed, ResetTables, At, Go
    <3>2. CASE (Quiet \/ Write) /\ pc <= 4
      <4>1. /\ Write => pc' = pc + 1 /\ Step.do \in Writes
            /\ Quiet => QuietPlace
        BY <3>2, ReadsOrWrites
      <4>2. Write => pc > 4
        BY <1>1, <4>1, StopPlace
      <4>3. pc # 4 \/ ~Quiet
        BY <1>1, <4>1, Place DEF QuietPlace, Submission
      <4> QED BY <1>1, <3>2, <4>1, <4>2, <4>3 DEF QuietPlace
    <3> QED BY <1>10, <3>1, <3>2
  <2> QED BY <1>5, <2>1
<1> QED BY <1>1, <1>6, <1>7, <1>8, <1>9, <1>10 DEF Moves

-----------------------------------------------------------------------------
(* Counting what is published. *)

\* Places of a set D that name different elements of S are no more than S has, and as
\* many only if they name them all.
LEMMA Different ==
  ASSUME NEW D, IsFiniteSet(D), NEW S, IsFiniteSet(S), NEW f, \A n \in D : f[n] \in S,
         \A m, n \in D : f[m] = f[n] => m = n
  PROVE  /\ Cardinality(D) \in Nat /\ Cardinality(S) \in Nat /\ Cardinality(D) <= Cardinality(S)
         /\ Cardinality(D) = Cardinality(S) <=> \A x \in S : \E n \in D : f[n] = x
<1> DEFINE g == [n \in D |-> f[n]]
<1>1. g \in Injection(D, S)
  BY DEF Injection, IsInjective
<1>2. g \in Surjection(D, S) <=> \A x \in S : \E n \in D : f[n] = x
  BY DEF Surjection
<1>3. Cardinality(D) \in Nat /\ Cardinality(S) \in Nat
  BY FS_CardinalityType
<1>4. /\ Cardinality(D) <= Cardinality(S)
      /\ Cardinality(D) = Cardinality(S) <=> g \in Surjection(D, S)
  BY <1>1, FS_Injection
<1> QED BY <1>2, <1>3, <1>4

ChangeOf == [n \in DOMAIN changelog |-> changelog[n].change]
Alone == \A m, n \in DOMAIN changelog : changelog[m].change = changelog[n].change => m = n
Everything == 1 .. Len(binlog)

\* The changelog names changes of the source.
LEMMA LoggedIs ==
  ASSUME TypedInv
  PROVE  /\ Len(changelog) \in Nat /\ Len(binlog) \in Nat /\ DOMAIN binlog = Everything
         /\ DOMAIN changelog = 1 .. Len(changelog)
         /\ DOMAIN Logged = 1 .. Len(changelog) /\ Len(Logged) = Len(changelog)
         /\ \A n \in 1 .. Len(changelog) :
              /\ changelog[n].change \in Everything /\ changelog[n].by \in Name
              /\ Logged[n] = binlog[changelog[n].change]
         /\ Published \subseteq Everything
         /\ Cardinality(1 .. Len(changelog)) = Len(changelog)
         /\ Cardinality(Everything) = Len(binlog) /\ IsFiniteSet(Everything)
         /\ IsFiniteSet(1 .. Len(changelog))
<1>1. /\ Len(binlog) \in Nat /\ DOMAIN binlog = 1 .. Len(binlog)
  BY LedgerIs DEF TypedInv
<1>2. changelog \in Seq([change : 1 .. Len(binlog), by : Name])
  BY DEF TypedInv, TablesTyped
<1>3. /\ Len(changelog) \in Nat /\ DOMAIN changelog = 1 .. Len(changelog)
      /\ \A n \in 1 .. Len(changelog) : changelog[n] \in [change : 1 .. Len(binlog), by : Name]
  <2>1. PICK S : S = [change : 1 .. Len(binlog), by : Name]
    OBVIOUS
  <2>2. changelog \in Seq(S)
    BY <1>2, <2>1
  <2>3. /\ Len(changelog) \in Nat /\ DOMAIN changelog = 1 .. Len(changelog)
        /\ \A n \in 1 .. Len(changelog) : changelog[n] \in S
    BY <2>2
  <2> QED BY <2>1, <2>3
<1>4. \A n \in 1 .. Len(changelog) :
        /\ changelog[n].change \in Everything /\ changelog[n].by \in Name
  BY <1>3 DEF Everything
<1>5. /\ DOMAIN Logged = 1 .. Len(changelog)
      /\ \A n \in 1 .. Len(changelog) : Logged[n] = binlog[changelog[n].change]
  BY <1>3 DEF Logged
<1>6. Len(Logged) = Len(changelog)
  <2>1. Logged = [n \in 1 .. Len(changelog) |-> binlog[changelog[n].change]]
    BY <1>3 DEF Logged
  <2> QED BY <1>3, <2>1
<1>7. Published \subseteq Everything
  BY <1>3, <1>4 DEF Published
<1>8. /\ Cardinality(1 .. Len(changelog)) = Len(changelog) /\ IsFiniteSet(1 .. Len(changelog))
      /\ Cardinality(Everything) = Len(binlog) /\ IsFiniteSet(Everything)
  <2>1. \A n \in Nat : IsFiniteSet(1 .. n) /\ Cardinality(1 .. n) = n
    BY FS_Interval
  <2> QED BY <1>1, <1>3, <2>1 DEF Everything
<1> QED BY <1>1, <1>3, <1>4, <1>5, <1>6, <1>7, <1>8 DEF Everything

\* A changelog without repetitions has at most as many rows as the source has images of
\* changes, and as many only if everything is published.
LEMMA RowsTell ==
  ASSUME TypedInv, Alone
  PROVE  /\ RowsOf(Logged) >= RowsOf(binlog) => Published = Everything
         /\ Published = Everything => RowsOf(Logged) = RowsOf(binlog)
         /\ Len(changelog) <= Len(binlog)
<1> DEFINE all == 1 .. Len(changelog)
           up == {i \in Everything : IsUpdate(binlog[i])}
           logged == {n \in all : IsUpdate(Logged[n])}
<1>1. /\ all = DOMAIN changelog /\ \A n \in all : ChangeOf[n] \in Everything
      /\ \A m, n \in all : ChangeOf[m] = ChangeOf[n] => m = n
  BY LoggedIs DEF ChangeOf, Alone
<1>2. IsFiniteSet(all) /\ IsFiniteSet(Everything)
      /\ Cardinality(all) = Len(changelog) /\ Cardinality(Everything) = Len(binlog)
  BY LoggedIs
<1>3. IsFiniteSet(up) /\ IsFiniteSet(logged)
  BY <1>2, FS_Subset
<1>4. /\ \A n \in logged : ChangeOf[n] \in up
      /\ \A m, n \in logged : ChangeOf[m] = ChangeOf[n] => m = n
  BY <1>1, LoggedIs DEF ChangeOf
<1>5. Published = Everything <=> \A x \in Everything : \E n \in all : ChangeOf[n] = x
  <2>1. \A x \in Everything : x \in Published <=> \E n \in all : ChangeOf[n] = x
    BY <1>1 DEF Published, ChangeOf
  <2> QED BY <2>1, LoggedIs
<1>6. Published = Everything => \A x \in up : \E n \in logged : ChangeOf[n] = x
  <2> SUFFICES ASSUME Published = Everything, NEW x \in up PROVE \E n \in logged : ChangeOf[n] = x
    OBVIOUS
  <2>1. PICK n \in all : ChangeOf[n] = x
    BY <1>5
  <2>2. Logged[n] = binlog[x]
    BY <1>1, <2>1, LoggedIs DEF ChangeOf
  <2> QED BY <2>1, <2>2
<1>7. /\ RowsOf(Logged) = Len(changelog) + Cardinality(logged)
      /\ RowsOf(binlog) = Len(binlog) + Cardinality(up)
  BY LoggedIs DEF RowsOf
<1> HIDE DEF all, up, logged
<1>8. /\ Cardinality(all) <= Cardinality(Everything)
      /\ Cardinality(all) = Cardinality(Everything) <=> Published = Everything
  <2>1. /\ Cardinality(all) <= Cardinality(Everything)
        /\ Cardinality(all) = Cardinality(Everything)
             <=> \A x \in Everything : \E n \in all : ChangeOf[n] = x
    BY <1>1, <1>2, Different
  <2> QED BY <1>5, <2>1
<1>9. /\ Cardinality(logged) \in Nat /\ Cardinality(up) \in Nat
      /\ Cardinality(logged) <= Cardinality(up)
      /\ Published = Everything => Cardinality(logged) = Cardinality(up)
  BY <1>3, <1>4, <1>6, Different
<1>10. Len(changelog) \in Nat /\ Len(binlog) \in Nat
  BY LoggedIs
<1> QED BY <1>2, <1>7, <1>8, <1>9, <1>10

\* A changelog that has every change once: as many copies.
LEMMA OneEach ==
  ASSUME TypedInv, Alone, Published = Everything, NEW i \in Everything
  PROVE  Copies(i) = 1
<1> DEFINE at == {n \in DOMAIN changelog : changelog[n].change = i}
<1>1. PICK n \in DOMAIN changelog : changelog[n].change = i
  BY DEF Published
<1>2. at = {n}
  BY <1>1 DEF Alone
<1> QED BY <1>2, FS_Singleton DEF Copies

\* A change that is published has a copy.
LEMMA SomeEach ==
  ASSUME TypedInv, NEW i \in Published
  PROVE  Copies(i) > 0
<1> DEFINE at == {n \in DOMAIN changelog : changelog[n].change = i}
<1>1. at # {}
  BY DEF Published
<1>2. IsFiniteSet(at)
  <2>1. at \subseteq 1 .. Len(changelog) /\ IsFiniteSet(1 .. Len(changelog))
    BY LoggedIs
  <2> QED BY <2>1, FS_Subset
<1>3. Cardinality(at) \in Nat /\ Cardinality(at) # 0
  BY <1>1, <1>2, FS_CardinalityType, FS_EmptySet
<1> QED BY <1>3 DEF Copies

\* So the event ids of the changelog are those of the source.
LEMMA IdsTell ==
  ASSUME TypedInv, Published = Everything
  PROVE  EventIds(Logged) = EventIds(binlog)
<1>1. ToSet(Logged) = ToSet(binlog)
  <2>1. ASSUME NEW n \in 1 .. Len(changelog) PROVE \E i \in Everything : Logged[n] = binlog[i]
    BY LoggedIs
  <2>2. ASSUME NEW i \in Everything PROVE \E n \in 1 .. Len(changelog) : Logged[n] = binlog[i]
    <3>1. PICK n \in DOMAIN changelog : changelog[n].change = i
      BY DEF Published
    <3> QED BY <3>1, LoggedIs
  <2> QED BY <2>1, <2>2, LoggedIs DEF ToSet
<1> QED BY <1>1 DEF EventIds

\* A finite set as a sequence leaves none of its elements out.
LEMMA SetToSeqAll ==
  ASSUME NEW S, IsFiniteSet(S), NEW x \in S
  PROVE  \E n \in DOMAIN SetToSeq(S) : SetToSeq(S)[n] = x
<1> DEFINE n == Cardinality(S)
           good(f) == f \in [1 .. n -> S] /\ IsInjective(f)
           q == SetToSeq(S)
<1>1. n \in Nat /\ ExistsBijection(1 .. n, S)
  BY FS_CardinalityType
<1>2. \E f : good(f)
  BY <1>1 DEF ExistsBijection, Bijection, Injection
<1>3. q \in [1 .. n -> S] /\ IsInjective(q)
  <2>1. q = CHOOSE f \in [1 .. n -> S] : IsInjective(f)
    BY DEF SetToSeq
  <2> QED BY <1>2, <2>1
<1> HIDE DEF q
<1>4. q \in Injection(1 .. n, S)
  BY <1>3 DEF Injection
<1>5. Cardinality(1 .. n) = n
  BY <1>1, FS_Interval
<1>6. q \in Surjection(1 .. n, S)
  BY <1>4, <1>5, FS_Injection
<1>7. \E k \in 1 .. n : q[k] = x
  BY <1>6 DEF Surjection
<1> QED BY <1>3, <1>7 DEF q

\* What a publication adds to the changelog: each of its changes once, by that job.
LEMMA PublishAdds ==
  ASSUME TypeInv, NEW j \in Name, NEW files, NEW id, Publish(j, Log, files, id)
  PROVE  /\ Len(changelog) \in Nat /\ Len(changelog') \in Nat /\ Len(changelog) <= Len(changelog')
         /\ DOMAIN changelog = 1 .. Len(changelog) /\ DOMAIN changelog' = 1 .. Len(changelog')
         /\ \A n \in 1 .. Len(changelog) : changelog'[n] = changelog[n]
         /\ \A n \in 1 .. Len(changelog') : n > Len(changelog) =>
              changelog'[n].by = j /\ changelog'[n].change \in Held(files)
         /\ \A i \in Held(files) :
              \E n \in 1 .. Len(changelog') : n > Len(changelog) /\ changelog'[n].change = i
         /\ \A m, n \in 1 .. Len(changelog') :
              m > Len(changelog) /\ n > Len(changelog) /\ changelog'[m].change = changelog'[n].change
                => m = n
<1> DEFINE rows == SetToSeq(Held(files))
           new == [i \in 1 .. Len(rows) |-> [change |-> rows[i], by |-> j]]
           u == changelog \o new
<1>1. /\ rows \in Seq(Held(files)) /\ \A m, n \in DOMAIN rows : rows[m] = rows[n] => m = n
      /\ \A x \in Held(files) : \E n \in DOMAIN rows : rows[n] = x
  BY HeldAre, SetToSeqIs, SetToSeqAll
<1>2. changelog' = u
  BY DEF Publish, Log
<1> HIDE DEF rows
<1>3. Len(rows) \in Nat /\ DOMAIN rows = 1 .. Len(rows)
      /\ \A i \in 1 .. Len(rows) : rows[i] \in Held(files)
  BY <1>1
<1>4. /\ new \in Seq([change : Nat, by : Name]) /\ Len(new) = Len(rows)
      /\ \A i \in 1 .. Len(rows) : new[i].change = rows[i] /\ new[i].by = j
  <2>1. Len(binlog) \in Nat /\ \A i \in 1 .. Len(rows) : rows[i] \in Nat
    BY <1>3, HeldAre DEF TypeInv
  <2> QED BY <1>3, <2>1
<1>5. changelog \in Seq([change : Nat, by : Name])
  BY DEF TypeInv
<1> HIDE DEF new
<1>6. /\ Len(u) = Len(changelog) + Len(rows) /\ Len(changelog) \in Nat /\ Len(u) \in Nat
      /\ DOMAIN changelog = 1 .. Len(changelog) /\ DOMAIN u = 1 .. Len(u)
      /\ \A n \in 1 .. Len(changelog) : u[n] = changelog[n]
      /\ \A n \in 1 .. Len(u) : n > Len(changelog) => u[n] = new[n - Len(changelog)]
  <2>1. /\ u \in Seq([change : Nat, by : Name]) /\ Len(u) = Len(changelog) + Len(rows)
        /\ Len(changelog) \in Nat
        /\ \A n \in 1 .. Len(changelog) : u[n] = changelog[n]
        /\ \A n \in 1 .. Len(u) : n > Len(changelog) => u[n] = new[n - Len(changelog)]
    <3>1. \A s \in Seq([change : Nat, by : Name]), t \in Seq([change : Nat, by : Name]) :
            /\ s \o t \in Seq([change : Nat, by : Name]) /\ Len(s \o t) = Len(s) + Len(t)
            /\ Len(s) \in Nat
            /\ \A n \in 1 .. Len(s) : (s \o t)[n] = s[n]
            /\ \A n \in 1 .. Len(s \o t) : n > Len(s) => (s \o t)[n] = t[n - Len(s)]
      OBVIOUS
    <3> QED BY <1>4, <1>5, <3>1
  <2> HIDE DEF u
  <2> QED BY <1>3, <1>5, <2>1
<1> HIDE DEF u
<1>7. ASSUME NEW n \in 1 .. Len(u), n > Len(changelog)
      PROVE  /\ n - Len(changelog) \in 1 .. Len(rows) /\ u[n].by = j
             /\ u[n].change = rows[n - Len(changelog)]
  <2>1. n - Len(changelog) \in 1 .. Len(rows)
    BY <1>3, <1>6, <1>7
  <2> QED BY <1>4, <1>6, <1>7, <2>1
<1>8. ASSUME NEW i \in Held(files)
      PROVE  \E n \in 1 .. Len(u) : n > Len(changelog) /\ u[n].change = i
  <2>1. PICK k \in 1 .. Len(rows) : rows[k] = i
    BY <1>1, <1>3
  <2>2. Len(changelog) + k \in 1 .. Len(u) /\ Len(changelog) + k > Len(changelog)
        /\ (Len(changelog) + k) - Len(changelog) = k
    BY <1>3, <1>6
  <2> QED BY <1>7, <2>1, <2>2
<1>9. ASSUME NEW m \in 1 .. Len(u), NEW n \in 1 .. Len(u), m > Len(changelog), n > Len(changelog),
             u[m].change = u[n].change
      PROVE  m = n
  <2>1. /\ m - Len(changelog) \in DOMAIN rows /\ rows[m - Len(changelog)] = u[m].change
        /\ n - Len(changelog) \in DOMAIN rows /\ rows[n - Len(changelog)] = u[n].change
    BY <1>3, <1>7, <1>9
  <2>2. \A k, l \in DOMAIN rows : rows[k] = rows[l] => k = l
    BY <1>1
  <2>3. m - Len(changelog) = n - Len(changelog)
    BY <1>9, <2>1, <2>2
  <2> QED BY <1>6, <2>3
<1>10. \A n \in 1 .. Len(u) : n > Len(changelog) => u[n].by = j /\ u[n].change \in Held(files)
  BY <1>3, <1>7
<1> QED BY <1>2, <1>6, <1>8, <1>9, <1>10

\* The publications of a step.
PublishesOne ==
  \E j \in Name, s \in Sink, id \in Nat : \E files : Publish(j, s, files, id)

\* What the jobs and the cluster do to the tables: nothing, or one publication.
LEMMA SystemTables ==
  ASSUME TypedInv, SystemStep
  PROVE  /\ UNCHANGED <<binlog, harness, tableId>> /\ late \subseteq late'
         /\ PublishesOne \/ UNCHANGED <<changelog, current, dataFiles>>
<1>1. ASSUME NEW j \in Name, NEW s \in Sink, Recover(j, s) \/ Commit(j, s)
      PROVE  /\ UNCHANGED <<binlog, harness>> /\ late \subseteq late'
             /\ PublishesOne \/ UNCHANGED tables
  <2>1. job[j].done.id \in Nat
    BY DEF TypedInv, JobsTyped, Job, Point
  <2>2. /\ UNCHANGED <<binlog, harness>> /\ late \subseteq late'
        /\ UNCHANGED tables \/ \E files : Publish(j, s, files, job[j].done.id)
    BY <1>1 DEF Recover, Commit, tables
  <2> QED BY <2>1, <2>2 DEF PublishesOne
<1>2. UNCHANGED tables => UNCHANGED <<changelog, current, dataFiles>> /\ late \subseteq late'
  BY DEF tables
<1>3. SystemStep =>
        \/ \E j \in Name, s \in Sink : Recover(j, s) \/ Commit(j, s)
        \/ UNCHANGED <<binlog, harness, tables>>
  BY DEF SystemStep, JobStarts, Restart, Strikes, Trigger, CompleteCheckpoint, ToldFault,
         JobEnds, DeleteSubsumed, DiscardAborted, ClusterStarts
<1>4. UNCHANGED tableId
  BY SystemLeaves
<1> QED BY <1>1, <1>2, <1>3, <1>4

\* What is published stays published, and so does what came late.
LEMMA SystemAdds ==
  ASSUME TypedInv, SystemStep
  PROVE  /\ Published \subseteq Published' /\ late \subseteq late'
         /\ Len(changelog) <= Len(changelog')
<1>1. TypeInv /\ Len(changelog) \in Nat /\ DOMAIN changelog = 1 .. Len(changelog)
  BY TypedIsType, LoggedIs
<1>2. late \subseteq late' /\ (PublishesOne \/ UNCHANGED <<changelog, current, dataFiles>>)
  BY SystemTables
<1>3. CASE changelog' = changelog
  BY <1>1, <1>2, <1>3 DEF Published
<1>4. CASE PublishesOne
  <2>1. PICK j \in Name, s \in Sink, id \in Nat : \E files : Publish(j, s, files, id)
    BY <1>4 DEF PublishesOne
  <2>2. PICK files : Publish(j, s, files, id)
    BY <2>1
  <2>3. CASE s # Log
    BY <1>3, <2>2, <2>3 DEF Publish, Log
  <2>4. CASE s = Log
    <3>1. /\ Len(changelog) <= Len(changelog') /\ DOMAIN changelog' = 1 .. Len(changelog')
          /\ Len(changelog') \in Nat
          /\ \A n \in 1 .. Len(changelog) : changelog'[n] = changelog[n]
      BY <1>1, <2>2, <2>4, PublishAdds
    <3>2. Published \subseteq Published'
      BY <1>1, <3>1 DEF Published
    <3> QED BY <1>2, <3>1, <3>2
  <2> QED BY <2>3, <2>4
<1> QED BY <1>2, <1>3, <1>4

-----------------------------------------------------------------------------
(* What the audits establish. *)

\* Only changes of the source are published.
LEMMA PublishedAre == TypedInv => Published \subseteq Everything /\ Everything = DOMAIN binlog
  BY LoggedIs

\* Where as many rows are in the changelog as the source has images, every change is,
\* unless something came late.
LEMMA CountTells ==
  ASSUME TypedInv, OnceInv, RowsOf(Logged) >= RowsOf(binlog)
  PROVE  Complete
<1> SUFFICES ASSUME late = {} PROVE Published = DOMAIN binlog
  BY DEF Complete
<1>1. Alone
  BY DEF OnceInv, Alone
<1> QED BY <1>1, RowsTell, PublishedAre

\* The audit does not fail over a complete changelog and an equal table,
LEMMA AuditAgrees ==
  ASSUME TypedInv, OnceInv, Complete, late = {}, seen.table = SourceTable
  PROVE  Consistent
<1>1. Alone /\ Published = Everything
  BY PublishedAre DEF OnceInv, Alone, Complete
<1> QED BY <1>1, RowsTell, IdsTell DEF Consistent, CountMatches

\* and finds an incomplete one.
LEMMA AuditFinds ==
  ASSUME TypedInv, OnceInv, Consistent
  PROVE  Complete /\ seen.table = SourceTable
<1>1. RowsOf(Logged) = RowsOf(binlog) /\ RowsOf(binlog) \in Nat
  <2>1. RowsOf(Logged) = RowsOf(binlog)
    BY DEF Consistent, CountMatches
  <2>2. /\ Len(binlog) \in Nat
        /\ IsFiniteSet({i \in DOMAIN binlog : IsUpdate(binlog[i])})
    <3>1. Len(binlog) \in Nat /\ IsFiniteSet(DOMAIN binlog)
      BY LoggedIs
    <3> QED BY <3>1, FS_Subset
  <2>3. Cardinality({i \in DOMAIN binlog : IsUpdate(binlog[i])}) \in Nat
    BY <2>2, FS_CardinalityType
  <2> QED BY <2>1, <2>2, <2>3 DEF RowsOf
<1> QED BY <1>1, CountTells DEF Consistent

\* The steps with which a drill ends, by number.
LEMMA AuditPlace ==
  ASSUME ScriptInv, drill \in Audited
  PROVE  LET a == AuditsAt(drill) IN
         /\ a \in Nat /\ a > 16 /\ pc \in Nat /\ pc <= a + 3
         /\ pc = a - 1 => Step.do = "read_table"
         /\ pc = a => Step.do = "await_audit"
         /\ pc = a + 1 => Step.do = "read_table"
         /\ pc = a + 2 => Step.do = "report"
         /\ pc = a + 3 => Step.do = "verdict"
<1>1. pc \in 1 .. Len(Script[drill]) /\ drill \in Drills
  BY DEF ScriptInv
<1>2. CASE drill \in Fault
  <2>1. IsFaultDrill(Script[drill])
    BY <1>1, <1>2, ScriptsListed
  <2>2. Len(Script[drill]) = 20 /\ IsAudited(Script[drill], 16) /\ AuditsAt(drill) = 17
    BY <1>2, <2>1 DEF IsFaultDrill, AuditsAt
  <2>3. 17 - 1 = 16 /\ 17 + 1 = 18 /\ 17 + 2 = 19 /\ 17 + 3 = 20
        /\ 16 + 1 = 17 /\ 16 + 2 = 18 /\ 16 + 3 = 19 /\ 16 + 4 = 20
    OBVIOUS
  <2> QED BY <1>1, <2>2, <2>3 DEF IsAudited, Step
<1>3. CASE drill \in Restoring \ {"smoke"}
  <2>1. IsRestoreDrill(Script[drill])
    BY <1>1, <1>3, ScriptsListed
  <2>2. Len(Script[drill]) = 21 /\ IsAudited(Script[drill], 17) /\ AuditsAt(drill) = 18
    BY <1>3, <2>1 DEF IsRestoreDrill, AuditsAt, Fault, Restoring
  <2>3. 18 - 1 = 17 /\ 18 + 1 = 19 /\ 18 + 2 = 20 /\ 18 + 3 = 21
        /\ 17 + 1 = 18 /\ 17 + 2 = 19 /\ 17 + 3 = 20 /\ 17 + 4 = 21
    OBVIOUS
  <2> QED BY <1>1, <2>2, <2>3 DEF IsAudited, Step
<1> QED BY <1>2, <1>3 DEF Audited

\* The smoke checks each thing once.
LEMMA SmokePlace ==
  ASSUME ScriptInv, drill = "smoke"
  PROVE  /\ pc \in 1 .. 19
         /\ pc = 15 => Step.do = "await_statuses"
         /\ pc = 16 => Step.do = "read_source"
         /\ pc = 17 => Step.do = "read_table"
         /\ pc = 18 => Step.do = "await_changelog"
         /\ pc = 19 => Step.do = "verdict"
<1>1. pc \in 1 .. Len(Script[drill]) /\ IsSmokeDrill(Script[drill])
  BY ScriptsListed DEF ScriptInv
<1> QED BY <1>1 DEF IsSmokeDrill, Step

Checking == {"read_table", "await_audit", "report", "verdict", "await_statuses", "read_source",
             "await_changelog"}

\* What each of these steps does.
LEMMA Checks ==
  ASSUME Moves, Step.do \in Checking
  PROVE  /\ UNCHANGED <<system, drill>>
         /\ Step.do = "read_table" => pc' = pc + 1 /\ seen' = [seen EXCEPT !.table = current]
         /\ Step.do = "read_source" => pc' = pc + 1 /\ seen' = [seen EXCEPT !.source = SourceTable]
         /\ Step.do = "await_audit" => seen' = seen /\ ((pc' = pc + 1 /\ Consistent) \/ pc' = pc - 1)
         /\ Step.do = "report" => pc' = pc + 1 /\ seen' = [seen EXCEPT !.reported = Consistent]
         /\ Step.do = "verdict" => pc' = pc /\ seen' = seen
         /\ Step.do = "await_statuses" => pc' = pc + 1 /\ seen' = seen /\ current = SourceTable
         /\ Step.do = "await_changelog" =>
              pc' = pc + 1 /\ seen' = seen /\ RowsOf(Logged) >= RowsOf(binlog)
<1> USE DEF Checking, At
<1>1. Await \/ ReadSomething \/ Audit \/ (Conclude /\ ChecksHold)
  BY DEF Moves, Quiet, CancelListed, ResetTables, Submit, TakeSavepoint, CancelJob,
         RestartJobManager, SubmitRestored, Write, Rewrite, Sample
<1>2. CASE Await
  BY <1>2 DEF Await, Arrived, Go
<1>3. CASE ReadSomething
  BY <1>3 DEF ReadSomething, Go
<1>4. CASE Audit
  BY <1>4 DEF Audit, Go
<1>5. CASE Conclude /\ ChecksHold
  BY <1>5 DEF Conclude, script
<1> QED BY <1>1, <1>2, <1>3, <1>4, <1>5

\* No step goes further than to the next.
LEMMA OneOn ==
  ASSUME Moves
  PROVE  pc' \in {pc - 1, pc, pc + 1}
<1>1. CASE Quiet
  BY <1>1, QuietGoes DEF QuietPlace
<1>2. CASE ~Quiet
  BY <1>2 DEF Moves, CancelListed, ResetTables, Submit, TakeSavepoint, CancelJob,
         RestartJobManager, SubmitRestored, Readable, Raise, Write, Go
<1> QED BY <1>1, <1>2

\* While the jobs go on, what the drill has established stays.
LEMMA SystemAudited ==
  ASSUME TypedInv, ScriptInv, Inv, drill \in Updating, SystemStep, NEW p, CurrentAt(p),
         AuditInv, SmokeInv
  PROVE  AuditInv' /\ SmokeInv'
<1>1. UNCHANGED <<binlog, drill, pc, seen>> /\ \E x \in p .. Len(binlog) : CurrentAt(x)'
  BY SystemShows DEF harness, script
<1>2. PICK x \in p .. Len(binlog) : CurrentAt(x)'
  BY <1>1
<1>3. SourceTable' = SourceTable
  BY <1>1 DEF SourceTable, RowAfter
<1>4. Len(binlog) \in Nat /\ FillsAt(drill) = 7
  BY LedgerIs DEF TypedInv, Updating, Fault, Restoring, FillsAt, Rewriting
<1>5. ASSUME pc > 7, Settled PROVE Settled'
  <2>1. p \in 0 .. Len(binlog) /\ p >= 1 /\ current = Cut(p)
    BY <1>4, <1>5 DEF CurrentAt
  <2>2. p \in 1 .. Len(binlog) /\ Cut(p) = SourceTable
    BY <1>4, <1>5, <2>1 DEF Settled
  <2>3. p = Len(binlog)
    BY <2>2, SettledIsAll
  <2>4. x = Len(binlog)
    BY <1>4, <2>3
  <2>5. current' = Cut(x)'
    BY <1>2 DEF CurrentAt
  <2>6. Cut(x)' = Cut(x)
    BY <1>1 DEF Cut, RowAfter
  <2>7. Cut(x) = SourceTable
    BY <2>4, CutIs
  <2> QED BY <1>3, <2>5, <2>6, <2>7 DEF Settled
<1>6. ASSUME Complete PROVE Complete'
  <2>1. Published \subseteq Published' /\ late \subseteq late' /\ TypedInv'
    BY SystemAdds, SystemTyped
  <2>2. Published' \subseteq Everything' /\ Everything' = DOMAIN binlog'
    <3>1. (TypedInv => Published \subseteq Everything /\ Everything = DOMAIN binlog)'
      BY PublishedAre, PTL
    <3> QED BY <2>1, <3>1
  <2>3. Everything' = Everything /\ Everything = DOMAIN binlog
    BY <1>1, PublishedAre DEF Everything
  <2> QED BY <1>6, <2>1, <2>2, <2>3 DEF Complete
<1>7. AuditsAt(drill) > 7 /\ AuditsAt(drill) \in Nat /\ pc \in Nat
  BY DEF AuditsAt, ScriptInv
<1>8. AuditInv'
  <2>1. late' = {} => late = {}
    BY SystemAdds
  <2> QED BY <1>1, <1>3, <1>5, <1>6, <1>7, <2>1 DEF AuditInv
<1>9. SmokeInv'
  BY <1>1, <1>3, <1>5, <1>6, <1>7 DEF SmokeInv
<1> QED BY <1>8, <1>9

\* The drill goes on to the next step of its audit when it has seen what it says.
LEMMA MovesAudited ==
  ASSUME TypedInv, ScriptInv, Inv, drill \in Audited, Moves, AuditInv
  PROVE  AuditInv'
<1> DEFINE a == AuditsAt(drill)
<1>1. /\ a \in Nat /\ a > 16 /\ pc \in Nat /\ pc <= a + 3
      /\ pc = a - 1 => Step.do = "read_table"
      /\ pc = a => Step.do = "await_audit"
      /\ pc = a + 1 => Step.do = "read_table"
      /\ pc = a + 2 => Step.do = "report"
      /\ pc = a + 3 => Step.do = "verdict"
  BY AuditPlace
<1>2. pc' \in {pc - 1, pc, pc + 1} /\ drill' = drill /\ drill \in Judged
  BY OneOn, MovesOn DEF Audited, Judged, Restoring, Fault
<1>3. a' = a
  BY <1>2 DEF AuditsAt
<1> HIDE DEF a
<1>4. OnceInv /\ seen \in Seen
  BY DEF Inv, TypedInv, SeenTyped
<1>5. CASE pc < a - 1
  <2>1. ~(pc' >= a)
    BY <1>1, <1>2, <1>5
  <2> QED BY <1>1, <1>2, <1>3, <2>1 DEF AuditInv, a
<1>6. CASE pc >= a - 1
  <2>1. Step.do \in Checking
    BY <1>1, <1>6 DEF Checking
  <2>2. UNCHANGED <<binlog, current, changelog, late>>
    BY <2>1, Checks DEF system, tables
  <2>3. SourceTable' = SourceTable /\ (Settled => Settled') /\ (Complete => Complete')
    <3>1. SourceTable' = SourceTable
      BY <2>2 DEF SourceTable, RowAfter
    <3>2. Settled => Settled'
      BY <2>2, <3>1 DEF Settled
    <3>3. Complete => Complete'
      BY <2>2 DEF Complete, Published
    <3> QED BY <3>1, <3>2, <3>3
  <2>4. CASE pc = a - 1
    <3>1. pc' = a /\ seen'.table = current
      BY <1>1, <1>4, <2>1, <2>4, Checks DEF Seen
    <3>2. seen'.table = SourceTable' => Settled'
      BY <2>2, <3>1 DEF Settled
    <3> QED BY <1>1, <1>2, <1>3, <3>1, <3>2 DEF AuditInv, a
  <2>5. CASE pc = a
    <3>1. seen' = seen /\ ((pc' = pc + 1 /\ Consistent) \/ pc' = pc - 1)
      BY <1>1, <2>1, <2>5, Checks
    <3>2. CASE pc' = pc - 1
      BY <1>1, <1>2, <1>3, <2>5, <3>2 DEF AuditInv, a
    <3>3. CASE pc' = pc + 1 /\ Consistent
      <4>1. Complete /\ seen.table = SourceTable
        BY <1>4, <3>3, AuditFinds
      <4>2. Settled
        BY <2>5, <4>1 DEF AuditInv, a
      <4> QED BY <1>1, <1>2, <1>3, <2>3, <2>5, <3>3, <4>1, <4>2 DEF AuditInv, a
    <3> QED BY <3>1, <3>2, <3>3
  <2>6. CASE pc = a + 1
    <3>1. pc' = a + 2 /\ seen'.table = current
      BY <1>1, <1>4, <2>1, <2>6, Checks DEF Seen
    <3>2. Settled /\ Complete
      BY <1>1, <2>6 DEF AuditInv, a
    <3>3. seen'.table = SourceTable'
      BY <2>3, <3>1, <3>2 DEF Settled
    <3> QED BY <1>1, <1>2, <1>3, <2>3, <3>1, <3>2, <3>3 DEF AuditInv, a
  <2>7. CASE pc = a + 2
    <3>1. pc' = a + 3 /\ seen' = [seen EXCEPT !.reported = Consistent]
      BY <1>1, <2>1, <2>7, Checks
    <3>2. Settled /\ Complete /\ seen.table = SourceTable
      BY <1>1, <2>7 DEF AuditInv, a
    <3>3. late = {} => Consistent
      BY <1>4, <3>2, AuditAgrees
    <3>4. seen'.table = seen.table /\ (seen'.reported <=> Consistent)
      BY <1>4, <3>1 DEF Seen
    <3> QED BY <1>1, <1>2, <1>3, <2>2, <2>3, <3>1, <3>2, <3>3, <3>4 DEF AuditInv, a
  <2>8. CASE pc = a + 3
    <3>1. pc' = pc /\ seen' = seen
      BY <1>1, <2>1, <2>8, Checks
    <3> QED BY <1>1, <1>2, <1>3, <2>2, <2>3, <2>8, <3>1 DEF AuditInv, a
  <2> QED BY <1>1, <1>6, <2>4, <2>5, <2>6, <2>7, <2>8
<1> QED BY <1>1, <1>5, <1>6

\* The smoke goes on to its next check when the one before has shown what it says.
LEMMA MovesSmoked ==
  ASSUME TypedInv, ScriptInv, Inv, drill = "smoke", Moves, SmokeInv
  PROVE  SmokeInv'
<1>1. /\ pc \in 1 .. 19
      /\ pc = 15 => Step.do = "await_statuses"
      /\ pc = 16 => Step.do = "read_source"
      /\ pc = 17 => Step.do = "read_table"
      /\ pc = 18 => Step.do = "await_changelog"
      /\ pc = 19 => Step.do = "verdict"
  BY SmokePlace
<1>2. pc' \in {pc - 1, pc, pc + 1} /\ drill' = drill
  BY OneOn, MovesOn DEF Judged, Restoring
<1>3. OnceInv /\ seen \in Seen
  BY DEF Inv, TypedInv, SeenTyped
<1>4. CASE pc < 15
  BY <1>1, <1>2, <1>4 DEF SmokeInv
<1>5. CASE pc >= 15
  <2>1. Step.do \in Checking
    BY <1>1, <1>5 DEF Checking
  <2>2. UNCHANGED <<binlog, current, changelog, late>>
    BY <2>1, Checks DEF system, tables
  <2>3. SourceTable' = SourceTable /\ (Settled => Settled') /\ (Complete => Complete')
    <3>1. SourceTable' = SourceTable
      BY <2>2 DEF SourceTable, RowAfter
    <3>2. Settled => Settled'
      BY <2>2, <3>1 DEF Settled
    <3>3. Complete => Complete'
      BY <2>2 DEF Complete, Published
    <3> QED BY <3>1, <3>2, <3>3
  <2>4. CASE pc = 15
    <3>1. pc' = 16 /\ Settled
      BY <1>1, <2>1, <2>4, Checks DEF Settled
    <3> QED BY <2>3, <3>1 DEF SmokeInv
  <2>5. CASE pc = 16
    <3>1. pc' = 17 /\ seen'.source = SourceTable /\ Settled
      BY <1>1, <1>3, <2>1, <2>5, Checks DEF SmokeInv, Seen
    <3> QED BY <2>3, <3>1 DEF SmokeInv
  <2>6. CASE pc = 17
    <3>1. pc' = 18 /\ seen'.table = current /\ seen'.source = seen.source
      BY <1>1, <1>3, <2>1, <2>6, Checks DEF Seen
    <3>2. Settled /\ seen.source = SourceTable
      BY <2>6 DEF SmokeInv
    <3> QED BY <2>3, <3>1, <3>2 DEF SmokeInv, Settled
  <2>7. CASE pc = 18
    <3>1. pc' = 19 /\ seen' = seen /\ RowsOf(Logged) >= RowsOf(binlog)
      BY <1>1, <2>1, <2>7, Checks
    <3>2. Complete /\ Settled /\ seen.source = SourceTable /\ seen.table = SourceTable
      BY <1>3, <2>7, <3>1, CountTells DEF SmokeInv
    <3> QED BY <2>3, <3>1, <3>2 DEF SmokeInv
  <2>8. CASE pc = 19
    <3>1. pc' = pc /\ seen' = seen
      BY <1>1, <2>1, <2>8, Checks
    <3> QED BY <1>2, <2>3, <2>8, <3>1 DEF SmokeInv
  <2> QED BY <1>1, <1>5, <2>4, <2>5, <2>6, <2>7, <2>8
<1> QED BY <1>1, <1>4, <1>5

-----------------------------------------------------------------------------
(* The drills that only insert. *)

\* Their source has the rows one after the other, each in one change.
LEMMA OnlyInserts ==
  ASSUME Ledger, drill \in Careless
  PROVE  LET n == RowsAt(drill, pc) IN
         /\ Len(binlog) = n /\ Len(binlog) \in Nat /\ DOMAIN binlog = 1 .. Len(binlog)
         /\ \A i \in 1 .. Len(binlog) :
              ~IsUpdate(binlog[i]) /\ binlog[i].row \in 1 .. n /\ binlog[i].after # 0
         /\ \A i, m \in 1 .. Len(binlog) : binlog[i].row = binlog[m].row => i = m
         /\ \A r \in 1 .. n : \E i \in 1 .. Len(binlog) : binlog[i].row = r
<1> DEFINE n == RowsAt(drill, pc)
           l == Len(binlog)
<1>1. /\ binlog \in Seq(Change) /\ l \in Nat /\ DOMAIN binlog = 1 .. l
      /\ \A i \in 1 .. l : binlog[i] \in Change
  BY LedgerIs
<1>2. drill \notin Updating
  BY DEF Careless, Updating, Fault, Restoring
<1>3. /\ Cardinality(Born(binlog)) = n
      /\ \A i \in 1 .. l : binlog[i].row <= n
      /\ \A r \in 1 .. n : RowIn(binlog, l, r) # 0
      /\ \A i \in 1 .. l : binlog[i].after # 0 /\ ~IsUpdate(binlog[i])
  BY <1>2 DEF Ledger, LedgerOf, Updated, Deleted
<1>4. \A i \in 1 .. l : /\ binlog[i].before = 0 /\ binlog[i].row \in Nat /\ binlog[i].row >= 1
  BY <1>1, <1>3 DEF IsUpdate, Change, Row
<1>5. Born(binlog) = 1 .. l
  BY <1>4 DEF Born
<1>6. n = l
  <2>1. \A k \in Nat : Cardinality(1 .. k) = k
    BY FS_Interval
  <2> QED BY <1>1, <1>3, <1>5, <2>1
<1>7. \A r \in 1 .. n : \E i \in 1 .. l : binlog[i].row = r
  BY <1>1, <1>3, RowInIs
<1>8. \A i \in 1 .. l : binlog[i].row \in 1 .. n
  BY <1>1, <1>3, <1>4, <1>6
<1> HIDE DEF n, l
<1>9. \A i, m \in 1 .. l : binlog[i].row = binlog[m].row => i = m
  <2> DEFINE g == [i \in 1 .. l |-> binlog[i].row]
  <2>1. g \in Surjection(1 .. l, 1 .. l)
    BY <1>6, <1>7, <1>8 DEF Surjection
  <2>2. IsFiniteSet(1 .. l)
    BY <1>1, FS_Interval
  <2>3. g \in Injection(1 .. l, 1 .. l)
    BY <2>1, <2>2, FS_Surjection
  <2> QED BY <2>3 DEF Injection, IsInjective
<1> QED BY <1>1, <1>3, <1>6, <1>7, <1>8, <1>9 DEF n, l

\* So a row of the source is what its change says,
LEMMA OneChange ==
  ASSUME Ledger, drill \in Careless, NEW r \in Row, NEW i \in 1 .. Len(binlog), binlog[i].row = r
  PROVE  SourceTable[r] = binlog[i].after
<1>1. /\ Len(binlog) \in Nat
      /\ \A m, k \in 1 .. Len(binlog) : binlog[m].row = binlog[k].row => m = k
  BY OnlyInserts
<1>2. \A m \in 1 .. Len(binlog) : binlog[m].row = r => m <= i
  BY <1>1
<1>3. RowIn(binlog, Len(binlog), r) = binlog[i].after
  BY <1>1, <1>2, RowInLast
<1> QED BY <1>3, SourceIs

\* and one without a change is not there.
LEMMA NoChange ==
  ASSUME Ledger, NEW r \in Row, \A i \in 1 .. Len(binlog) : binlog[i].row # r
  PROVE  SourceTable[r] = 0
<1>1. Len(binlog) \in Nat
  BY LedgerIs
<1>2. RowIn(binlog, Len(binlog), r) = 0
  BY <1>1, RowInIs
<1> QED BY <1>2, SourceIs

\* What the jobs publish to the current table of such a drill are its rows, whoever
\* publishes them, in any order and any number of times.
LEMMA SystemFiles ==
  ASSUME TypedInv, SystemStep, drill = Rewriting, FilesInv
  PROVE  FilesInv'
<1>1. /\ UNCHANGED <<binlog, drill, pc>>
      /\ PublishesOne \/ current' = current
  BY SystemTables DEF harness, script
<1>2. Ledger /\ TypeInv /\ drill \in Careless /\ current \in [Row -> Event]
      /\ DOMAIN binlog = 1 .. Len(binlog)
  BY TypedIsType, LoggedIs DEF TypedInv, TablesTyped, Careless, Rewriting, Everything
<1>3. SourceTable' = SourceTable /\ SourceTable = [r \in Row |-> SourceTable[r]]
  BY <1>1 DEF SourceTable, RowAfter
<1>4. /\ current' = [r \in Row |-> current'[r]]
      /\ \A r \in Row : \/ current'[r] = current[r]
                        \/ \E i \in DOMAIN binlog : binlog[i].row = r /\ current'[r] = binlog[i].after
  <2>1. CASE current' = current
    BY <1>2, <2>1
  <2>2. CASE PublishesOne
    <3>1. PICK j \in Name, s \in Sink, id \in Nat : \E files : Publish(j, s, files, id)
      BY <2>2 DEF PublishesOne
    <3>2. PICK files : Publish(j, s, files, id)
      BY <3>1
    <3>3. CASE s # Cur
      <4>1. current' = current
        BY <3>2, <3>3 DEF Publish, Cur
      <4> QED BY <2>1, <4>1
    <3>4. CASE s = Cur
      <4>1. Publish(j, Cur, files, id)
        BY <3>2, <3>4
      <4>2. current' = [r \in Row |-> current'[r]] /\ Held(files) \subseteq DOMAIN binlog
        BY <1>2, <4>1, PublishCurrent DEF Cur, Held
      <4>3. ASSUME NEW r \in Row, current'[r] # current[r]
            PROVE  \E i \in Held(files) : binlog[i].row = r /\ current'[r] = binlog[i].after
        BY <1>2, <4>1, <4>3, PublishRows
      <4> QED BY <4>2, <4>3
    <3> QED BY <3>3, <3>4
  <2> QED BY <1>1, <2>1, <2>2
<1>5. ASSUME Settled PROVE Settled'
  <2>1. \A r \in Row : current'[r] = SourceTable[r]
    BY <1>2, <1>4, <1>5, OneChange DEF Settled
  <2> QED BY <1>3, <1>4, <2>1 DEF Settled
<1>6. ASSUME NEW r \in Row, current'[r] # 0
      PROVE  \E i \in DOMAIN binlog : binlog[i].row = r /\ current'[r] = binlog[i].after
  BY <1>4, <1>6 DEF FilesInv
<1> QED BY <1>1, <1>5, <1>6 DEF FilesInv

\* Two of two rows are all of them.
LEMMA RowsSettle ==
  ASSUME TypedInv, drill = Rewriting, FilesInv, Len(binlog) = 2, RowsArrived(2)
  PROVE  Settled
<1>1. Ledger /\ drill \in Careless /\ current \in [Row -> Event]
      /\ DOMAIN binlog = 1 .. Len(binlog)
  BY LoggedIs DEF TypedInv, TablesTyped, Careless, Rewriting, Everything
<1> DEFINE rows == {binlog[i].row : i \in 1 .. 2}
           g == [i \in 1 .. 2 |-> binlog[i].row]
<1>2. IsFiniteSet(rows) /\ Cardinality(rows) <= 2 /\ Cardinality(rows) \in Nat
  <2>1. g \in Surjection(1 .. 2, rows)
    BY DEF Surjection
  <2>2. IsFiniteSet(1 .. 2) /\ Cardinality(1 .. 2) = 2
    <3>1. \A k \in Nat : IsFiniteSet(1 .. k) /\ Cardinality(1 .. k) = k
      BY FS_Interval
    <3> QED BY <3>1
  <2> HIDE DEF g, rows
  <2>3. IsFiniteSet(rows) /\ Cardinality(rows) <= 2
    BY <2>1, <2>2, FS_Surjection
  <2> QED BY <2>3, FS_CardinalityType
<1>3. Present(current) \subseteq rows
  BY <1>1 DEF Present, FilesInv
<1>4. Present(current) = rows
  <2>1. Cardinality(Present(current)) = 2
    BY DEF RowsArrived
  <2> HIDE DEF rows
  <2>2. Cardinality(Present(current)) <= Cardinality(rows)
    BY <1>2, <1>3, FS_Subset
  <2> QED BY <1>2, <1>3, <2>1, <2>2, FS_Subset
<1>5. ASSUME NEW r \in Row PROVE current[r] = SourceTable[r]
  <2>1. CASE current[r] # 0
    BY <1>1, <2>1, OneChange DEF FilesInv
  <2>2. CASE current[r] = 0
    <3>1. \A i \in 1 .. Len(binlog) : binlog[i].row # r
      BY <1>4, <2>2 DEF Present
    <3> QED BY <1>1, <2>2, <3>1, NoChange
  <2> QED BY <2>1, <2>2
<1>6. SourceTable = [r \in Row |-> SourceTable[r]]
  BY DEF SourceTable
<1> QED BY <1>1, <1>5, <1>6 DEF Settled

\* What a drill that goes on does to source and tables.
LEMMA MovesWhat ==
  ASSUME Moves
  PROVE  \/ Write \/ ResetTables \/ UNCHANGED <<binlog, changelog, current, late, maxId>>
<1>1. CASE Quiet
  BY <1>1, QuietGoes DEF QuietKeeps
<1>2. CASE ~Quiet
  BY <1>2 DEF Moves, CancelListed, Submit, TakeSavepoint, CancelJob,
         RestartJobManager, SubmitRestored, Readable, Raise, system, tables
<1> QED BY <1>1, <1>2

\* A write appends to the source alone.
LEMMA WriteExtends ==
  ASSUME TypedInv, Write
  PROVE  /\ Extends(binlog', binlog) /\ Ledger' /\ pc' = pc + 1 /\ Step.do \in Writes
         /\ UNCHANGED <<job, tables, drill, seen>>
<1>1. /\ Ledger' /\ Len(binlog) < Len(binlog')
      /\ \A i \in 1 .. Len(binlog) : binlog'[i] = binlog[i]
  BY WriteBooked DEF TypedInv, ScriptTyped
<1>2. Len(binlog) \in Nat /\ DOMAIN binlog = 1 .. Len(binlog)
  BY LedgerIs DEF TypedInv
<1>3. binlog' \in Seq(Change)
  BY <1>1 DEF Ledger, LedgerOf
<1>4. Len(binlog') \in Nat /\ DOMAIN binlog' = 1 .. Len(binlog')
  BY <1>3
<1>5. Extends(binlog', binlog)
  BY <1>1, <1>2, <1>4 DEF Extends
<1> QED BY <1>1, <1>5 DEF Write, Go, At, Writes

\* The small-file drill goes on to cancel its job when all rows are there.
LEMMA MovesFiles ==
  ASSUME TypedInv, ScriptInv, drill = Rewriting, Moves, FilesInv
  PROVE  FilesInv'
<1>1. /\ pc \in 1 .. 17 /\ (Step.do \in Writes <=> pc \in {7, 9})
      /\ pc = 11 => Step.do = "await_rows" /\ Step.n = 2
  BY RewritePlace
<1>2. drill' = drill /\ pc' \in {pc - 1, pc, pc + 1} /\ drill \in Judged /\ verdict = "none"
  BY OneOn, MovesOn DEF Judged
<1>3. Ledger /\ drill \in Careless
  BY DEF TypedInv, Careless, Rewriting
<1>4. CASE ResetTables
  <2>1. pc = 3
    BY <1>2, <1>4, Place DEF ResetTables, At
  <2>2. ~(pc' > 11) /\ \A r \in Row : current'[r] = 0
    BY <1>2, <1>4, <2>1 DEF ResetTables
  <2> QED BY <1>2, <2>2 DEF FilesInv
<1>5. CASE Write
  <2>1. Extends(binlog', binlog) /\ pc' = pc + 1 /\ pc \in {7, 9} /\ current' = current
    BY <1>1, <1>5, WriteExtends DEF tables
  <2>2. ASSUME NEW r \in Row, current'[r] # 0
        PROVE  \E i \in DOMAIN binlog' : binlog'[i].row = r /\ current'[r] = binlog'[i].after
    <3>1. PICK i \in DOMAIN binlog : binlog[i].row = r /\ current[r] = binlog[i].after
      BY <2>1, <2>2 DEF FilesInv
    <3>2. i \in DOMAIN binlog' /\ binlog'[i] = binlog[i]
      BY <2>1 DEF Extends
    <3> QED BY <2>1, <3>1, <3>2
  <2>3. ~(pc' > 11)
    BY <2>1
  <2> QED BY <2>2, <2>3 DEF FilesInv
<1>6. CASE UNCHANGED <<binlog, changelog, current, late, maxId>>
  <2>1. Settled => Settled'
    BY <1>6 DEF Settled, SourceTable, RowAfter
  <2>2. pc' > 11 => Settled
    <3>1. CASE pc > 11
      BY <3>1 DEF FilesInv
    <3>2. CASE pc = 11 /\ pc' = pc + 1
      <4>1. Quiet
        <5>1. Step.do = "await_rows"
          BY <1>1, <3>2
        <5> QED BY <5>1 DEF Moves, CancelListed, ResetTables, Submit, TakeSavepoint, CancelJob,
                RestartJobManager, SubmitRestored, Write, At
      <4>2. RowsArrived(2)
        BY <1>1, <3>2, <4>1, QuietIs, TypedIsType DEF QuietSeen
      <4>3. Len(binlog) = 2
        <5>1. Len(binlog) = RowsAt(drill, pc)
          BY <1>3, OnlyInserts
        <5>2. drill \notin Fault /\ drill # "smoke" /\ drill \notin Restoring \ {"smoke"}
          BY DEF Rewriting, Fault, Restoring
        <5>3. RowsAt(drill, pc) = IF pc <= 7 THEN 0 ELSE IF pc <= 9 THEN 1 ELSE 2
          BY <5>2 DEF RowsAt, Rewriting, Metrics, Fault, Restoring
        <5>4. ~(pc <= 7) /\ ~(pc <= 9)
          BY <3>2
        <5> QED BY <5>1, <5>3, <5>4
      <4> QED BY <4>2, <4>3, RowsSettle
    <3>3. CASE pc < 11 \/ (pc = 11 /\ pc' # pc + 1)
      BY <1>1, <1>2, <3>3
    <3> QED BY <1>1, <3>1, <3>2, <3>3
  <2> QED BY <1>2, <1>6, <2>1, <2>2 DEF FilesInv
<1> QED BY <1>4, <1>5, <1>6, MovesWhat

-----------------------------------------------------------------------------
(* The metrics run, whatever job of an earlier run is beside its own. *)

\* A publication of the first job goes on with the changes in order,
LEMMA FirstWrites ==
  ASSUME TypeInv, NEW p \in Nat, NEW q \in Nat, p <= q, FirstWrote(p), NEW files, NEW id,
         Publish("first", Log, files, id), Held(files) = p + 1 .. q
  PROVE  FirstWrote(q)'
<1> DEFINE l == Len(changelog)
<1>1. "first" \in Name
  BY DEF Name
<1>2. /\ l \in Nat /\ Len(changelog') \in Nat /\ l <= Len(changelog')
      /\ DOMAIN changelog = 1 .. l /\ DOMAIN changelog' = 1 .. Len(changelog')
      /\ \A n \in 1 .. l : changelog'[n] = changelog[n]
      /\ \A n \in 1 .. Len(changelog') : n > l =>
           changelog'[n].by = "first" /\ changelog'[n].change \in p + 1 .. q
      /\ \A i \in p + 1 .. q : \E n \in 1 .. Len(changelog') : n > l /\ changelog'[n].change = i
      /\ \A m, n \in 1 .. Len(changelog') :
           m > l /\ n > l /\ changelog'[m].change = changelog'[n].change => m = n
  BY <1>1, PublishAdds
<1> HIDE DEF l
<1>3. /\ \A n \in ByFirst : n \in 1 .. l /\ changelog[n].change \in 1 .. p
      /\ \A i \in 1 .. p : \E n \in ByFirst : changelog[n].change = i
      /\ \A m, n \in ByFirst : changelog[m].change = changelog[n].change => m = n
  BY <1>2 DEF FirstWrote, ByFirst
<1>4. \A n : n \in ByFirst' <=>
        n \in ByFirst \/ (n \in 1 .. Len(changelog') /\ n > l)
  BY <1>2 DEF ByFirst
<1>5. ASSUME NEW n \in ByFirst'
      PROVE  \/ n \in ByFirst /\ changelog'[n].change = changelog[n].change
             \/ n \in 1 .. Len(changelog') /\ n > l
  BY <1>2, <1>3, <1>4
<1>6. \A n \in ByFirst' : changelog'[n].change \in 1 .. q
  <2> TAKE n \in ByFirst'
  <2>1. CASE n \in ByFirst /\ changelog'[n].change = changelog[n].change
    <3>1. changelog[n].change \in 1 .. p
      BY <1>3, <2>1
    <3> QED BY <2>1, <3>1
  <2>2. CASE n \in 1 .. Len(changelog') /\ n > l
    <3>1. changelog'[n].change \in p + 1 .. q
      BY <1>2, <2>2
    <3> QED BY <3>1
  <2> QED BY <1>5, <2>1, <2>2
<1>7. \A i \in 1 .. q : \E n \in ByFirst' : changelog'[n].change = i
  <2> TAKE i \in 1 .. q
  <2>1. CASE i \in 1 .. p
    <3>1. PICK n \in ByFirst : changelog[n].change = i
      BY <1>3, <2>1
    <3>2. n \in ByFirst' /\ changelog'[n] = changelog[n]
      BY <1>2, <1>3, <1>4, <3>1
    <3> QED BY <3>1, <3>2
  <2>2. CASE i \in p + 1 .. q
    <3>1. PICK n \in 1 .. Len(changelog') : n > l /\ changelog'[n].change = i
      BY <1>2, <2>2
    <3> QED BY <1>4, <3>1
  <2> QED BY <2>1, <2>2
<1>8. ASSUME NEW m \in ByFirst', NEW n \in ByFirst', changelog'[m].change = changelog'[n].change
      PROVE  m = n
  <2>1. CASE m \in ByFirst /\ n \in ByFirst
    <3>1. changelog'[m] = changelog[m] /\ changelog'[n] = changelog[n]
      BY <1>2, <1>3, <2>1
    <3> QED BY <1>3, <1>8, <2>1, <3>1
  <2>2. ASSUME NEW a \in ByFirst, NEW b \in 1 .. Len(changelog'), b > l
        PROVE  changelog'[a].change # changelog'[b].change
    <3>1. changelog'[a].change \in 1 .. p
      BY <1>2, <1>3
    <3>2. changelog'[b].change \in p + 1 .. q
      BY <1>2, <2>2
    <3> QED BY <3>1, <3>2
  <2>3. CASE m \notin ByFirst /\ n \notin ByFirst
    BY <1>2, <1>4, <1>8, <2>3
  <2> QED BY <1>4, <1>8, <2>1, <2>2, <2>3
<1>9. {changelog'[n].change : n \in ByFirst'} = 1 .. q
  BY <1>6, <1>7
<1> QED BY <1>8, <1>9 DEF FirstWrote

\* and one of another job leaves them as they are.
LEMMA OthersWrite ==
  ASSUME TypeInv, NEW p, FirstWrote(p), NEW j \in Name \ {"first"}, NEW s \in Sink, NEW files, NEW id,
         Publish(j, s, files, id)
  PROVE  FirstWrote(p)' /\ ByFirst' = ByFirst
         /\ (j # "restored" /\ (\A n \in DOMAIN changelog : changelog[n].by # "restored")
               => \A n \in DOMAIN changelog' : changelog'[n].by # "restored")
<1>1. CASE s # Log
  <2>1. changelog' = changelog
    BY <1>1 DEF Publish, Log
  <2> QED BY <2>1 DEF FirstWrote, ByFirst
<1>2. CASE s = Log
  <2>1. /\ Len(changelog) \in Nat /\ Len(changelog') \in Nat /\ Len(changelog) <= Len(changelog')
        /\ DOMAIN changelog = 1 .. Len(changelog) /\ DOMAIN changelog' = 1 .. Len(changelog')
        /\ \A n \in 1 .. Len(changelog) : changelog'[n] = changelog[n]
        /\ \A n \in 1 .. Len(changelog') : n > Len(changelog) => changelog'[n].by = j
    BY <1>2, PublishAdds
  <2>2. ByFirst' = ByFirst
    BY <2>1 DEF ByFirst
  <2>3. \A n \in ByFirst : changelog'[n] = changelog[n]
    BY <2>1 DEF ByFirst
  <2>4. {changelog'[n].change : n \in ByFirst} = {changelog[n].change : n \in ByFirst}
    BY <2>3
  <2>5. FirstWrote(p)'
    BY <2>2, <2>3, <2>4 DEF FirstWrote
  <2>6. j # "restored" /\ (\A n \in DOMAIN changelog : changelog[n].by # "restored")
               => \A n \in DOMAIN changelog' : changelog'[n].by # "restored"
    BY <2>1
  <2> QED BY <2>2, <2>5, <2>6
<1> QED BY <1>1, <1>2

\* The steps of the metrics run, by number, and how many rows it has written.
LEMMA MetricsPlace ==
  ASSUME TypedInv, drill = Metrics
  PROVE  /\ pc \in {1, 2, 3, 4, 5, 6, 7, 8, 9} /\ Len(Script[drill]) = 9
         /\ Step.do = "cancel_listed" <=> pc = 1
         /\ Step.do = "reset_tables" <=> pc = 3
         /\ Step.do = "submit" <=> pc = 4
         /\ Step.do \in Writes <=> pc = 7
         /\ Step.do = "sample" => pc = 8
         /\ Step.do = "verdict" => pc = 9
         /\ Step.do \notin Seams /\ Step.do # "await_audit"
         /\ Len(binlog) = IF pc <= 7 THEN 0 ELSE 3
<1>1. drill \in Drills /\ pc \in 1 .. Len(Script[drill]) /\ Ledger
  BY DEF TypedInv, ScriptTyped
<1>2. IsMetrics(Script[drill])
  BY <1>1, ScriptsListed
<1>3. /\ Len(Script[drill]) = 9 /\ Step = Script[drill][pc]
      /\ Script[drill][1].do = "cancel_listed" /\ Script[drill][2].do = "await_cluster"
      /\ Script[drill][3].do = "reset_tables" /\ Script[drill][4].do = "submit"
      /\ Script[drill][5].do = "await_job" /\ Script[drill][6].do = "require_checkpoint"
      /\ Script[drill][7].do = "insert" /\ Script[drill][8].do = "sample"
      /\ Script[drill][9].do = "verdict"
  BY <1>2 DEF IsMetrics, IsOpening, Step
<1>4. pc \in {1, 2, 3, 4, 5, 6, 7, 8, 9}
  BY <1>1, <1>3
<1>5. RowsAt(drill, pc) = IF pc <= 7 THEN 0 ELSE 3
  BY DEF RowsAt, Restoring, Fault, Rewriting, Metrics
<1>6. Len(binlog) = RowsAt(drill, pc)
  BY <1>1, OnlyInserts DEF Careless, Metrics
<1> QED BY <1>3, <1>4, <1>5, <1>6 DEF Writes, Seams, Stops

\* What is said of the first job's state is said of the job when it has that state.
LEMMA FirstHasState ==
  ASSUME NEW q, F' = q, binlog' = binlog, tableId = 1, tableId' = 1,
         Sound(q), q.status \in {"STARTING", "RUNNING"}, q.recover = {},
         q.status = "STARTING" => q.done = NoPoint, q.notify \subseteq Sink,
         NEW x \in 0 .. Len(binlog), FirstWrote(x)', Holds(q, Log, x)
  PROVE  FirstWritesOn'
<1>1. Sound(q)'
  BY DEF Sound, Intervals, PointOf
<1>2. Holds(q, Log, x)'
  BY DEF Holds, Held
<1>3. Sound(F)' /\ Holds(F, Log, x)' /\ x \in 0 .. Len(binlog')
  BY <1>1, <1>2 DEF Sound, Holds, PointOf
<1> QED BY <1>3 DEF FirstWritesOn

\* The first job goes on publishing the changes in order.
LEMMA FirstKeepsWriting ==
  ASSUME TypedInv, drill = Metrics, FirstWritesOn, JobStep("first"),
         \A n \in DOMAIN changelog : changelog[n].by # "restored"
  PROVE  /\ UNCHANGED <<binlog, tableId, harness>> /\ R' = R /\ FirstWritesOn'
         /\ \A n \in DOMAIN changelog' : changelog'[n].by # "restored"
<1>1. /\ tableId = 1 /\ Sound(F) /\ F.status \in {"STARTING", "RUNNING"} /\ F.recover = {}
      /\ F.status = "STARTING" => F.done = NoPoint
      /\ F.notify \subseteq Sink
  BY DEF FirstWritesOn
<1>2. /\ TypeInv /\ F \in Job /\ JobTyped(F) /\ Len(binlog) \in Nat /\ Log \in Sink
      /\ "first" \in Own /\ "first" \in Name /\ drill \notin Fault
  <2>1. F \in Job /\ JobTyped(F)
    BY DEF TypedInv, JobsTyped, F, Name, JobTyped
  <2> QED BY <2>1, TypedIsType, LogIsASink DEF TypeInv, Own, Name, Fault, Metrics
<1>3. PICK q \in Job :
        /\ Update("first", q) /\ Sound(q) /\ Does("first", F, q, Log)
        /\ drill # "sink_commit_fault" => q.notify \subseteq F.notify \cup Sink
        /\ UNCHANGED <<binlog, tableId, harness>>
  BY <1>1, <1>2, JobDoes DEF F
<1>4. F' = q /\ R' = R /\ q.notify \subseteq Sink
  BY <1>1, <1>2, <1>3, FirstUpdated DEF Metrics
<1>5. PICK p \in 0 .. Len(binlog) : FirstWrote(p) /\ Holds(F, Log, p)
  BY DEF FirstWritesOn
<1>6. p \in Nat /\ F.done.pos \in Nat /\ F.done.pos \in 0 .. Len(binlog) /\ F.done.id \in Nat
  BY <1>2, <1>5 DEF JobTyped, Job, Point
<1> DEFINE Written == \A n \in DOMAIN changelog' : changelog'[n].by # "restored"
<1> SUFFICES FirstWritesOn' /\ Written
  BY <1>3, <1>4
<1> HIDE DEF Written
<1>7. ASSUME q.status = "RUNNING", q.recover = {}, NEW x \in 0 .. Len(binlog),
             FirstWrote(x)', Holds(q, Log, x)
      PROVE  FirstWritesOn'
  BY <1>1, <1>3, <1>4, <1>7, FirstHasState
<1>8. ASSUME q.status = "RUNNING", q.recover = {}, Untouched(Log), Holds(q, Log, p)
      PROVE  FirstWritesOn' /\ Written
  <2>1. changelog' = changelog
    BY <1>8 DEF Untouched
  <2>2. FirstWrote(p)' /\ Written
    BY <1>5, <2>1 DEF FirstWrote, ByFirst, Written
  <2> QED BY <1>5, <1>7, <1>8, <2>2
<1>9. CASE Starts(F, q, Log)
  <2>1. F.done.id = 0
    BY <1>1, <1>9 DEF Starts, NoPoint
  <2>2. q.recover = {} /\ q.status = "RUNNING" /\ Untouched(Log)
    BY <1>9, <2>1 DEF Starts
  <2>3. Holds(q, Log, p)
    BY <1>5, <1>9 DEF Starts, Holds
  <2> QED BY <1>8, <2>2, <2>3
<1>10. ~StartsAgain(F, q, Log) /\ ~Fails("first", F, q, Log) /\ ~IsGone(F, q, Log)
       /\ ~Recovers("first", F, q, Log)
  <2>1. "fault" \notin F.notify
    BY <1>1 DEF Sink
  <2> QED BY <1>1, <1>2, <2>1 DEF StartsAgain, Fails, IsGone, Recovers
<1>11. CASE Flushes(F, q, Log)
  <2>1. PICK n \in F.read .. Len(binlog) : n = q.read
    BY <1>11 DEF Flushes
  <2>2. /\ q.done = F.done /\ q.read = n /\ q.recover = {} /\ q.status = "RUNNING"
        /\ q.pend[Log] = F.pend[Log] \cup
             (IF n = F.read THEN {} ELSE {[id |-> F.epoch + 1, lo |-> F.read, hi |-> n]})
        /\ Untouched(Log) /\ F.status # "absent"
    BY <1>11, <2>1 DEF Flushes
  <2>3. Holds(q, Log, p)
    BY <1>1, <1>2, <1>5, <1>6, <2>2, HoldsFlushed
  <2> QED BY <1>8, <2>2, <2>3
<1>12. CASE Completes(F, q, Log)
  <2>1. /\ q.done.id = F.epoch /\ q.done.pos = F.read /\ q.read = F.read
        /\ q.pend[Log] = F.pend[Log] /\ q.recover = {} /\ q.status = "RUNNING"
        /\ Untouched(Log) /\ F.status # "absent"
    BY <1>12 DEF Completes
  <2>2. Holds(q, Log, p)
    BY <1>1, <1>2, <1>5, <1>6, <2>1, HoldsDone
  <2> QED BY <1>8, <2>1, <2>2
<1>13. CASE Commits("first", F, q, Log)
  <2>1. PICK files :
          /\ F.status \in {"RUNNING", "CANCELING"} /\ q.status = F.status
          /\ q.recover = {} /\ q.done = F.done /\ q.read = F.read
          /\ files = {f \in F.pend[Log] : f.id <= F.done.id}
          /\ q.pend[Log] = F.pend[Log] \ files
          /\ Publish("first", Log, files, F.done.id)
    BY <1>13 DEF Commits
  <2>2. q.status = "RUNNING" /\ F.status # "absent"
    BY <1>1, <2>1
  <2>3. \E x \in 0 .. Len(binlog) : x = F.done.pos
    BY <1>6
  <2>4. PICK x \in 0 .. Len(binlog) : x = F.done.pos
    BY <2>3
  <2>5. Holds(q, Log, x) /\ Held(files) = p + 1 .. x /\ p <= x /\ x \in Nat
    <3>1. Holds(q, Log, F.done.pos)
      BY <1>1, <1>2, <1>5, <1>6, <2>1, <2>2, HoldsPublished
    <3>2. Held(files) = p + 1 .. F.done.pos /\ p <= F.done.pos
      BY <1>5, <2>1 DEF Holds
    <3> QED BY <1>6, <2>4, <3>1, <3>2
  <2>6. Written
    <3>1. /\ DOMAIN changelog = 1 .. Len(changelog) /\ DOMAIN changelog' = 1 .. Len(changelog')
          /\ Len(changelog) \in Nat /\ Len(changelog') \in Nat
          /\ \A n \in 1 .. Len(changelog) : changelog'[n] = changelog[n]
          /\ \A n \in 1 .. Len(changelog') : n > Len(changelog) => changelog'[n].by = "first"
      BY <1>2, <2>1, PublishAdds
    <3> QED BY <3>1 DEF Written
  <2>7. FirstWrote(x)'
    BY <1>2, <1>5, <1>6, <2>1, <2>5, FirstWrites
  <2> QED BY <1>7, <2>1, <2>2, <2>4, <2>5, <2>6, <2>7
<1>14. CASE Stays(F, q, Log)
  <2>1. q.status = "RUNNING" /\ q.recover = {} /\ Untouched(Log)
    BY <1>1, <1>14 DEF Stays
  <2>2. Holds(q, Log, p)
    BY <1>5, <1>14 DEF Stays, Holds
  <2> QED BY <1>8, <2>1, <2>2
<1> QED BY <1>3, <1>9, <1>10, <1>11, <1>12, <1>13, <1>14 DEF Does

\* A job of an earlier run publishes, or leaves the tables alone.
LEMMA LeftWrites ==
  ASSUME TypedInv, JobStep("left")
  PROVE  /\ UNCHANGED <<binlog, tableId, harness>> /\ F' = F /\ R' = R
         /\ \/ changelog' = changelog
            \/ \E s \in Sink, id \in Nat : \E files : Publish("left", s, files, id)
<1>1. /\ UNCHANGED <<binlog, harness>>
      /\ UNCHANGED tables \/ \E s \in Sink : \E files : Publish("left", s, files, job["left"].done.id)
  BY DEF JobStep, JobStarts, Restart, Strikes, Trigger, CompleteCheckpoint, ToldFault, JobEnds,
         Recover, Commit
<1>2. tableId' = tableId
  BY <1>1 DEF tables, Publish
<1>3. \E q : Update("left", q)
  BY DEF JobStep, JobStarts, Restart, Strikes, Trigger, CompleteCheckpoint, ToldFault, JobEnds,
         Recover, Commit
<1>4. F' = F /\ R' = R
  BY <1>3 DEF Update, TypedInv, JobsTyped, F, R, Name
<1>5. job["left"].done.id \in Nat
  BY DEF TypedInv, JobsTyped, Job, Point, Name
<1> QED BY <1>1, <1>2, <1>4, <1>5 DEF tables

\* Whatever the jobs and the cluster do, the first job has published the changes in order.
LEMMA SystemMetrics ==
  ASSUME TypedInv, drill = Metrics, SystemStep, MetricsInv
  PROVE  MetricsInv'
<1>1. /\ R = NoJob /\ \A n \in DOMAIN changelog : changelog[n].by # "restored"
      /\ pc <= 4 => F = NoJob /\ ByFirst = {}
      /\ pc > 3 => tableId = 1
      /\ pc > 4 => FirstWritesOn
      /\ seen.zeros > 0 => pc >= 8 /\ Len(changelog) >= 3
  BY DEF MetricsInv
<1>2. pc \in {1, 2, 3, 4, 5, 6, 7, 8, 9} /\ TypeInv
  BY MetricsPlace, TypedIsType
<1>3. /\ UNCHANGED <<drill, pc, seen, tableId, binlog>>
      /\ Len(changelog) <= Len(changelog') /\ Len(changelog) \in Nat /\ Len(changelog') \in Nat
  <2>1. UNCHANGED <<tableId, harness, binlog>> /\ Len(changelog) <= Len(changelog')
    BY SystemTables, SystemAdds
  <2>2. TypedInv'
    BY SystemTyped
  <2>3. Len(changelog) \in Nat
    BY LoggedIs
  <2>4. (TypedInv => Len(changelog) \in Nat)'
    BY LoggedIs, PTL
  <2> QED BY <2>1, <2>2, <2>3, <2>4 DEF harness, script
<1>4. seen'.zeros > 0 => pc' >= 8 /\ Len(changelog') >= 3
  BY <1>1, <1>3
<1> DEFINE Kept == /\ R' = NoJob /\ \A n \in DOMAIN changelog' : changelog'[n].by # "restored"
                   /\ pc <= 4 => F' = NoJob /\ ByFirst' = {}
                   /\ pc > 4 => FirstWritesOn'
<1>5. Kept => MetricsInv'
  BY <1>1, <1>3, <1>4 DEF MetricsInv
<1>6. CASE F' = F /\ R' = R /\ changelog' = changelog
  <2>1. ByFirst' = ByFirst
    BY <1>6 DEF ByFirst
  <2>2. FirstWritesOn => FirstWritesOn'
    BY <1>3, <1>6, <2>1 DEF FirstWritesOn, FirstWrote, Holds, Held, Sound, Intervals, PointOf
  <2> QED BY <1>1, <1>5, <1>6, <2>1, <2>2
<1>7. CASE JobStep("left")
  <2>1. /\ F' = F /\ R' = R
        /\ \/ changelog' = changelog
           \/ \E s \in Sink, id \in Nat : \E files : Publish("left", s, files, id)
    BY <1>7, LeftWrites
  <2>2. CASE \E s \in Sink, id \in Nat : \E files : Publish("left", s, files, id)
    <3>1. PICK s \in Sink, id \in Nat : \E files : Publish("left", s, files, id)
      BY <2>2
    <3>2. PICK files : Publish("left", s, files, id)
      BY <3>1
    <3>3. "left" \in Name \ {"first"}
      BY DEF Name
    <3>4. ASSUME NEW p, FirstWrote(p)
          PROVE  /\ FirstWrote(p)' /\ ByFirst' = ByFirst
                 /\ \A n \in DOMAIN changelog' : changelog'[n].by # "restored"
      BY <1>1, <1>2, <3>2, <3>3, <3>4, OthersWrite
    <3>5. CASE pc <= 4
      <4>1. FirstWrote(0)
        BY <1>1, <3>5 DEF FirstWrote
      <4>2. ByFirst' = {} /\ \A n \in DOMAIN changelog' : changelog'[n].by # "restored"
        BY <1>1, <3>4, <3>5, <4>1
      <4> QED BY <1>1, <1>2, <1>5, <2>1, <3>5, <4>2
    <3>6. CASE pc > 4
      <4>1. FirstWritesOn
        BY <1>1, <3>6
      <4>2. PICK p \in 0 .. Len(binlog) : FirstWrote(p) /\ Holds(F, Log, p)
        BY <4>1 DEF FirstWritesOn
      <4>3. FirstWrote(p)' /\ \A n \in DOMAIN changelog' : changelog'[n].by # "restored"
        BY <3>4, <4>2
      <4>4. FirstWritesOn'
        <5>1. Holds(F, Log, p)' /\ Sound(F)' /\ p \in 0 .. Len(binlog')
          BY <1>3, <2>1, <4>1, <4>2 DEF FirstWritesOn, Holds, Held, Sound, Intervals, PointOf
        <5> QED BY <1>3, <2>1, <4>1, <4>3, <5>1 DEF FirstWritesOn
      <4> QED BY <1>1, <1>2, <1>5, <2>1, <3>6, <4>3, <4>4
    <3> QED BY <1>2, <3>5, <3>6
  <2> QED BY <1>6, <2>1, <2>2
<1>8. CASE JobStep("first")
  <2>1. F.status # "absent"
    BY <1>8, StepsAreThere DEF F
  <2>2. pc > 4
    BY <1>1, <1>2, <2>1 DEF NoJob
  <2>3. R' = R /\ FirstWritesOn' /\ \A n \in DOMAIN changelog' : changelog'[n].by # "restored"
    BY <1>1, <1>8, <2>2, FirstKeepsWriting
  <2> QED BY <1>1, <1>2, <1>5, <2>2, <2>3
<1>9. ~JobStep("restored")
  BY <1>1, StepsAreThere DEF R, NoJob
<1>10. DeleteSubsumed \/ DiscardAborted \/ ClusterStarts => F' = F /\ R' = R /\ changelog' = changelog
  BY DEF DeleteSubsumed, DiscardAborted, ClusterStarts, F, R, tables
<1>11. SystemStep => \/ JobStep("left") \/ JobStep("first") \/ JobStep("restored")
                     \/ DeleteSubsumed \/ DiscardAborted \/ ClusterStarts
  BY DEF SystemStep, JobStep, Name
<1> QED BY <1>6, <1>7, <1>8, <1>9, <1>10, <1>11

\* A sample without lag: as many rows in the changelog as in the source.
LEMMA SampleTells ==
  ASSUME TypedInv, drill = Metrics, pc = 8, ~(Lag > 0)
  PROVE  Len(changelog) >= 3
<1>1. Ledger /\ drill \in Careless /\ Len(binlog) = 3
  BY MetricsPlace DEF TypedInv, Careless, Metrics
<1>2. RowsAt(drill, pc) = 3
  BY <1>1, OnlyInserts
<1>3. /\ \A i \in 1 .. Len(binlog) : ~IsUpdate(binlog[i]) /\ binlog[i].after # 0
      /\ \A r \in 1 .. 3 : \E i \in 1 .. Len(binlog) : binlog[i].row = r
  BY <1>1, <1>2, OnlyInserts
<1>4. 1 .. 3 \subseteq Present(SourceTable)
  <2> SUFFICES ASSUME NEW r \in 1 .. 3 PROVE r \in Present(SourceTable)
    OBVIOUS
  <2>1. PICK i \in 1 .. Len(binlog) : binlog[i].row = r
    BY <1>3
  <2>2. r \in Row
    BY DEF Row
  <2>3. SourceTable[r] = binlog[i].after
    BY <1>1, <2>1, <2>2, OneChange
  <2> QED BY <1>3, <2>2, <2>3 DEF Present
<1>5. Cardinality(Present(SourceTable)) \in Nat /\ 3 <= Cardinality(Present(SourceTable))
  <2>1. \A k \in Nat : IsFiniteSet(1 .. k) /\ Cardinality(1 .. k) = k
    BY FS_Interval
  <2>2. Present(SourceTable) \subseteq 1 .. 5
    BY DEF Present, Row
  <2>3. IsFiniteSet(Present(SourceTable))
    BY <2>1, <2>2, FS_Subset
  <2>4. Cardinality(1 .. 3) <= Cardinality(Present(SourceTable))
    BY <1>4, <2>3, FS_Subset
  <2>5. Cardinality(Present(SourceTable)) \in Nat
    BY <2>3, FS_CardinalityType
  <2> QED BY <2>1, <2>4, <2>5
<1>6. /\ Len(changelog) \in Nat /\ DOMAIN Logged = 1 .. Len(changelog) /\ Len(Logged) = Len(changelog)
      /\ \A n \in 1 .. Len(changelog) : changelog[n].change \in 1 .. Len(binlog)
                                         /\ Logged[n] = binlog[changelog[n].change]
  BY LoggedIs DEF Everything
<1>7. {i \in DOMAIN Logged : IsUpdate(Logged[i])} = {}
  BY <1>3, <1>6
<1>8. RowsOf(Logged) = Len(changelog)
  <2>1. Cardinality({}) = 0
    BY FS_EmptySet
  <2>2. Cardinality({i \in DOMAIN Logged : IsUpdate(Logged[i])}) = 0
    BY <1>7, <2>1
  <2>3. RowsOf(Logged) = Len(Logged) + Cardinality({i \in DOMAIN Logged : IsUpdate(Logged[i])})
    BY DEF RowsOf
  <2> QED BY <1>6, <2>2, <2>3
<1>9. RowsOf(Logged) >= Cardinality(Present(SourceTable))
  <2>1. ~(RowsOf(Logged) < Cardinality(Present(SourceTable)))
    BY DEF Lag
  <2> QED BY <1>5, <1>6, <1>8, <2>1
<1> QED BY <1>5, <1>6, <1>8, <1>9

\* What a step that goes on reading counts: another sample without lag, or what it was.
LEMMA QuietCounts ==
  ASSUME TypedInv, Quiet
  PROVE  seen'.zeros = seen.zeros \/ (At("sample") /\ (Lag > 0 => seen'.zeros = 0))
<1>1. seen \in Seen
  BY DEF TypedInv, SeenTyped
<1>2. CASE Sample
  BY <1>1, <1>2 DEF Sample, Seen
<1>3. CASE ReadSomething
  <2>1. ReadSomething => \/ FindRetained
                         \/ \E done : SawCheckpoint(done)
                         \/ seen' = [seen EXCEPT !.source = SourceTable]
                         \/ seen' = [seen EXCEPT !.table = current]
                         \/ seen' = [seen EXCEPT !.before = dataFiles]
                         \/ seen' = [seen EXCEPT !.after = dataFiles]
    BY DEF ReadSomething
  <2>2. FindRetained => \E v : seen' = [seen EXCEPT !.point = v]
    BY DEF FindRetained
  <2> QED BY <1>1, <1>3, <2>1, <2>2 DEF SawCheckpoint, Seen
<1>4. CASE Audit
  <2>1. seen' = seen \/ \E v : seen' = [seen EXCEPT !.reported = v]
    BY <1>4 DEF Audit
  <2> QED BY <1>1, <2>1 DEF Seen
<1>5. CASE Await \/ Rewrite \/ (Conclude /\ ChecksHold)
  BY <1>5 DEF Await, Rewrite, Conclude
<1> QED BY <1>2, <1>3, <1>4, <1>5 DEF Quiet

\* The metrics run goes on: it submits its job to empty tables, and counts a sample without
\* lag only when the changelog has as many rows as the source.
LEMMA MovesMetrics ==
  ASSUME TypedInv, drill = Metrics, Moves, MetricsInv
  PROVE  MetricsInv'
<1>1. /\ R = NoJob /\ \A n \in DOMAIN changelog : changelog[n].by # "restored"
      /\ pc <= 4 => F = NoJob /\ ByFirst = {}
      /\ pc > 3 => tableId = 1
      /\ pc > 4 => FirstWritesOn
      /\ seen.zeros > 0 => pc >= 8 /\ Len(changelog) >= 3
  BY DEF MetricsInv
<1>2. /\ pc \in {1, 2, 3, 4, 5, 6, 7, 8, 9} /\ TypeInv /\ Len(changelog) \in Nat
      /\ Step.do = "submit" <=> pc = 4
      /\ Step.do \notin Seams /\ pc' \in {pc - 1, pc, pc + 1}
      /\ seen.zeros \in 0 .. 3
  BY MetricsPlace, TypedIsType, OneOn, LoggedIs DEF TypedInv, SeenTyped, Seen
<1>3. drill' = drill
  BY DEF Moves, Quiet, CancelListed, ResetTables, Submit, TakeSavepoint, CancelJob,
         RestartJobManager, SubmitRestored, Readable, Write, Go, Await, ReadSomething, Audit,
         Sample, Rewrite, Conclude, script
<1>4. ASSUME F' = F, R' = R, changelog' = changelog, tableId' = tableId, binlog' = binlog,
             pc' > 4 => pc > 4, pc' > 3 => tableId = 1,
             seen'.zeros > 0 => pc' >= 8 /\ Len(changelog) >= 3
      PROVE  MetricsInv'
  <2>1. ByFirst' = ByFirst
    BY <1>4 DEF ByFirst
  <2>2. FirstWritesOn => FirstWritesOn'
    BY <1>4, <2>1 DEF FirstWritesOn, FirstWrote, Holds, Held, Sound, Intervals, PointOf
  <2>3. pc' <= 4 => F' = NoJob /\ ByFirst' = {}
    <3>1. CASE pc <= 4
      BY <1>1, <1>4, <2>1, <3>1
    <3>2. CASE pc > 4 /\ pc' <= 4
      <4>1. pc = 5 /\ pc' = pc - 1
        BY <1>2, <3>2
      <4>2. Step.do = "await_audit"
        <5>1. ~(pc' = pc) /\ ~(pc' = pc + 1)
          BY <4>1
        <5> QED BY <5>1, QuietGoes DEF Moves, QuietPlace, CancelListed, ResetTables, Submit,
              TakeSavepoint, CancelJob, RestartJobManager, SubmitRestored, Readable, Write, Go, Raise
      <4> QED BY <4>2, MetricsPlace
    <3> QED BY <1>2, <3>1, <3>2
  <2> QED BY <1>1, <1>3, <1>4, <2>1, <2>2, <2>3 DEF MetricsInv
<1>5. CASE CancelListed
  <2>1. pc = 1 /\ pc' = 2
    BY <1>5, MetricsPlace DEF CancelListed, At, Go
  <2>2. F' = F /\ R' = R
    BY <1>1, <1>5, <2>1 DEF CancelListed, CancelEach, Listed, NoJob, F, R, Name
  <2>3. UNCHANGED <<changelog, tableId, binlog, seen>>
    BY <1>5 DEF CancelListed, tables
  <2> QED BY <1>1, <1>4, <2>1, <2>2, <2>3
<1>6. CASE ResetTables
  <2>1. pc = 3 /\ pc' = 4
    BY <1>6, MetricsPlace DEF ResetTables, At, Go
  <2>2. F' = F /\ R' = R /\ tableId' = 1 /\ changelog' = <<>> /\ seen' = seen
    BY <1>6 DEF ResetTables, F, R
  <2>3. DOMAIN changelog' = {}
    BY <2>2
  <2>4. ByFirst' = {}
    BY <2>3 DEF ByFirst
  <2> QED BY <1>1, <1>2, <2>1, <2>2, <2>3, <2>4 DEF MetricsInv
<1>7. CASE Submit
  <2>1. pc = 4 /\ pc' = 5
    BY <1>7, MetricsPlace DEF Submit, At, Go
  <2>2. PICK q : q = [NoJob EXCEPT !.status = "STARTING"]
    OBVIOUS
  <2>3. /\ q \in Job /\ q.done = NoPoint /\ q.pend = NoPoint.pend /\ q.read = 0 /\ q.recover = {}
        /\ q.notify = {} /\ q.status = "STARTING"
    BY <2>2, EmptyIsSound DEF Job, NoJob
  <2>4. UNCHANGED <<binlog, changelog, tableId, seen>> /\ F' = q /\ R' = R
    BY <1>2, <1>7, <2>2, <2>3, FirstUpdated DEF Submit, tables
  <2>5. Len(binlog) \in Nat /\ Log \in Sink
    BY <1>2, LogIsASink DEF TypeInv
  <2>6. Sound(q)
    BY <2>2, <2>5, SubmittedSound
  <2>7. Holds(q, Log, 0)
    <3>1. NoPoint.pos = 0 /\ NoPoint.pend[Log] = {}
      BY <2>5 DEF NoPoint
    <3>2. q.pend[Log] = {} /\ q.done.pos = 0 /\ q.read = q.done.pos
      BY <2>3, <3>1
    <3>3. Holds(q, Log, q.done.pos)
      BY <3>2, HoldsNothing
    <3> QED BY <3>2, <3>3
  <2>8. ByFirst' = {} /\ ByFirst = {}
    BY <1>1, <2>1, <2>4 DEF ByFirst
  <2>9. FirstWrote(0)'
    BY <2>8 DEF FirstWrote
  <2>10. FirstWritesOn'
    <3>1. 0 \in 0 .. Len(binlog) /\ tableId = 1 /\ tableId' = 1
      BY <1>1, <2>1, <2>4, <2>5
    <3> QED BY <2>3, <2>4, <2>6, <2>7, <2>9, <3>1, FirstHasState
  <2> QED BY <1>1, <1>2, <2>1, <2>4, <2>10 DEF MetricsInv
<1>8. CASE Write
  <2>1. /\ Extends(binlog', binlog) /\ pc' = pc + 1 /\ UNCHANGED <<job, tables, drill, seen>>
        /\ pc = 7
    BY <1>8, WriteExtends, MetricsPlace
  <2>2. F' = F /\ R' = R /\ changelog' = changelog /\ tableId' = tableId /\ ByFirst' = ByFirst
    BY <2>1 DEF F, R, tables, ByFirst
  <2>3. FirstWritesOn
    BY <1>1, <2>1
  <2>4. PICK p \in 0 .. Len(binlog) : FirstWrote(p) /\ Holds(F, Log, p)
    BY <2>3 DEF FirstWritesOn
  <2>5. FirstWrote(p)' /\ p \in 0 .. Len(binlog')
    BY <2>1, <2>2, <2>4 DEF FirstWrote, Extends
  <2>6. PICK r : r = F
    OBVIOUS
  <2>7. JobTyped(r) /\ Sound(r)
    BY <2>3, <2>6 DEF TypedInv, JobsTyped, F, Name, FirstWritesOn
  <2>8. Holds(r, Log, p)'
    <3>1. Holds(r, Log, p)' = Holds(r, Log, p)
      BY <2>1, <2>7, HoldsStill, LogIsASink
    <3> QED BY <2>4, <2>6, <3>1
  <2>9. Sound(r)'
    <3>1. Len(binlog) <= Len(binlog') /\ Len(binlog) \in Nat /\ Len(binlog') \in Nat /\ r.read \in Nat
      BY <2>1, <2>7 DEF Extends, JobTyped, Job
    <3> QED BY <2>7, <3>1 DEF Sound, Intervals, PointOf
  <2>10. FirstWritesOn'
    BY <2>2, <2>3, <2>5, <2>6, <2>8, <2>9 DEF FirstWritesOn, Holds, Sound
  <2> QED BY <1>1, <1>2, <1>3, <2>1, <2>2, <2>10 DEF MetricsInv
<1>9. CASE Quiet
  <2>1. /\ UNCHANGED <<binlog, job, changelog, tableId>> /\ QuietPlace
        /\ Step.do \notin Submission
    BY <1>9, QuietGoes DEF QuietKeeps, QuietPlace
  <2>2. F' = F /\ R' = R
    BY <2>1 DEF F, R
  <2>3. pc # 4 /\ pc # 3 /\ pc # 1
    BY <1>2, <2>1, MetricsPlace DEF Submission
  <2>4. pc' = pc \/ pc' = pc + 1
    BY <2>1, MetricsPlace DEF QuietPlace
  <2>5. (pc' > 4 => pc > 4) /\ (pc' > 3 => tableId = 1) /\ pc' >= pc
    BY <1>1, <1>2, <2>3, <2>4
  <2>6. seen'.zeros > 0 => pc' >= 8 /\ Len(changelog) >= 3
    <3>1. CASE seen'.zeros = seen.zeros
      BY <1>1, <1>2, <2>4, <2>5, <3>1
    <3>2. CASE At("sample") /\ (Lag > 0 => seen'.zeros = 0)
      <4>1. pc = 8
        BY <3>2, MetricsPlace DEF At
      <4>2. ~(Lag > 0) => Len(changelog) >= 3
        BY <4>1, SampleTells
      <4>3. Lag > 0 => ~(seen'.zeros > 0)
        BY <3>2
      <4> QED BY <2>5, <4>1, <4>2, <4>3
    <3> QED BY <1>9, <3>1, <3>2, QuietCounts
  <2> QED BY <1>4, <2>1, <2>2, <2>5, <2>6
<1>10. ~TakeSavepoint /\ ~CancelJob /\ ~RestartJobManager /\ ~SubmitRestored
  BY <1>2 DEF TakeSavepoint, CancelJob, RestartJobManager, SubmitRestored, At, Seams, Stops
<1> QED BY <1>5, <1>6, <1>7, <1>8, <1>9, <1>10 DEF Moves

-----------------------------------------------------------------------------
(* A drill that passes tells the truth, and no other fails. *)

\* A drill that has passed has come to its end and its checks held.
JudgedInv ==
  /\ cleaned => verdict # "none"
  /\ Followed /\ verdict = "passed" => pc = Len(Script[drill]) /\ ChecksHold

\* In the drills that reconcile, no job of an earlier run goes on.
LEMMA UpdatingIs ==
  ASSUME IInv, drill \in Updating, Followed
  PROVE  drill \in Judged /\ ScriptInv /\ Inv
<1>1. drill \in Judged /\ drill \notin Careless
  BY DEF Updating, Judged, Fault, Restoring, Careless
<1>2. ~LeftActive
  BY <1>1 DEF LeftActive
<1> QED BY <1>1, <1>2 DEF IInv

\* A drill is judged by a step that goes on, or ends.
LEMMA MovesJudge ==
  ASSUME Moves
  PROVE  /\ drill' = drill /\ cleaned' = cleaned /\ verdict = "none" /\ reason' = reason
         /\ verdict' = "none"
            \/ (verdict' = "passed" /\ Conclude /\ ChecksHold /\ UNCHANGED <<pc, seen>>)
<1>1. CASE Conclude /\ ChecksHold
  BY <1>1 DEF Conclude, At, script
<1>2. CASE Await \/ ReadSomething \/ Audit \/ Sample \/ Rewrite
  BY <1>2 DEF Await, Arrived, ReadSomething, Audit, Sample, Rewrite, At, Go, ending
<1>3. CASE CancelListed \/ ResetTables \/ Submit \/ TakeSavepoint \/ CancelJob
             \/ RestartJobManager \/ (SubmitRestored /\ Readable) \/ Write
  BY <1>3 DEF CancelListed, ResetTables, Submit, TakeSavepoint, CancelJob, RestartJobManager,
              SubmitRestored, Write, At, Go, ending
<1> QED BY <1>1, <1>2, <1>3 DEF Moves, Quiet

\* A drill that ends has failed, and why, or cleans up.
LEMMA EndsJudge ==
  ASSUME Ends
  PROVE  /\ drill' = drill /\ ~Followed'
         /\ \/ verdict = "none" /\ verdict' = "failed" /\ cleaned' = cleaned
               /\ \/ StepRaises /\ reason' = "error"
                  \/ SubmitRestored /\ ~Readable /\ reason' = "restore_point"
                  \/ Conclude /\ ~ChecksHold /\ reason' = "checks"
            \/ Finally /\ cleaned' = TRUE
               /\ UNCHANGED <<binlog, tables, drill, pc, seen, verdict, reason>>
<1>1. CASE StepRaises
  BY <1>1 DEF StepRaises, Raise, script, Followed
<1>2. CASE SubmitRestored /\ ~Readable
  BY <1>2 DEF SubmitRestored, Raise, At, script, Followed
<1>3. CASE Conclude /\ ~ChecksHold
  BY <1>3 DEF Conclude, Raise, At, script, Followed
<1>4. CASE Finally
  BY <1>4 DEF Finally, script, Followed
<1> QED BY <1>1, <1>2, <1>3, <1>4 DEF Ends

\* The steps, and when what they lead to is followed.
LEMMA NextIs ==
  ASSUME Next
  PROVE  (Followed /\ SystemStep /\ UNCHANGED harness) \/ Moves \/ Ends
BY MovesOrEnds, SystemLeaves DEF Next

\* The truth about the tables is the same while nothing changes.
LEMMA TruthSame ==
  ASSUME TypedInv, TruthInv, UNCHANGED vars
  PROVE  TruthInv'
<1>1. /\ UNCHANGED <<binlog, job, points, aborted, tableId, maxId, changelog, current, late, drill,
                     pc, seen, verdict, cleaned, harness>>
      /\ UNCHANGED system
  BY DEF vars, system, harness, disk, tables, script, ending
<1>2. Followed' = Followed /\ Len(binlog) \in Nat
  BY <1>1, LoggedIs DEF Followed
<1>3. /\ F' = F /\ R' = R /\ CurId' = CurId /\ SourceTable' = SourceTable /\ Settled' = Settled
      /\ Complete' = Complete
  BY <1>1 DEF F, R, CurId, SourceTable, RowAfter, Settled, Complete, Published
<1>4. ASSUME NEW p, CurrentAt(p) PROVE CurrentAt(p)'
  BY <1>1, <1>2, <1>3, <1>4, SameShows
<1>5. AuditInv => AuditInv'
  BY <1>1, <1>3 DEF AuditInv
<1>6. SmokeInv => SmokeInv'
  BY <1>1, <1>3 DEF SmokeInv
<1>7. FilesInv => FilesInv'
  BY <1>1, <1>3 DEF FilesInv
<1>8. MetricsInv => MetricsInv'
  <2>1. ByFirst' = ByFirst
    BY <1>1 DEF ByFirst
  <2>2. FirstWritesOn => FirstWritesOn'
    BY <1>1, <1>3, <2>1 DEF FirstWritesOn, FirstWrote, Holds, Held, Sound, Intervals, PointOf
  <2> QED BY <1>1, <1>3, <2>1, <2>2 DEF MetricsInv
<1>9. Followed' /\ drill' \in Updating => \E p \in 0 .. Len(binlog') : CurrentAt(p)'
  BY <1>1, <1>2, <1>4 DEF TruthInv
<1> QED BY <1>1, <1>2, <1>5, <1>6, <1>7, <1>8, <1>9 DEF TruthInv

\* Every step keeps what is said of the tables and of what the drill has established.
LEMMA TruthKept == TypedInv /\ IInv /\ JudgedInv /\ TruthInv /\ [Next]_vars => TruthInv'
<1> SUFFICES ASSUME TypedInv, IInv, JudgedInv, TruthInv, [Next]_vars PROVE TruthInv'
  OBVIOUS
<1>1. CASE UNCHANGED vars
  BY <1>1, TruthSame
<1>2. CASE Next
  <2>1. SUFFICES ASSUME Followed' PROVE TruthInv'
    BY DEF TruthInv
  <2>2. (Followed /\ SystemStep /\ UNCHANGED harness) \/ Moves
    BY <1>2, <2>1, NextIs, EndsJudge
  <2>3. Followed /\ drill' = drill
    <3>1. CASE Moves
      BY <3>1, MovesJudge DEF Followed, JudgedInv
    <3> QED BY <2>2, <3>1 DEF harness, script
  <2>4. CASE drill \in Updating
    <3>1. drill \in Judged /\ ScriptInv /\ Inv
      BY <2>3, <2>4, UpdatingIs
    <3>2. (\E p \in 0 .. Len(binlog) : CurrentAt(p)) /\ AuditInv /\ SmokeInv
      BY <2>3, <2>4 DEF TruthInv
    <3>3. PICK p \in 0 .. Len(binlog) : CurrentAt(p)
      BY <3>2
    <3>4. FilesInv' /\ MetricsInv'
      BY <2>3, <2>4 DEF FilesInv, MetricsInv, Updating, Fault, Restoring, Rewriting, Metrics
    <3>5. (\E x \in 0 .. Len(binlog') : CurrentAt(x)') /\ AuditInv' /\ SmokeInv'
      <4>1. CASE SystemStep
        <5>1. UNCHANGED binlog /\ \E x \in p .. Len(binlog) : CurrentAt(x)'
          BY <2>4, <3>1, <3>3, <4>1, SystemShows
        <5>2. \A x \in p .. Len(binlog) : x \in 0 .. Len(binlog')
          <6>1. Len(binlog) \in Nat
            BY LoggedIs
          <6> QED BY <3>3, <5>1, <6>1
        <5> QED BY <2>4, <3>1, <3>2, <3>3, <4>1, <5>1, <5>2, SystemAudited
      <4>2. CASE Moves
        <5>1. \E x \in 0 .. Len(binlog') : CurrentAt(x)'
          BY <2>4, <3>1, <3>3, <4>2, MovesShow
        <5>2. AuditInv'
          BY <2>3, <3>1, <3>2, <4>2, MovesAudited DEF AuditInv
        <5>3. SmokeInv'
          BY <2>3, <3>1, <3>2, <4>2, MovesSmoked DEF SmokeInv
        <5> QED BY <5>1, <5>2, <5>3
      <4> QED BY <2>2, <4>1, <4>2
    <3> QED BY <3>4, <3>5 DEF TruthInv
  <2>5. CASE drill = Rewriting
    <3>1. FilesInv /\ ScriptInv
      BY <2>3, <2>5 DEF TruthInv, IInv, Judged
    <3>2. FilesInv'
      BY <2>2, <2>5, <3>1, SystemFiles, MovesFiles
    <3>3. MetricsInv' /\ drill' \notin Updating
      BY <2>3, <2>5 DEF MetricsInv, Updating, Fault, Restoring, Rewriting, Metrics
    <3> QED BY <3>2, <3>3 DEF TruthInv
  <2>6. CASE drill = Metrics
    <3>1. MetricsInv
      BY <2>3 DEF TruthInv
    <3>2. MetricsInv'
      BY <2>2, <2>6, <3>1, SystemMetrics, MovesMetrics
    <3>3. FilesInv' /\ drill' \notin Updating
      BY <2>3, <2>6 DEF FilesInv, Updating, Fault, Restoring, Rewriting, Metrics
    <3> QED BY <3>2, <3>3 DEF TruthInv
  <2>7. drill \in Updating \/ drill = Rewriting \/ drill = Metrics
    BY ScriptsListed DEF TypedInv, ScriptTyped, Updating
  <2> QED BY <2>4, <2>5, <2>6, <2>7
<1> QED BY <1>1, <1>2

\* It is so before the first step.
LEMMA TruthFirst == Init => TruthInv
<1> SUFFICES ASSUME Init PROVE TruthInv
  OBVIOUS
<1>1. IInv /\ TypedInv /\ TypeInv
  BY InitInv, TypedFirst, TypedIsType
<1>2. pc = 1 /\ Followed /\ binlog = <<>> /\ changelog = <<>> /\ F = NoJob /\ R = NoJob
      /\ (\A r \in Row : current[r] = 0) /\ seen.zeros = 0
  BY DEF Init, Followed, F, R, Name
<1>3. ASSUME drill \in Updating PROVE \E p \in 0 .. Len(binlog) : CurrentAt(p)
  <2>1. Inv
    BY <1>1, <1>2, <1>3, UpdatingIs
  <2>2. CurrentAt(0)
    BY <1>1, <1>2, <1>3, <2>1, EarlyShows DEF Inv
  <2>3. 0 \in 0 .. Len(binlog)
    BY <1>1, LoggedIs
  <2> QED BY <2>2, <2>3
<1>4. AuditInv
  <2>1. \A d : AuditsAt(d) \in {17, 18}
    BY DEF AuditsAt
  <2>2. AuditsAt(drill) = 17 \/ AuditsAt(drill) = 18
    BY <2>1
  <2> QED BY <1>2, <2>2 DEF AuditInv
<1>5. SmokeInv /\ FilesInv
  BY <1>2 DEF SmokeInv, FilesInv
<1>6. MetricsInv
  <2>1. DOMAIN changelog = {}
    BY <1>2
  <2> QED BY <1>2, <2>1 DEF MetricsInv, ByFirst
<1> QED BY <1>3, <1>4, <1>5, <1>6 DEF TruthInv

\* Where a drill ends.
LEMMA EndPlace ==
  ASSUME TypedInv
  PROVE  /\ Step.do = "verdict" => pc = Len(Script[drill])
         /\ drill \in Audited /\ pc = Len(Script[drill]) => pc = AuditsAt(drill) + 3
         /\ drill = "smoke" /\ pc = Len(Script[drill]) => pc = 19
         /\ drill = Rewriting /\ pc = Len(Script[drill]) => pc = 17
         /\ drill = Metrics /\ pc = Len(Script[drill]) => pc = 9
<1>1. drill \in Drills /\ pc \in 1 .. Len(Script[drill])
  BY DEF TypedInv, ScriptTyped
<1>2. Step.do = "verdict" => pc = Len(Script[drill])
  BY <1>1, AllBooked DEF Booked, Op, Step
<1>3. CASE drill \in Fault
  <2>1. Len(Script[drill]) = 20
    BY <1>1, <1>3, ScriptsListed DEF IsFaultDrill
  <2>2. AuditsAt(drill) = 17 /\ drill # "smoke" /\ drill # Rewriting /\ drill # Metrics
    BY <1>3 DEF AuditsAt, Fault, Rewriting, Metrics
  <2> QED BY <1>2, <2>1, <2>2
<1>4. CASE drill \in Restoring \ {"smoke"}
  <2>1. Len(Script[drill]) = 21
    BY <1>1, <1>4, ScriptsListed DEF IsRestoreDrill
  <2>2. AuditsAt(drill) = 18 /\ drill # "smoke" /\ drill # Rewriting /\ drill # Metrics
    BY <1>4 DEF AuditsAt, Fault, Restoring, Rewriting, Metrics
  <2> QED BY <1>2, <2>1, <2>2
<1>5. CASE drill = "smoke"
  <2>1. Len(Script[drill]) = 19
    BY <1>1, <1>5, ScriptsListed DEF IsSmokeDrill
  <2>2. drill \notin Audited /\ drill # Rewriting /\ drill # Metrics
    BY <1>5 DEF Audited, Fault, Restoring, Rewriting, Metrics
  <2> QED BY <1>2, <1>5, <2>1, <2>2
<1>6. CASE drill = Rewriting
  <2>1. Len(Script[drill]) = 17
    BY <1>1, <1>6, ScriptsLegal DEF Legal, Rewrites
  <2>2. drill \notin Audited /\ drill # "smoke" /\ drill # Metrics
    BY <1>6 DEF Audited, Fault, Restoring, Rewriting, Metrics
  <2> QED BY <1>2, <2>1, <2>2
<1>7. CASE drill = Metrics
  <2>1. Len(Script[drill]) = 9
    BY <1>7, MetricsPlace
  <2>2. drill \notin Audited /\ drill # "smoke" /\ drill # Rewriting
    BY <1>7 DEF Audited, Fault, Restoring, Rewriting, Metrics
  <2> QED BY <1>2, <2>1, <2>2
<1> QED BY <1>1, <1>3, <1>4, <1>5, <1>6, <1>7, ScriptsListed

\* A metrics run that passes has published everything, if it published alone.
LEMMA MetricsTell ==
  ASSUME TypedInv, MetricsInv, drill = Metrics, pc = 9, ChecksHold, Undisturbed
  PROVE  Published = Everything
<1>1. seen.zeros > 0
  BY DEF ChecksHold, Metrics
<1>2. Len(changelog) >= 3 /\ Len(binlog) = 3 /\ FirstWritesOn
      /\ \A n \in DOMAIN changelog : changelog[n].by # "restored"
  BY <1>1, MetricsPlace DEF MetricsInv
<1>3. ByFirst = DOMAIN changelog
  BY <1>2 DEF ByFirst, Undisturbed, Own
<1>4. PICK p \in 0 .. Len(binlog) : FirstWrote(p)
  BY <1>2 DEF FirstWritesOn
<1>5. Published = 1 .. p
  BY <1>3, <1>4 DEF FirstWrote, Published
<1>6. Len(changelog) <= p
  <2>1. /\ Len(changelog) \in Nat /\ Cardinality(DOMAIN changelog) = Len(changelog)
        /\ IsFiniteSet(DOMAIN changelog)
    BY LoggedIs
  <2>2. \A k \in Nat : IsFiniteSet(1 .. k) /\ Cardinality(1 .. k) = k
    BY FS_Interval
  <2>3. IsFiniteSet(1 .. p) /\ Cardinality(1 .. p) = p
    BY <1>2, <2>2
  <2>4. /\ \A n \in DOMAIN changelog : ChangeOf[n] \in 1 .. p
        /\ \A m, n \in DOMAIN changelog : ChangeOf[m] = ChangeOf[n] => m = n
    BY <1>3, <1>4 DEF FirstWrote, ChangeOf
  <2>5. Cardinality(DOMAIN changelog) <= Cardinality(1 .. p)
    BY <2>1, <2>3, <2>4, Different
  <2> QED BY <2>1, <2>3, <2>5
<1>7. p = 3
  <2>1. Len(changelog) \in Nat
    BY LoggedIs
  <2> QED BY <1>2, <1>4, <1>6, <2>1
<1> QED BY <1>2, <1>5, <1>7 DEF Everything

\* A drill that has passed and is followed tells the truth.
LEMMA PassTells == TypedInv /\ IInv /\ TruthInv /\ JudgedInv /\ Followed => PassIsTrue
<1> SUFFICES ASSUME TypedInv, IInv, TruthInv, JudgedInv, Followed, verdict = "passed", Undisturbed
             PROVE  /\ drill # "checkpoint_metrics" => current = SourceTable
                    /\ drill \notin Careless => \A i \in DOMAIN binlog : Copies(i) = 1
                    /\ drill \notin Careless \cup {"smoke"} => seen.reported
                    /\ drill = "checkpoint_metrics" => \A i \in DOMAIN binlog : Copies(i) > 0
  BY DEF PassIsTrue
<1>1. pc = Len(Script[drill]) /\ ChecksHold
  BY DEF JudgedInv
<1>2. late = {} /\ DOMAIN binlog = Everything
  BY PublishedAre DEF Undisturbed
<1>3. CASE drill \in Updating
  <2>1. Inv /\ AuditInv /\ SmokeInv
    BY <1>3, UpdatingIs DEF TruthInv
  <2>2. Alone
    BY <1>2, <2>1 DEF Inv, OnceInv, Alone
  <2>3. Settled /\ Complete /\ (drill # "smoke" => seen.reported)
    <3>1. CASE drill = "smoke"
      <4>1. pc = 19
        BY <1>1, <3>1, EndPlace
      <4> QED BY <2>1, <3>1, <4>1 DEF SmokeInv
    <3>2. CASE drill \in Audited
      <4>1. pc = AuditsAt(drill) + 3
        BY <1>1, <3>2, EndPlace
      <4>2. AuditsAt(drill) \in Nat
        BY <3>2 DEF AuditsAt
      <4>3. pc > AuditsAt(drill) /\ pc > AuditsAt(drill) + 2
        BY <4>1, <4>2
      <4> QED BY <1>2, <2>1, <3>2, <4>3 DEF AuditInv
    <3> QED BY <1>3, <3>1, <3>2 DEF Updating, Audited
  <2>4. Published = Everything
    BY <1>2, <2>3 DEF Complete
  <2>5. \A i \in DOMAIN binlog : Copies(i) = 1
    BY <1>2, <2>2, <2>4, OneEach
  <2>6. drill # "checkpoint_metrics"
    BY <1>3 DEF Updating, Fault, Restoring
  <2> QED BY <2>3, <2>5, <2>6 DEF Settled
<1>4. CASE drill = Rewriting
  <2>1. pc = 17
    BY <1>1, <1>4, EndPlace
  <2>2. Settled
    BY <1>4, <2>1 DEF TruthInv, FilesInv
  <2> QED BY <1>4, <2>2 DEF Settled, Careless, Rewriting
<1>5. CASE drill = Metrics
  <2>1. Published = Everything
    BY <1>1, <1>5, EndPlace, MetricsTell DEF TruthInv
  <2>2. \A i \in DOMAIN binlog : Copies(i) > 0
    BY <1>2, <2>1, SomeEach
  <2> QED BY <1>5, <2>2 DEF Careless, Metrics
<1>6. drill \in Updating \/ drill = Rewriting \/ drill = Metrics
  BY ScriptsListed DEF TypedInv, ScriptTyped, Updating
<1> QED BY <1>3, <1>4, <1>5, <1>6

\* Checks fail, and a restore point is missing, only in the drills known for it.
LEMMA ChecksFail ==
  ASSUME TypedInv, IInv, TruthInv, JudgedInv, verdict = "none", Conclude, ~ChecksHold
  PROVE  drill \in Careless
<1>1. SUFFICES ASSUME drill \notin Careless PROVE FALSE
  OBVIOUS
<1>2. Followed
  BY DEF JudgedInv, Followed, TypedInv, ScriptTyped
<1>3. drill = "smoke" /\ seen.table # seen.source
  <2>1. drill # "small_file_rewrite" /\ drill # "checkpoint_metrics"
    BY <1>1 DEF Careless
  <2> QED BY <2>1 DEF ChecksHold
<1>4. pc = 19
  BY <1>3, EndPlace DEF Conclude, At
<1>5. SmokeInv
  BY <1>2, <1>3 DEF TruthInv, Updating, Restoring
<1> QED BY <1>3, <1>4, <1>5 DEF SmokeInv

\* It is the drills that look for the point on disk that may not find it.
LEMMA PointMissing ==
  ASSUME TypedInv, IInv, verdict = "none", SubmitRestored, ~Readable
  PROVE  drill \in {"checkpoint_restore", "jobmanager_restart"}
<1>1. Step.do = "submit_restored"
  BY DEF SubmitRestored, At
<1>2. drill # Metrics
  BY <1>1, MetricsPlace DEF Seams
<1>3. drill \in Judged
  BY <1>2, ScriptsListed DEF TypedInv, ScriptTyped, Judged
<1>4. ScriptInv
  BY <1>3 DEF IInv
<1>5. drill \in Restoring
  BY <1>1, <1>3, <1>4, StopPlace DEF Seams
<1> QED BY <1>5 DEF Readable, Restoring

\* Every step keeps what is said of a drill that has passed,
LEMMA JudgedKept == TypedInv /\ JudgedInv /\ [Next]_vars => JudgedInv'
<1> SUFFICES ASSUME TypedInv, JudgedInv, [Next]_vars PROVE JudgedInv'
  OBVIOUS
<1>1. CASE UNCHANGED <<drill, pc, seen, verdict, cleaned>>
  BY <1>1 DEF JudgedInv, Followed, ChecksHold
<1>2. CASE Moves
  <2>1. CASE verdict' = "none"
    BY <1>2, <2>1, MovesJudge DEF JudgedInv
  <2>2. CASE verdict' = "passed" /\ Conclude /\ ChecksHold /\ UNCHANGED <<pc, seen>>
    <3>1. drill' = drill /\ cleaned' = cleaned /\ verdict = "none"
      BY <1>2, MovesJudge
    <3>2. pc = Len(Script[drill])
      BY <2>2, EndPlace DEF Conclude, At
    <3>3. ChecksHold'
      BY <2>2, <3>1 DEF ChecksHold
    <3> QED BY <2>2, <3>1, <3>2, <3>3 DEF JudgedInv
  <2> QED BY <1>2, <2>1, <2>2, MovesJudge
<1>3. CASE Ends
  <2>1. cleaned' => verdict' # "none"
    BY <1>3, EndsJudge DEF JudgedInv, Finally
  <2> QED BY <1>3, <2>1, EndsJudge DEF JudgedInv
<1>4. UNCHANGED harness => UNCHANGED <<drill, pc, seen, verdict, cleaned>>
  BY DEF harness, script, ending
<1>5. UNCHANGED vars => UNCHANGED harness
  BY DEF vars
<1> QED BY <1>1, <1>2, <1>3, <1>4, <1>5, NextIs

\* and so it does what a pass and a failure tell.
LEMMA PassKept ==
  ASSUME TypedInv, IInv, TruthInv, JudgedInv, PassIsTrue, [Next]_vars
  PROVE  PassIsTrue'
<1>1. TypedInv' /\ IInv' /\ TruthInv' /\ JudgedInv'
  BY TypedKept, NextInv, TruthKept, JudgedKept
<1>2. CASE Followed'
  <2>1. (TypedInv /\ IInv /\ TruthInv /\ JudgedInv /\ Followed => PassIsTrue)'
    BY PassTells, PTL
  <2> QED BY <1>1, <1>2, <2>1
<1>3. CASE ~Followed' /\ verdict' = "passed"
  <2>1. cleaned'
    BY <1>3 DEF Followed
  <2>2. UNCHANGED <<binlog, tables, drill, seen, verdict>>
    <3>1. CASE UNCHANGED vars
      BY <3>1 DEF vars, system, harness, script, ending
    <3>2. CASE Followed /\ SystemStep /\ UNCHANGED harness
      BY <1>3, <3>2 DEF Followed, harness, ending
    <3>3. CASE Moves
      BY <2>1, <3>3, MovesJudge DEF JudgedInv
    <3>4. CASE Ends
      BY <1>3, <3>4, EndsJudge
    <3> QED BY <3>1, <3>2, <3>3, <3>4, NextIs
  <2>3. UNCHANGED <<binlog, changelog, current, late, drill, seen, verdict>>
    BY <2>2 DEF tables
  <2>4. /\ SourceTable' = SourceTable /\ Undisturbed' = Undisturbed
        /\ \A i : Copies(i)' = Copies(i)
    BY <2>3 DEF SourceTable, RowAfter, Undisturbed, Copies
  <2> QED BY <2>3, <2>4 DEF PassIsTrue
<1>4. CASE verdict' # "passed"
  BY <1>4 DEF PassIsTrue
<1> QED BY <1>2, <1>3, <1>4

\* And it does not fail but in the ways that are known.
LEMMA AlarmKept ==
  ASSUME TypedInv, IInv, TruthInv, JudgedInv, OnlyKnownAlarms, [Next]_vars
  PROVE  OnlyKnownAlarms'
<1>1. CASE UNCHANGED <<drill, verdict, reason>>
  BY <1>1 DEF OnlyKnownAlarms
<1>2. CASE Moves
  BY <1>2, MovesJudge DEF OnlyKnownAlarms
<1>3. CASE Ends
  <2>1. CASE verdict = "none" /\ StepRaises /\ reason' = "error"
    BY <2>1 DEF OnlyKnownAlarms
  <2>2. CASE verdict = "none" /\ SubmitRestored /\ ~Readable /\ reason' = "restore_point"
    BY <1>3, <2>2, PointMissing, EndsJudge DEF OnlyKnownAlarms
  <2>3. CASE verdict = "none" /\ Conclude /\ ~ChecksHold /\ reason' = "checks"
    BY <1>3, <2>3, ChecksFail, EndsJudge DEF OnlyKnownAlarms
  <2> QED BY <1>1, <1>3, <2>1, <2>2, <2>3, EndsJudge
<1>4. UNCHANGED harness \/ UNCHANGED vars => UNCHANGED <<drill, verdict, reason>>
  BY DEF vars, harness, script, ending
<1> QED BY <1>1, <1>2, <1>3, <1>4, NextIs

\* A drill starts without a verdict.
LEMMA JudgedFirst == Init => JudgedInv /\ PassIsTrue /\ OnlyKnownAlarms
BY DEF Init, JudgedInv, PassIsTrue, OnlyKnownAlarms

\* A drill that passes tells the truth, whatever the jobs, their checkpoints and the
\* reads of the drill do around each other: the current table is the source table, every
\* change is in the changelog once, and the artifact reports what is there; and a metrics
\* run has measured a pipeline that has published everything.
THEOREM PassesAreTrue == Spec => []PassIsTrue
<1> DEFINE All == TypedInv /\ IInv /\ TruthInv /\ JudgedInv /\ PassIsTrue
<1>1. Init => All
  BY TypedFirst, InitInv, TruthFirst, JudgedFirst
<1>2. All /\ [Next]_vars => All'
  BY TypedKept, NextInv, TruthKept, JudgedKept, PassKept
<1>3. All => PassIsTrue
  OBVIOUS
<1> HIDE DEF All
<1> QED BY <1>1, <1>2, <1>3, PTL DEF Spec

\* A drill over a healthy pipeline fails only on an error of a command or a wait, on a
\* restore point that is gone, or in the two drills that do not wait for what they check.
THEOREM AlarmsAreKnown == Spec => []OnlyKnownAlarms
<1> DEFINE All == TypedInv /\ IInv /\ TruthInv /\ JudgedInv /\ OnlyKnownAlarms
<1>1. Init => All
  BY TypedFirst, InitInv, TruthFirst, JudgedFirst
<1>2. All /\ [Next]_vars => All'
  BY TypedKept, NextInv, TruthKept, JudgedKept, AlarmKept
<1>3. All => OnlyKnownAlarms
  OBVIOUS
<1> HIDE DEF All
<1> QED BY <1>1, <1>2, <1>3, PTL DEF Spec
===============================================================================
