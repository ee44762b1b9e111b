------------------------- MODULE CdcToIceberg_proofs -------------------------
(***************************************************************************)
(* Theorems about CdcToIceberg, for all values of its constants: any       *)
(* number of projection subtasks, keys, restart attempts and changes.      *)
(* What is said of the current table needs the drills' discipline, Paced;  *)
(* the run cdc_unpaced shows that it fails without.                        *)
(***************************************************************************)
EXTENDS CdcToIceberg, WellFoundedInduction, FiniteSetTheorems, TLAPS

-----------------------------------------------------------------------------
(* The last of several changes. *)

\* A non-empty set of numbers up to n has a greatest element: the last of several
\* changes is one of them.  It is where the distance to n is least.
LEMMA Greatest ==
  ASSUME NEW n \in Nat, NEW T, T \subseteq 0 .. n, T # {}
  PROVE  \E x \in T : \A y \in T : y <= x
<1> DEFINE mirror == {m \in Nat : \E x \in T : m + x = n}
<1>1. mirror # {} /\ mirror \subseteq Nat
  <2>1. PICK x \in T : TRUE
    OBVIOUS
  <2>2. n - x \in mirror
    BY <2>1
  <2> QED BY <2>2
<1>2. PICK m \in mirror : \A l \in mirror : <<l, m>> \notin OpToRel(<, Nat)
  <2> HIDE DEF mirror
  <2> QED BY <1>1, NatLessThanWellFounded, WFMin
<1>3. \A l \in mirror : ~(l < m)
  BY <1>2 DEF OpToRel
<1>4. PICK x \in T : m + x = n
  OBVIOUS
<1>5. ASSUME NEW y \in T PROVE y <= x
  <2>1. n - y \in mirror
    OBVIOUS
  <2> QED BY <1>3, <1>4, <2>1
<1> QED BY <1>5

-----------------------------------------------------------------------------
(* The inductive invariant: the protocol of checkpoints. *)

\* The barriers of the ongoing checkpoint are on their way to the writer; or it
\* has taken them all.
InFlight == ongoing # Nothing /\ ongoing.cur = Nothing
Taken == ongoing # Nothing /\ ongoing.cur # Nothing

HasBarrier(c) == \E n \in DOMAIN channel[c] : channel[c][n] = Barrier

\* Barriers are in flight in exactly the channels that have not delivered
\* theirs, one in each.
Barriers ==
  /\ ~InFlight => blocked = {}
  /\ InFlight => blocked # Channel
  /\ \A c \in Channel :
       /\ HasBarrier(c) <=> InFlight /\ c \notin blocked
       /\ \A n, m \in DOMAIN channel[c] :
            channel[c][n] = Barrier /\ channel[c][m] = Barrier => n = m

\* A job that is not running has nothing in memory; a completed checkpoint is
\* told to the listeners before the next one starts.
Phases ==
  /\ status # "RUNNING" =>
       /\ ongoing = Nothing /\ notify = {}
       /\ logBuf = {} /\ logPend = {} /\ curBuf = EmptyBatch
       /\ \A c \in Channel : channel[c] = <<>>
  /\ notify # {} => ongoing = Nothing

Positions ==
  /\ Len(binlog) <= MaxChanges /\ done.pos <= Len(binlog)
  /\ status = "RUNNING" => done.pos <= pos
  /\ ongoing # Nothing => ongoing.pos \in done.pos .. pos

Ids ==
  /\ done.id <= epoch
  /\ \A s \in Sink : maxId[s] <= done.id
  /\ \A s \in Sink \cap notify : Missing(s)
  /\ ongoing # Nothing => done.id < ongoing.id /\ ongoing.id <= epoch

\* The upsert committer holds what the last barrier flushed to it until its
\* checkpoint is complete and committed.
CurPending ==
  /\ done.cur # Nothing
  /\ curPend = IF Taken THEN ongoing.cur
               ELSE IF "current" \in notify THEN done.cur ELSE EmptyBatch

\* So does the changelog committer, and the writers hold the changes since.
LogPending ==
  status = "RUNNING" =>
    /\ logPend = IF ongoing # Nothing THEN ongoing.log
                 ELSE IF "changelog" \in notify THEN done.log ELSE {}
    /\ ongoing # Nothing => ongoing.log = done.pos + 1 .. ongoing.pos
    /\ logBuf = IF ongoing # Nothing THEN ongoing.pos + 1 .. pos
                                     ELSE done.pos + 1 .. pos

-----------------------------------------------------------------------------
(* The inductive invariant: the two tables. *)

LogShows(n) == UNION {changelog[i] : i \in DOMAIN changelog} = 1 .. n

\* Checkpoint done has files that the table's summary does not know of.
LogUncommitted == Missing("changelog") /\ done.log # {}
CurUncommitted == Missing("current") /\ done.cur # EmptyBatch

\* The changelog shows the changes up to done, or up to an earlier one that the
\* files of done continue.
LogTable ==
  /\ IF LogUncommitted
     THEN \E n \in 0 .. done.pos : LogShows(n) /\ done.log = n + 1 .. done.pos
     ELSE LogShows(done.pos)
  /\ status = "RUNNING" /\ "changelog" \notin notify => ~LogUncommitted

Shows(table, n) == \A k \in Key : table[k] = RowAfter(n, k)

\* The same of the current table.
CurTable ==
  /\ IF CurUncommitted
     THEN /\ Shows(Overlay(current, done.cur), done.pos)
          /\ \E n \in 0 .. done.pos : Shows(current, n)
     ELSE Shows(current, done.pos)
  /\ status = "RUNNING" /\ "current" \notin notify => ~CurUncommitted

\* Every change has the row it replaced as its before image.
Chained ==
  \A i \in 1 .. Len(binlog) :
    /\ binlog[i].before = RowAfter(i - 1, binlog[i].key)
    /\ binlog[i].after # binlog[i].before

\* A key has one change after the last checkpoint at most, and the table still
\* shows the row before it.
OnePerKey ==
  /\ \A i, j \in done.pos + 1 .. Len(binlog) : binlog[i].key = binlog[j].key => i = j
  /\ \A i \in done.pos + 1 .. Len(binlog) : current[binlog[i].key] = binlog[i].before

-----------------------------------------------------------------------------
(* The inductive invariant: where the rows are. *)

RecordOf(i) == [key |-> binlog[i].key, row |-> binlog[i].after]

\* The item has its channel's barrier behind it.
Ahead(c, n) == \E m \in DOMAIN channel[c] : n < m /\ channel[c][m] = Barrier

\* A batch says of a key what one of the changes from first to last says.
SaysOnly(batch, first, last) ==
  \A k \in Key : batch[k] # Untouched =>
    \E i \in first .. last : binlog[i].key = k /\ batch[k] = binlog[i].after

SaysAll(batch, first, last) ==
  \A i \in first .. last : batch[binlog[i].key] = binlog[i].after

\* The records in the channels are of changes after done; those ahead of a
\* barrier belong to the ongoing checkpoint, and only those.
InChannels ==
  \A c \in Channel : \A n \in DOMAIN channel[c] : channel[c][n] # Barrier =>
    \E i \in done.pos + 1 .. pos :
      /\ channel[c][n] = RecordOf(i)
      /\ ongoing # Nothing => (i <= ongoing.pos <=> Ahead(c, n))

\* Those the writer has taken belong to the ongoing checkpoint while its barriers
\* are in flight, and to the next one after.
InWriter ==
  SaysOnly(curBuf, IF Taken THEN ongoing.pos + 1 ELSE done.pos + 1,
           IF InFlight THEN ongoing.pos ELSE pos)

\* No change gets lost between the source and the committer.
NoneLost ==
  status = "RUNNING" =>
    \A i \in done.pos + 1 .. pos :
      \/ curBuf[binlog[i].key] = binlog[i].after
      \/ \E c \in Channel : \E n \in DOMAIN channel[c] : channel[c][n] = RecordOf(i)
      \/ Taken /\ i <= ongoing.pos

\* What the committer holds for the ongoing checkpoint is all it covers.
InCommitter ==
  Taken => /\ SaysOnly(ongoing.cur, done.pos + 1, ongoing.pos)
           /\ SaysAll(ongoing.cur, done.pos + 1, ongoing.pos)

Protocol ==
  /\ TypeOK /\ Barriers /\ Phases /\ Positions /\ Ids /\ CurPending

CurrentInv ==
  /\ CurTable /\ OnePerKey
  /\ InChannels /\ InWriter /\ NoneLost /\ InCommitter

IInv == Protocol /\ LogPending /\ LogTable /\ Chained /\ (Paced => CurrentInv)

-----------------------------------------------------------------------------
(* The source table. *)

\* After the last of its writes a key has the row that write left.
LEMMA RowAfterLast ==
  ASSUME NEW n \in Nat, NEW i \in 1 .. n,
         \A j \in i + 1 .. n : binlog[j].key # binlog[i].key
  PROVE  RowAfter(n, binlog[i].key) = binlog[i].after
<1> DEFINE writes == {j \in 1 .. n : binlog[j].key = binlog[i].key}
<1>1. i \in writes /\ \A j \in writes : j <= i
  OBVIOUS
<1>2. \A l \in writes : (\A j \in writes : j <= l) => l = i
  BY <1>1
<1>3. (CHOOSE l \in writes : \A j \in writes : j <= l) = i
  BY <1>1, <1>2
<1> QED BY <1>1, <1>3 DEF RowAfter

\* As long as nothing is written to a key it keeps its row.
LEMMA RowAfterSame ==
  ASSUME NEW m \in Nat, NEW n \in Nat, m <= n, NEW k,
         \A j \in m + 1 .. n : binlog[j].key # k
  PROVE  RowAfter(n, k) = RowAfter(m, k)
<1> DEFINE writes(l) == {j \in 1 .. l : binlog[j].key = k}
           row(S) == IF S = {} THEN 0
                     ELSE binlog[CHOOSE i \in S : \A j \in S : j <= i].after
<1>1. writes(n) = writes(m)
  <2>1. ASSUME NEW j \in writes(n) PROVE j \in writes(m)
    <3>1. j \notin m + 1 .. n
      OBVIOUS
    <3> QED BY <3>1
  <2> QED BY <2>1
<1>2. RowAfter(n, k) = row(writes(n)) /\ RowAfter(m, k) = row(writes(m))
  BY DEF RowAfter
<1> HIDE DEF writes, row
<1> QED BY <1>1, <1>2

\* Changes that come later do not alter the table as of an earlier one.
LEMMA RowAfterStable ==
  ASSUME NEW n \in Nat, n <= Len(binlog), NEW k, NEW change, NEW S,
         binlog \in Seq(S), change \in S, binlog' = Append(binlog, change)
  PROVE  RowAfter(n, k)' = RowAfter(n, k)
<1>1. \A i \in 1 .. n : binlog'[i] = binlog[i]
  OBVIOUS
<1> DEFINE before == {i \in 1 .. n : binlog[i].key = k}
           after == {i \in 1 .. n : binlog'[i].key = k}
           last(T) == CHOOSE i \in T : \A j \in T : j <= i
<1>2. after = before
  BY <1>1
<1>3. /\ RowAfter(n, k)' = IF after = {} THEN 0 ELSE binlog'[last(after)].after
      /\ RowAfter(n, k) = IF before = {} THEN 0 ELSE binlog[last(before)].after
  BY DEF RowAfter
<1>4. CASE before = {}
  BY <1>2, <1>3, <1>4
<1>5. CASE before # {}
  <2>1. \E i \in before : \A j \in before : j <= i
    <3>1. before \subseteq 0 .. n
      OBVIOUS
    <3> HIDE DEF before
    <3> QED BY <1>5, <3>1, Greatest
  <2>2. last(before) \in before
    <3> HIDE DEF before
    <3> QED BY <2>1
  <2>3. binlog'[last(before)] = binlog[last(before)]
    BY <1>1, <2>2
  <2>4. last(after) = last(before)
    <3> HIDE DEF before, after, last
    <3> QED BY <1>2
  <2> HIDE DEF before, after, last
  <2> QED BY <1>2, <1>3, <1>5, <2>3, <2>4
<1> QED BY <1>4, <1>5

\* A change has a key and two rows.
LEMMA BinlogType ==
  ASSUME binlog \in Seq([key : Key, before : Row, after : Row]),
         NEW i \in 1 .. Len(binlog)
  PROVE  binlog[i].key \in Key /\ binlog[i].before \in Row /\ binlog[i].after \in Row
<1> DEFINE Changes == [key : Key, before : Row, after : Row]
<1>1. binlog[i] \in Changes
  <2>1. binlog \in Seq(Changes)
    OBVIOUS
  <2> HIDE DEF Changes
  <2> QED BY <2>1
<1> QED BY <1>1

\* A key always has a row of its type, or none.
LEMMA RowType ==
  ASSUME binlog \in Seq([key : Key, before : Row, after : Row]),
         NEW n \in 0 .. Len(binlog), NEW k
  PROVE  RowAfter(n, k) \in Row
<1>0. ASSUME NEW i \in 1 .. Len(binlog) PROVE binlog[i].after \in Row
  BY BinlogType
<1> DEFINE writes == {i \in 1 .. n : binlog[i].key = k}
           last(T) == CHOOSE i \in T : \A j \in T : j <= i
<1>1. RowAfter(n, k) = IF writes = {} THEN 0 ELSE binlog[last(writes)].after
  BY DEF RowAfter
<1>2. CASE writes = {}
  BY <1>1, <1>2, BoundsAssumption DEF Row
<1>3. CASE writes # {}
  <2>1. n \in Nat /\ writes \subseteq 0 .. n
    OBVIOUS
  <2>2. last(writes) \in writes
    <3> HIDE DEF writes
    <3>1. \E i \in writes : \A j \in writes : j <= i
      BY <1>3, <2>1, Greatest
    <3> QED BY <3>1
  <2>3. last(writes) \in 1 .. Len(binlog)
    BY <2>2
  <2>4. \A i \in 1 .. Len(binlog) : binlog[i].after \in Row
    BY <1>0
  <2> HIDE DEF writes, last
  <2> QED BY <1>1, <1>3, <2>3, <2>4
<1> QED BY <1>2, <1>3

-----------------------------------------------------------------------------
(* Type correctness. *)

\* A batch of a sink is typed.
LEMMA BatchType ==
  /\ EmptyBatch \in Batch
  /\ \A a, b \in Batch : Overlay(a, b) \in Batch
  /\ \A a \in [Key -> Row], b \in Batch : Overlay(a, b) \in [Key -> Row]
  BY DEF EmptyBatch, Batch, Overlay

\* The round-robin partitioner deals to channels there are.
LEMMA DealtType == \A c \in Channel, n \in Nat : Dealt(c, n) \in Channel
  BY ParallelismAssumption DEF Dealt, Channel

\* The protocol of the sinks starts with nothing held.
LEMMA InitProtocol == Init => Protocol
<1> SUFFICES ASSUME Init PROVE Protocol
  OBVIOUS
<1>1. 0 \in Row /\ {} \subseteq Change /\ EmptyBatch \in Batch
  BY BatchType, BoundsAssumption DEF Row
<1>2. NoCheckpoint \in Checkpoint
  BY <1>1 DEF NoCheckpoint, Checkpoint
<1>3. TypeOK
  <2>1. /\ struck \subseteq FaultMap /\ notify \subseteq Sink \cup {"fault"}
        /\ blocked \subseteq Channel /\ logBuf \subseteq Change /\ logPend \subseteq Change
    BY DEF Init
  <2>2. /\ channel \in [Channel -> Seq(Item)] /\ current \in [Key -> Row]
        /\ maxId \in [Sink -> Nat]
    BY <1>1 DEF Init
  <2>3. /\ binlog \in Seq([key : Key, before : Row, after : Row]) /\ pos = Len(binlog)
        /\ Len(binlog) = 0 /\ changelog \in Seq(SUBSET Change)
    BY DEF Init
  <2>4. /\ armed \in Armings /\ observed \in BOOLEAN /\ turn \in Channel
        /\ curBuf \in Batch /\ curPend \in Batch /\ epoch \in Nat
        /\ ongoing \in Checkpoint \cup {Nothing} /\ done \in Checkpoint
    BY <1>1, <1>2 DEF Init
  <2>5. /\ pos \in 0 .. Len(binlog) /\ attempts \in 0 .. RestartAttempts
        /\ status \in {"RUNNING", "RESTARTING", "FAILED"}
    BY <2>3, BoundsAssumption DEF Init
  <2> QED BY <2>1, <2>2, <2>3, <2>4, <2>5 DEF TypeOK
<1>4. NoCheckpoint.cur = EmptyBatch /\ NoCheckpoint.pos = 0 /\ NoCheckpoint.id = 0
  BY DEF NoCheckpoint
<1>5. EmptyBatch # Nothing
  BY <1>1, MarkersAssumption
<1>6. Barriers /\ Phases
  BY DEF Init, Barriers, Phases, InFlight, HasBarrier
<1>7. Positions /\ Ids
  BY <1>4, BoundsAssumption DEF Init, Positions, Ids
<1>8. CurPending
  BY <1>4, <1>5 DEF Init, CurPending, Taken
<1> QED BY <1>3, <1>6, <1>7, <1>8 DEF Protocol

\* Every step keeps the types, given that a checkpoint's parts come in order: a
\* barrier is only taken of a checkpoint that is ongoing.
LEMMA TypeStep == Protocol /\ [Next]_vars => TypeOK'
<1> SUFFICES ASSUME Protocol, [Next]_vars PROVE TypeOK'
  OBVIOUS
<1> USE DEF Protocol
<1>0. /\ Len(binlog) \in Nat /\ MaxChanges \in Nat /\ 0 \in Row
      /\ Len(binlog) <= MaxChanges /\ pos \in Nat /\ pos <= Len(binlog)
  BY BoundsAssumption DEF TypeOK, Positions, Row
<1>a. /\ EmptyBatch \in Batch /\ curPend \in Batch
      /\ curBuf \in Batch /\ done.cur \in Batch
  BY BatchType DEF TypeOK, CurPending, Checkpoint
<1>b. ASSUME Fail, UNCHANGED <<armed, binlog, pos, turn, epoch, done, tables>>,
             struck' \subseteq FaultMap
      PROVE  TypeOK'
  <2>1. channel' \in [Channel -> Seq(Item)]
    BY <1>b DEF Fail
  <2>2. /\ attempts' \in 0 .. RestartAttempts
        /\ status' \in {"RUNNING", "RESTARTING", "FAILED"}
    BY <1>b, BoundsAssumption DEF Fail, TypeOK
  <2>3. /\ observed' = FALSE /\ blocked' = {} /\ curBuf' = EmptyBatch /\ logBuf' = {}
        /\ logPend' = {} /\ curPend' = EmptyBatch /\ ongoing' = Nothing /\ notify' = {}
    BY <1>b DEF Fail
  <2> QED BY <1>a, <1>b, <2>1, <2>2, <2>3 DEF TypeOK, tables
<1>1. ASSUME NEW k \in Key, NEW after \in {0, Len(binlog) + 1}, Write(k, after)
      PROVE  TypeOK'
  <2> DEFINE Changes == [key : Key, before : Row, after : Row]
             change == [key |-> k, before |-> SourceRow(k), after |-> after]
  <2>1. SourceRow(k) \in Row
    <3>1. binlog \in Seq(Changes) /\ Len(binlog) \in 0 .. Len(binlog)
      BY <1>0 DEF TypeOK
    <3> QED BY <3>1, RowType DEF SourceRow
  <2>2. after \in Row
    BY <1>0, <1>1 DEF Write, Row
  <2>3. binlog' = Append(binlog, change)
    BY <1>1 DEF Write
  <2>4. change \in Changes /\ binlog \in Seq(Changes)
    BY <2>1, <2>2 DEF TypeOK
  <2>5. binlog' \in Seq(Changes) /\ Len(binlog') = Len(binlog) + 1
    <3> HIDE DEF Changes, change
    <3> QED BY <2>3, <2>4
  <2> QED
    BY <1>0, <1>1, <2>5
    DEF Write, TypeOK, drill, stream, committers, checkpoints, job, tables
<1>2. CASE TaskCrash
  BY <1>2, <1>b DEF TaskCrash, TypeOK, FaultMap
<1>3. CASE CommitFault
  BY <1>3, <1>b DEF CommitFault, TypeOK, FaultMap
<1>4. CASE Restart
  <2>1. pos' = done.pos /\ done.pos \in 0 .. Len(binlog)
    BY <1>0, <1>4 DEF Restart, RestartPosition, Positions, TypeOK, Checkpoint, Row
  <2>2. current' \in [Key -> Row]
    <3>1. current' = IF Missing("current") THEN Overlay(current, done.cur) ELSE current
      BY <1>4 DEF Restart
    <3>2. Overlay(current, done.cur) \in [Key -> Row]
      BY <1>a, BatchType DEF TypeOK
    <3> QED BY <3>1, <3>2 DEF TypeOK
  <2>3. changelog' \in Seq(SUBSET Change)
    <3>1. done.log \in SUBSET Change
      BY DEF TypeOK, Checkpoint
    <3>2. \/ changelog' = changelog
          \/ changelog' = Append(changelog, done.log)
      BY <1>4 DEF Restart
    <3>3. changelog \in Seq(SUBSET Change)
      BY DEF TypeOK
    <3> DEFINE Files == SUBSET Change
    <3>4. done.log \in Files /\ changelog \in Seq(Files)
      BY <3>1, <3>3
    <3>5. changelog' \in Seq(Files)
      <4> HIDE DEF Files
      <4> QED BY <3>2, <3>4
    <3> QED BY <3>5
  <2>4. maxId' \in [Sink -> Nat]
    <3>1. done.id \in Nat /\ \A s \in Sink : maxId[s] \in Nat
      BY DEF TypeOK, Checkpoint
    <3>2. \A s \in Sink, files \in BOOLEAN : Summary(s, files) \in Nat
      BY <3>1 DEF Summary
    <3>3. /\ Summary("changelog", done.log # {}) \in Nat
          /\ Summary("current", done.cur # EmptyBatch) \in Nat
      BY <3>1 DEF Summary, Sink
    <3> QED BY <1>4, <3>3 DEF Restart, Sink
  <2> QED
    BY <1>4, <2>1, <2>2, <2>3, <2>4
    DEF Restart, TypeOK, drill, committers, checkpoints
<1>5. CASE Emit
  <2> DEFINE change == binlog[pos + 1]
             last == Dealt(turn, RecordsOf(change) - 1)
  <2>1. pos + 1 \in 1 .. Len(binlog) /\ pos + 1 \in Change
    BY <1>0, <1>5 DEF Emit, Change
  <2>2. change.key \in Key /\ change.after \in Row
    BY <2>1, BinlogType DEF TypeOK
  <2>3. RecordsOf(change) - 1 \in Nat
    BY DEF RecordsOf
  <2>4. last \in Channel /\ Dealt(last, 1) \in Channel
    BY <2>3, DealtType DEF TypeOK
  <2>5. [key |-> change.key, row |-> change.after] \in Item
    BY <2>2 DEF Item
  <2>6. channel' \in [Channel -> Seq(Item)]
    <3> DEFINE record == [key |-> change.key, row |-> change.after]
    <3>1. channel' = [channel EXCEPT ![last] = Append(@, record)]
      BY <1>5 DEF Emit
    <3>2. channel \in [Channel -> Seq(Item)]
      BY DEF TypeOK
    <3>3. record \in Item
      BY <2>5
    <3> HIDE DEF last, record
    <3> QED BY <2>4, <3>1, <3>2, <3>3
  <2>7. observed' \in BOOLEAN
    BY <1>5 DEF Emit
  <2>8. /\ pos' = pos + 1 /\ turn' = Dealt(last, 1) /\ logBuf' = logBuf \cup {pos + 1}
        /\ UNCHANGED <<drill, binlog, blocked, curBuf, committers, checkpoints,
                       notify, job, tables>>
    BY <1>5 DEF Emit
  <2> QED
    BY <1>0, <2>1, <2>4, <2>6, <2>7, <2>8
    DEF TypeOK, drill, committers, checkpoints, job, tables
<1>6. CASE Trigger
  <2>1. ongoing' \in Checkpoint
    BY <1>0, <1>6 DEF Trigger, TypeOK, Checkpoint, Row
  <2>2. Barrier \in Item
    BY DEF Item
  <2>3. channel' \in [Channel -> Seq(Item)]
    BY <1>6, <2>2 DEF Trigger, TypeOK
  <2>4. epoch' \in Nat /\ logPend' \subseteq Change /\ logBuf' \subseteq Change
    BY <1>6 DEF Trigger, TypeOK
  <2> QED
    BY <1>6, <2>1, <2>3, <2>4 DEF Trigger, TypeOK, drill, job, tables
<1>7. CASE CompleteCheckpoint
  BY <1>7
  DEF CompleteCheckpoint, TypeOK, drill, stream, committers, job, tables
<1>8. ASSUME NEW c \in Channel, WriteRow(c) PROVE TypeOK'
  <2>1. channel[c] \in Seq(Item) /\ channel[c] # <<>>
    BY <1>8 DEF WriteRow, TypeOK
  <2>2. Head(channel[c]) \in Item /\ Tail(channel[c]) \in Seq(Item)
    BY <2>1
  <2>3. Head(channel[c]).key \in Key /\ Head(channel[c]).row \in Row
    BY <1>8, <2>2 DEF WriteRow, Item
  <2>4. curBuf' \in Batch
    BY <1>8, <2>3 DEF WriteRow, TypeOK, Batch
  <2>5. channel' \in [Channel -> Seq(Item)]
    BY <1>8, <2>2 DEF WriteRow, TypeOK
  <2> QED
    BY <1>8, <2>4, <2>5
    DEF WriteRow, TypeOK, drill, committers, checkpoints, job, tables
<1>9. ASSUME NEW c \in Channel, TakeBarrier(c) PROVE TypeOK'
  <2> DEFINE cur == Overlay(curPend, curBuf)
  <2>1. channel[c] \in Seq(Item) /\ channel[c] # <<>> /\ channel[c][1] = Barrier
    BY <1>9 DEF TakeBarrier, TypeOK
  <2>2. Tail(channel[c]) \in Seq(Item)
    BY <2>1
  <2>3. channel' \in [Channel -> Seq(Item)]
    BY <1>9, <2>2 DEF TakeBarrier, TypeOK
  <2>4. InFlight
    BY <2>1 DEF Barriers, HasBarrier
  <2>5. cur \in Batch
    BY <1>a, BatchType
  <2>6. [ongoing EXCEPT !.cur = cur] \in Checkpoint
    BY <2>4, <2>5 DEF TypeOK, InFlight, Checkpoint
  <2>7. /\ blocked' \subseteq Channel /\ curPend' \in Batch /\ curBuf' \in Batch
        /\ ongoing' \in Checkpoint \cup {Nothing}
    BY <1>9, <1>a, <2>5, <2>6 DEF TakeBarrier, TypeOK
  <2> QED
    BY <1>9, <2>3, <2>7 DEF TakeBarrier, TypeOK, drill, job, tables
<1>10. CASE NoFault
  BY <1>10
  DEF NoFault, TypeOK, drill, stream, committers, checkpoints, job, tables
<1>11. CASE CommitChangelog
  <2>1. logPend \in SUBSET Change
    BY DEF TypeOK
  <2>2. changelog' \in Seq(SUBSET Change)
    BY <1>11, <2>1 DEF CommitChangelog, TypeOK
  <2>3. Summary("changelog", logPend # {}) \in Nat
    BY DEF Summary, TypeOK, Checkpoint, Sink
  <2>4. maxId' \in [Sink -> Nat]
    BY <1>11, <2>3 DEF CommitChangelog, TypeOK
  <2> QED
    BY <1>11, <2>2, <2>4
    DEF CommitChangelog, TypeOK, drill, stream, checkpoints, job
<1>12. CASE CommitCurrent
  <2>1. Overlay(current, curPend) \in [Key -> Row]
    BY <1>a, BatchType DEF TypeOK
  <2>2. Summary("current", curPend # EmptyBatch) \in Nat
    BY DEF Summary, TypeOK, Checkpoint, Sink
  <2>3. maxId' \in [Sink -> Nat]
    BY <1>12, <2>2 DEF CommitCurrent, TypeOK
  <2> QED
    BY <1>12, <1>a, <2>1, <2>3
    DEF CommitCurrent, TypeOK, drill, stream, checkpoints, job
<1>13. CASE UNCHANGED vars
  BY <1>13 DEF vars, TypeOK, drill, stream, committers, checkpoints, job, tables
<1> QED
  BY <1>1, <1>2, <1>3, <1>4, <1>5, <1>6, <1>7, <1>8, <1>9, <1>10, <1>11, <1>12,
     <1>13
  DEF Next, JobStep

-----------------------------------------------------------------------------
(* The checkpoint protocol. *)

\* Barriers, phases, positions, checkpoint ids and what the upsert committer
\* holds keep in step.
LEMMA ProtocolStep == Protocol /\ [Next]_vars => Protocol'
<1> DEFINE Rest == Barriers /\ Phases /\ Positions /\ Ids /\ CurPending
<1> SUFFICES ASSUME Protocol, [Next]_vars PROVE Rest'
  BY TypeStep DEF Protocol
<1>0. TypeOK /\ Rest
  BY DEF Protocol
<1>a. /\ Len(binlog) \in Nat /\ pos \in Nat /\ pos <= Len(binlog)
      /\ done.pos \in Nat /\ done.id \in Nat /\ epoch \in Nat
      /\ \A s \in Sink : maxId[s] \in Nat
      /\ ongoing # Nothing => ongoing.pos \in Nat /\ ongoing.id \in Nat
  BY <1>0, BoundsAssumption DEF TypeOK, Checkpoint, Row
<1>b. ASSUME Fail, UNCHANGED <<binlog, pos, epoch, done, tables>> PROVE Rest'
  <2>1. /\ channel' = [c \in Channel |-> <<>>] /\ blocked' = {}
        /\ ongoing' = Nothing /\ notify' = {} /\ status' # "RUNNING"
        /\ curPend' = EmptyBatch /\ curBuf' = EmptyBatch
        /\ logBuf' = {} /\ logPend' = {}
    BY <1>b DEF Fail
  <2>2. Barriers' /\ Phases'
    BY <2>1 DEF Barriers, Phases, InFlight, HasBarrier
  <2>3. Positions' /\ Ids' /\ CurPending'
    BY <1>0, <1>b, <2>1 DEF Positions, Ids, CurPending, Taken, tables, Missing
  <2> QED BY <2>2, <2>3
<1>c. ASSUME UNCHANGED <<channel, blocked, ongoing>> PROVE Barriers'
  BY <1>0, <1>c DEF Barriers, InFlight, HasBarrier
<1>1. ASSUME NEW k \in Key, NEW after \in {0, Len(binlog) + 1}, Write(k, after)
      PROVE  Rest'
  <2>1. Len(binlog') = Len(binlog) + 1
    BY <1>0, <1>1 DEF Write, TypeOK
  <2>2. /\ Len(binlog) < MaxChanges
        /\ UNCHANGED <<drill, observed, stream, committers, checkpoints, notify,
                       job, tables>>
    BY <1>1 DEF Write
  <2>3. Positions'
    BY <1>0, <1>a, <2>1, <2>2, BoundsAssumption
    DEF Positions, stream, checkpoints, job
  <2> QED
    BY <1>0, <1>c, <2>2, <2>3
    DEF Phases, Ids, Missing, CurPending, Taken, stream, committers, checkpoints, job, tables
<1>2. CASE TaskCrash
  BY <1>2, <1>b DEF TaskCrash
<1>3. CASE CommitFault
  BY <1>3, <1>b DEF CommitFault
<1>4. CASE Restart
  <2>1. /\ status # "RUNNING" /\ ongoing = Nothing /\ notify = {}
        /\ status' = "RUNNING" /\ pos' = done.pos
        /\ UNCHANGED <<binlog, channel, blocked, curBuf, logBuf, committers,
                       checkpoints, notify>>
    BY <1>0, <1>4 DEF Restart, RestartPosition, Phases
  <2>2. Ids'
    <3>1. maxId' = [changelog |-> Summary("changelog", done.log # {}),
                    current |-> Summary("current", done.cur # EmptyBatch)]
      BY <1>4 DEF Restart
    <3>2. \A s \in Sink : maxId'[s] \in {done.id, maxId[s]}
      BY <3>1 DEF Summary, Sink
    <3> QED BY <1>0, <1>a, <2>1, <3>2 DEF Ids, Missing, checkpoints
  <2>3. Positions'
    BY <1>0, <1>a, <2>1 DEF Positions, checkpoints
  <2> QED
    BY <1>0, <1>c, <2>1, <2>2, <2>3
    DEF Phases, CurPending, Taken, checkpoints, committers
<1>5. CASE Emit
  <2> DEFINE change == binlog[pos + 1]
             last == Dealt(turn, RecordsOf(change) - 1)
             record == [key |-> change.key, row |-> change.after]
  <2>1. /\ status = "RUNNING" /\ pos < Len(binlog) /\ pos' = pos + 1
        /\ channel' = [channel EXCEPT ![last] = Append(@, record)]
        /\ UNCHANGED <<binlog, blocked, curBuf, committers, checkpoints, notify,
                       job, tables>>
    BY <1>5 DEF Emit
  <2>2. record # Barrier
    <3>1. pos + 1 \in 1 .. Len(binlog)
      BY <1>a, <2>1
    <3>2. record \in [key : Key, row : Row]
      BY <1>0, <3>1, BinlogType DEF TypeOK
    <3> QED BY <3>2, MarkersAssumption
  <2>3. channel \in [Channel -> Seq(Item)]
    BY <1>0 DEF TypeOK
  <2>4. ASSUME NEW c \in Channel
        PROVE  /\ DOMAIN channel[c] \subseteq DOMAIN channel'[c]
               /\ \A n \in DOMAIN channel[c] : channel'[c][n] = channel[c][n]
               /\ \A n \in DOMAIN channel'[c] :
                    n \in DOMAIN channel[c] \/ channel'[c][n] # Barrier
    <3> HIDE DEF last, record
    <3>1. CASE c = last
      <4>1. channel'[c] = Append(channel[c], record) /\ channel[c] \in Seq(Item)
        BY <2>1, <2>3, <3>1
      <4> QED BY <2>2, <4>1
    <3>2. CASE c # last
      BY <2>1, <2>3, <3>2
    <3> QED BY <3>1, <3>2
  <2>5. Barriers'
    <3> HIDE DEF last, record
    <3>1. UNCHANGED <<blocked, ongoing>>
      BY <2>1 DEF checkpoints
    <3>2. \A c \in Channel : HasBarrier(c)' <=> HasBarrier(c)
      BY <2>4 DEF HasBarrier
    <3>3. \A c \in Channel : \A n, m \in DOMAIN channel'[c] :
            channel'[c][n] = Barrier /\ channel'[c][m] = Barrier => n = m
      BY <1>0, <2>4 DEF Barriers
    <3> QED BY <1>0, <3>1, <3>2, <3>3 DEF Barriers, InFlight
  <2>6. Positions'
    BY <1>0, <1>a, <2>1 DEF Positions, checkpoints, job
  <2> QED
    BY <1>0, <2>1, <2>5, <2>6
    DEF Phases, Ids, Missing, CurPending, Taken, committers, checkpoints, job, tables
<1>6. CASE Trigger
  <2>1. /\ status = "RUNNING" /\ ongoing = Nothing /\ notify = {}
        /\ epoch' = epoch + 1 /\ ongoing' \in Checkpoint
        /\ ongoing'.id = epoch + 1 /\ ongoing'.pos = pos /\ ongoing'.cur = Nothing
        /\ channel' = [c \in Channel |-> Append(channel[c], Barrier)]
        /\ UNCHANGED <<binlog, pos, blocked, curPend, done, notify, job, tables>>
    <3>1. pos \in Row
      BY <1>0, <1>a, BoundsAssumption DEF Positions, Row
    <3>2. ongoing' \in Checkpoint /\ ongoing'.id = epoch + 1 /\ ongoing'.pos = pos
          /\ ongoing'.cur = Nothing
      BY <1>0, <1>6, <3>1 DEF Trigger, TypeOK, Checkpoint
    <3> QED BY <1>6, <3>2 DEF Trigger
  <2>2. ongoing' # Nothing /\ InFlight' /\ ~InFlight /\ ~Taken /\ ~Taken'
    BY <2>1, MarkersAssumption DEF InFlight, Taken
  <2>3. blocked = {} /\ blocked' = {} /\ Channel # {}
    <3>1. 0 \in Channel
      BY ParallelismAssumption DEF Channel
    <3> QED BY <1>0, <2>1, <2>2, <3>1 DEF Barriers
  <2>4. ASSUME NEW c \in Channel
        PROVE  /\ HasBarrier(c)'
               /\ \A n, m \in DOMAIN channel'[c] :
                    channel'[c][n] = Barrier /\ channel'[c][m] = Barrier => n = m
    <3>1. channel[c] \in Seq(Item) /\ channel'[c] = Append(channel[c], Barrier)
      BY <1>0, <2>1 DEF TypeOK
    <3>2. \A n \in DOMAIN channel[c] : channel[c][n] # Barrier
      BY <1>0, <2>2 DEF Barriers, HasBarrier
    <3>3. /\ Len(channel[c]) + 1 \in DOMAIN channel'[c]
          /\ channel'[c][Len(channel[c]) + 1] = Barrier
      BY <3>1
    <3>4. \A n \in DOMAIN channel'[c] :
            channel'[c][n] = Barrier => n = Len(channel[c]) + 1
      BY <3>1, <3>2
    <3> QED BY <3>3, <3>4 DEF HasBarrier
  <2>5. Barriers'
    BY <2>2, <2>3, <2>4 DEF Barriers
  <2>6. Positions' /\ Ids'
    BY <1>0, <1>a, <2>1 DEF Positions, Ids, Missing, job, tables
  <2> QED
    BY <1>0, <2>1, <2>2, <2>5, <2>6 DEF Phases, CurPending, job
<1>7. CASE CompleteCheckpoint
  <2>1. /\ status = "RUNNING" /\ Taken /\ done' = ongoing /\ ongoing' = Nothing
        /\ notify' = Sink \cup {"fault"}
        /\ UNCHANGED <<drill, observed, binlog, stream, committers, epoch, job, tables>>
    BY <1>7 DEF CompleteCheckpoint, Taken
  <2>2. ~InFlight /\ ~InFlight'
    BY <2>1 DEF Taken, InFlight
  <2>3. Barriers'
    BY <1>0, <2>1, <2>2 DEF Barriers, HasBarrier, stream
  <2>4. Positions' /\ Ids'
    BY <1>0, <1>a, <2>1 DEF Positions, Ids, Missing, Taken, stream, job, tables
  <2>5. CurPending'
    BY <1>0, <2>1 DEF CurPending, Taken, committers, Sink
  <2> QED
    BY <1>0, <2>1, <2>3, <2>4, <2>5 DEF Phases, job
<1>8. ASSUME NEW c \in Channel, WriteRow(c) PROVE Rest'
  <2>1. /\ status = "RUNNING" /\ channel[c] # <<>> /\ Head(channel[c]) # Barrier
        /\ channel' = [channel EXCEPT ![c] = Tail(@)]
        /\ UNCHANGED <<drill, observed, binlog, pos, turn, blocked, logBuf, committers,
                       checkpoints, notify, job, tables>>
    BY <1>8 DEF WriteRow
  <2>2. ASSUME NEW d \in Channel
        PROVE  /\ HasBarrier(d)' <=> HasBarrier(d)
               /\ \A n, m \in DOMAIN channel'[d] :
                    channel'[d][n] = Barrier /\ channel'[d][m] = Barrier => n = m
    <3>1. CASE d # c
      BY <1>0, <2>1, <3>1 DEF TypeOK, Barriers, HasBarrier
    <3>2. CASE d = c
      <4>1. channel[d] \in Seq(Item) /\ channel'[d] = Tail(channel[d]) /\ channel[d] # <<>>
            /\ channel[d][1] # Barrier
        BY <1>0, <2>1, <3>2 DEF TypeOK
      <4>2. \A n \in DOMAIN channel'[d] :
              n + 1 \in DOMAIN channel[d] /\ channel'[d][n] = channel[d][n + 1]
        BY <4>1
      <4>3. \A n \in DOMAIN channel[d] :
              \/ n = 1
              \/ n - 1 \in DOMAIN channel'[d] /\ channel'[d][n - 1] = channel[d][n]
        <5> SUFFICES ASSUME NEW n \in DOMAIN channel[d], n # 1
                     PROVE  n - 1 \in DOMAIN channel'[d] /\ channel'[d][n - 1] = channel[d][n]
          OBVIOUS
        <5>1. Len(channel'[d]) = Len(channel[d]) - 1 /\ n \in 1 .. Len(channel[d])
          BY <4>1
        <5>2. n - 1 \in 1 .. Len(channel'[d])
          BY <5>1
        <5> QED BY <4>1, <5>1, <5>2
      <4>4. DOMAIN channel'[d] \subseteq Nat
        BY <4>1
      <4>5. HasBarrier(d)' <=> HasBarrier(d)
        <5>1. ASSUME NEW n \in DOMAIN channel'[d], channel'[d][n] = Barrier
              PROVE  HasBarrier(d)
          BY <4>2, <5>1 DEF HasBarrier
        <5>2. ASSUME NEW n \in DOMAIN channel[d], channel[d][n] = Barrier
              PROVE  \E m \in DOMAIN channel'[d] : channel'[d][m] = Barrier
          BY <4>1, <4>3, <5>2
        <5> QED BY <5>1, <5>2 DEF HasBarrier
      <4>6. ASSUME NEW n \in DOMAIN channel'[d], NEW m \in DOMAIN channel'[d],
                   channel'[d][n] = Barrier, channel'[d][m] = Barrier
            PROVE  n = m
        <5>1. n + 1 = m + 1
          BY <1>0, <4>2, <4>6 DEF Barriers
        <5> QED BY <4>4, <5>1
      <4> QED BY <4>5, <4>6
    <3> QED BY <3>1, <3>2
  <2>3. Barriers'
    BY <1>0, <2>1, <2>2 DEF Barriers, InFlight, checkpoints
  <2> QED
    BY <1>0, <2>1, <2>3
    DEF Phases, Positions, Ids, Missing, CurPending, Taken, committers, checkpoints, job, tables
<1>9. ASSUME NEW c \in Channel, TakeBarrier(c) PROVE Rest'
  <2> DEFINE cur == Overlay(curPend, curBuf)
  <2>1. /\ status = "RUNNING" /\ channel[c] # <<>> /\ Head(channel[c]) = Barrier
        /\ channel' = [channel EXCEPT ![c] = Tail(@)]
        /\ UNCHANGED <<drill, observed, binlog, pos, turn, logBuf, logPend, epoch,
                       done, notify, job, tables>>
    BY <1>9 DEF TakeBarrier
  <2>2. channel[c] \in Seq(Item) /\ channel[c][1] = Barrier /\ 1 \in DOMAIN channel[c]
    BY <1>0, <2>1 DEF TypeOK
  <2>3. InFlight /\ c \notin blocked /\ blocked \subseteq Channel
    BY <1>0, <2>2 DEF Barriers, HasBarrier, TypeOK
  <2>4. \A d \in Channel : HasBarrier(d)' <=> d \notin blocked \cup {c}
    <3>1. \A d \in Channel \ {c} : channel'[d] = channel[d]
      BY <1>0, <2>1 DEF TypeOK
    <3>2. \A n \in DOMAIN channel'[c] :
            /\ n + 1 \in DOMAIN channel[c] /\ n + 1 # 1
            /\ channel'[c][n] = channel[c][n + 1]
      BY <1>0, <2>1, <2>2 DEF TypeOK
    <3>3. ~HasBarrier(c)'
      BY <1>0, <2>2, <3>2 DEF Barriers, HasBarrier
    <3> QED BY <1>0, <2>3, <3>1, <3>3 DEF Barriers, HasBarrier
  <2>5. ASSUME NEW d \in Channel,
               NEW n \in DOMAIN channel'[d], NEW m \in DOMAIN channel'[d],
               channel'[d][n] = Barrier, channel'[d][m] = Barrier
        PROVE  n = m
    <3>1. d \notin blocked \cup {c}
      BY <2>4, <2>5 DEF HasBarrier
    <3>2. channel'[d] = channel[d]
      BY <1>0, <2>1, <3>1 DEF TypeOK
    <3> QED BY <1>0, <2>5, <3>2 DEF Barriers
  <2>6. cur \in Batch /\ cur # Nothing
    BY <1>0, BatchType, MarkersAssumption DEF TypeOK
  <2>7. CASE blocked \cup {c} = Channel
    <3>1. /\ blocked' = {} /\ curPend' = cur /\ curBuf' = EmptyBatch
          /\ ongoing' = [ongoing EXCEPT !.cur = cur]
      BY <1>9, <2>7 DEF TakeBarrier
    <3>2. /\ ongoing \in Checkpoint /\ ongoing' \in Checkpoint /\ ongoing'.cur = cur
          /\ ongoing'.pos = ongoing.pos /\ ongoing'.id = ongoing.id
      BY <1>0, <2>3, <2>6, <3>1 DEF InFlight, TypeOK, Checkpoint
    <3>3. ongoing' # Nothing /\ Taken' /\ ~InFlight'
      BY <2>6, <3>2, MarkersAssumption DEF Taken, InFlight
    <3>4. Barriers'
      BY <2>4, <2>5, <2>7, <3>1, <3>3 DEF Barriers
    <3>5. Positions' /\ Ids'
      BY <1>0, <2>1, <2>3, <3>2 DEF Positions, Ids, Missing, InFlight, job, tables
    <3>6. CurPending'
      BY <1>0, <2>1, <3>1, <3>2, <3>3 DEF CurPending
    <3> QED
      BY <1>0, <2>1, <2>3, <3>3, <3>4, <3>5, <3>6 DEF Phases, InFlight, job
  <2>8. CASE blocked \cup {c} # Channel
    <3>1. blocked' = blocked \cup {c} /\ UNCHANGED <<curPend, curBuf, ongoing>>
      BY <1>9, <2>8 DEF TakeBarrier
    <3>2. Barriers'
      BY <2>3, <2>4, <2>5, <2>8, <3>1 DEF Barriers, InFlight
    <3> QED
      BY <1>0, <2>1, <3>1, <3>2
      DEF Phases, Positions, Ids, Missing, CurPending, Taken, job, tables
  <2> QED BY <2>7, <2>8
<1>10. CASE NoFault
  <2>1. notify' \subseteq notify /\ ("current" \in notify' <=> "current" \in notify)
        /\ UNCHANGED <<binlog, stream, committers, checkpoints, job, tables>>
    BY <1>10 DEF NoFault
  <2> QED
    BY <1>0, <1>c, <2>1
    DEF Phases, Positions, Ids, Missing, CurPending, Taken, stream, committers, checkpoints,
        job, tables
<1>11. CASE CommitChangelog
  <2>1. /\ notify' = notify \ {"changelog"} /\ "changelog" \in notify
        /\ logPend' = {}
        /\ UNCHANGED <<binlog, stream, curPend, checkpoints, job, current>>
    BY <1>11 DEF CommitChangelog
  <2>2. Ids'
    <3>1. /\ \A s \in Sink : maxId'[s] \in {done.id, maxId[s]}
          /\ \A s \in Sink \cap notify' : maxId'[s] = maxId[s]
      BY <1>0, <1>11 DEF CommitChangelog, Summary, TypeOK
    <3> QED BY <1>0, <1>a, <2>1, <3>1 DEF Ids, Missing, checkpoints
  <2> QED
    BY <1>0, <1>c, <2>1, <2>2
    DEF Phases, Positions, CurPending, Taken, stream, checkpoints, job
<1>12. CASE CommitCurrent
  <2>1. /\ notify' = notify \ {"current"} /\ "current" \in notify
        /\ curPend' = EmptyBatch
        /\ UNCHANGED <<binlog, stream, logPend, checkpoints, job, changelog>>
    BY <1>12 DEF CommitCurrent
  <2>2. Ids'
    <3>1. /\ \A s \in Sink : maxId'[s] \in {done.id, maxId[s]}
          /\ \A s \in Sink \cap notify' : maxId'[s] = maxId[s]
      BY <1>0, <1>12 DEF CommitCurrent, Summary, TypeOK
    <3> QED BY <1>0, <1>a, <2>1, <3>1 DEF Ids, Missing, checkpoints
  <2>3. ongoing' = Nothing /\ CurPending'
    BY <1>0, <2>1 DEF Phases, CurPending, Taken, checkpoints
  <2> QED
    BY <1>0, <1>c, <2>1, <2>2, <2>3
    DEF Phases, Positions, stream, checkpoints, job
<1>13. CASE UNCHANGED vars
  BY <1>0, <1>c, <1>13
  DEF vars, Phases, Positions, Ids, Missing, CurPending, Taken, stream, committers,
      checkpoints, job, tables
<1> QED
  BY <1>1, <1>2, <1>3, <1>4, <1>5, <1>6, <1>7, <1>8, <1>9, <1>10, <1>11, <1>12,
     <1>13
  DEF Next, JobStep

-----------------------------------------------------------------------------
(* The changelog. *)

\* Files that follow the changes a changelog shows make it show them too.
LEMMA LogGains ==
  ASSUME NEW S, changelog \in Seq(S), NEW files \in S,
         NEW n \in Nat, NEW m \in Nat, n <= m, LogShows(n), files = n + 1 .. m,
         changelog' = Append(changelog, files)
  PROVE  LogShows(m)'
<1> DEFINE shown == UNION {changelog[i] : i \in DOMAIN changelog}
           shows == UNION {changelog'[i] : i \in DOMAIN changelog'}
<1>1. /\ DOMAIN changelog' = DOMAIN changelog \cup {Len(changelog) + 1}
      /\ \A i \in DOMAIN changelog : changelog'[i] = changelog[i]
      /\ changelog'[Len(changelog) + 1] = files
  OBVIOUS
<1>2. shows = shown \cup files
  <2>1. ASSUME NEW i \in DOMAIN changelog' PROVE changelog'[i] \subseteq shown \cup files
    BY <1>1
  <2>2. ASSUME NEW i \in DOMAIN changelog PROVE changelog[i] \subseteq shows
    BY <1>1
  <2>3. files \subseteq shows
    BY <1>1
  <2> QED BY <2>1, <2>2, <2>3
<1>3. 1 .. n \cup n + 1 .. m = 1 .. m
  OBVIOUS
<1> QED BY <1>2, <1>3 DEF LogShows

\* No step loses or repeats a change of the changelog.
LEMMA LogStep ==
  Protocol /\ LogPending /\ LogTable /\ [Next]_vars => LogPending' /\ LogTable'
<1> SUFFICES ASSUME Protocol, LogPending, LogTable, [Next]_vars
             PROVE  LogPending' /\ LogTable'
  OBVIOUS
<1>0. TypeOK /\ Phases /\ Positions /\ Ids
  BY DEF Protocol
<1>a. /\ pos \in Nat /\ done.pos \in Nat /\ done.id \in Nat
      /\ \A s \in Sink : maxId[s] \in Nat
      /\ ongoing # Nothing => ongoing.pos \in Nat /\ ongoing.id \in Nat
      /\ changelog \in Seq(SUBSET Change) /\ done.log \in SUBSET Change
      /\ logPend \in SUBSET Change
  BY <1>0, BoundsAssumption DEF TypeOK, Checkpoint, Row
<1>b. ASSUME Fail, UNCHANGED <<done, tables>> PROVE LogPending' /\ LogTable'
  BY <1>b DEF Fail, LogPending, LogTable, LogUncommitted, LogShows, Missing, tables
<1>c. ASSUME UNCHANGED <<status, done, changelog, maxId>>,
             "changelog" \in notify' <=> "changelog" \in notify
      PROVE  LogTable'
  BY <1>c DEF LogTable, LogUncommitted, LogShows, Missing
<1>d. ASSUME UNCHANGED <<status, pos, done, ongoing, logBuf, logPend>>,
             "changelog" \in notify' <=> "changelog" \in notify
      PROVE  LogPending'
  BY <1>d DEF LogPending
<1>1. ASSUME NEW k \in Key, NEW after \in {0, Len(binlog) + 1}, Write(k, after)
      PROVE  LogPending' /\ LogTable'
  BY <1>1, <1>c, <1>d DEF Write, stream, committers, checkpoints, job, tables
<1>2. CASE TaskCrash
  BY <1>2, <1>b DEF TaskCrash
<1>3. CASE CommitFault
  BY <1>3, <1>b DEF CommitFault
<1>4. CASE Restart
  <2>1. /\ status # "RUNNING" /\ ongoing = Nothing /\ notify = {}
        /\ logBuf = {} /\ logPend = {} /\ pos' = done.pos
        /\ UNCHANGED <<logBuf, logPend, done, ongoing, notify>>
    BY <1>0, <1>4 DEF Restart, RestartPosition, Phases, committers, checkpoints
  <2>2. done.pos + 1 .. done.pos = {}
    BY <1>a
  <2>3. LogPending'
    BY <2>1, <2>2 DEF LogPending
  <2>4. maxId'["changelog"] = Summary("changelog", done.log # {})
    BY <1>4 DEF Restart
  <2>5. CASE LogUncommitted
    <3>1. changelog' = Append(changelog, done.log) /\ maxId'["changelog"] = done.id
      BY <1>4, <2>4, <2>5 DEF Restart, LogUncommitted, Summary
    <3>2. LogShows(done.pos)'
      <4>1. PICK n \in 0 .. done.pos : LogShows(n) /\ done.log = n + 1 .. done.pos
        BY <2>5 DEF LogTable
      <4>2. n \in Nat /\ n <= done.pos
        BY <1>a
      <4> QED BY <1>a, <2>1, <3>1, <4>1, <4>2, LogGains
    <3>3. ~LogUncommitted'
      BY <1>a, <2>1, <3>1 DEF LogUncommitted, Missing
    <3> QED BY <2>3, <3>2, <3>3 DEF LogTable
  <2>6. CASE ~LogUncommitted
    <3>1. changelog' = changelog
      BY <1>4, <2>6 DEF Restart, LogUncommitted
    <3>2. ~LogUncommitted'
      BY <1>a, <2>1, <2>4, <2>6 DEF LogUncommitted, Missing, Summary
    <3>3. LogShows(done.pos)'
      BY <2>1, <2>6, <3>1 DEF LogTable, LogShows
    <3> QED BY <2>3, <3>2, <3>3 DEF LogTable
  <2> QED BY <2>5, <2>6
<1>5. CASE Emit
  <2>1. /\ status = "RUNNING" /\ pos' = pos + 1 /\ logBuf' = logBuf \cup {pos + 1}
        /\ UNCHANGED <<committers, checkpoints, notify, job, tables>>
    BY <1>5 DEF Emit
  <2>2. \A a \in Nat : a <= pos => (a + 1 .. pos) \cup {pos + 1} = a + 1 .. pos + 1
    BY <1>a
  <2>3. LogPending'
    BY <1>0, <1>a, <2>1, <2>2 DEF LogPending, Positions, committers, checkpoints
  <2> QED BY <1>c, <2>1, <2>3 DEF checkpoints, job, tables
<1>6. CASE Trigger
  <2>1. /\ status = "RUNNING" /\ ongoing = Nothing /\ notify = {}
        /\ ongoing' = [id |-> epoch + 1, pos |-> pos, log |-> logPend \cup logBuf,
                       cur |-> Nothing]
        /\ logPend' = logPend \cup logBuf /\ logBuf' = {}
        /\ UNCHANGED <<pos, done, notify, job, tables>>
    BY <1>6 DEF Trigger
  <2>2. ongoing' # Nothing
    <3>1. pos \in Row
      BY <1>0, <1>a, BoundsAssumption DEF Positions, TypeOK, Row
    <3>2. ongoing' \in Checkpoint
      BY <1>0, <2>1, <3>1 DEF TypeOK, Checkpoint
    <3> QED BY <3>2, MarkersAssumption
  <2>3. logPend' = done.pos + 1 .. pos /\ ongoing'.log = logPend' /\ ongoing'.pos = pos
    BY <2>1 DEF LogPending
  <2>4. pos + 1 .. pos = {}
    BY <1>a
  <2>5. LogPending'
    BY <2>1, <2>2, <2>3, <2>4 DEF LogPending
  <2> QED BY <1>c, <2>1, <2>5 DEF job, tables
<1>7. CASE CompleteCheckpoint
  <2>1. /\ status = "RUNNING" /\ ongoing # Nothing
        /\ done' = ongoing /\ ongoing' = Nothing
        /\ notify' = Sink \cup {"fault"} /\ notify = {}
        /\ UNCHANGED <<pos, logBuf, committers, job, tables>>
    BY <1>0, <1>7 DEF CompleteCheckpoint, Phases, stream
  <2>2. LogPending'
    BY <2>1 DEF LogPending, Sink, committers, job
  <2>3. /\ ~LogUncommitted /\ LogShows(done.pos)
        /\ done'.log = done.pos + 1 .. done'.pos
        /\ done.pos \in 0 .. done'.pos /\ done'.pos \in Nat
    BY <1>0, <1>a, <2>1 DEF LogTable, LogPending, Positions
  <2>4. LogShows(done.pos)' <=> LogShows(done'.pos)
    BY <2>1 DEF LogShows, tables
  <2>5. LogTable'
    <3>1. CASE done'.log = {}
      <4>1. done'.pos = done.pos
        <5>1. done'.pos \notin done.pos + 1 .. done'.pos
          BY <2>3, <3>1
        <5> QED BY <1>a, <2>3, <5>1
      <4> QED BY <2>1, <2>3, <2>4, <3>1, <4>1 DEF LogTable, LogUncommitted, Sink
    <3>2. CASE done'.log # {}
      <4>1. Missing("changelog")'
        BY <1>0, <1>a, <2>1 DEF Ids, Missing, Sink, tables
      <4>2. \A n : LogShows(n)' <=> LogShows(n)
        BY <2>1 DEF LogShows, tables
      <4> QED
        BY <2>1, <2>3, <3>2, <4>1, <4>2 DEF LogTable, LogUncommitted, Sink
    <3> QED BY <3>1, <3>2
  <2> QED BY <2>2, <2>5
<1>8. ASSUME NEW c \in Channel, WriteRow(c) PROVE LogPending' /\ LogTable'
  BY <1>8, <1>c, <1>d DEF WriteRow, committers, checkpoints, job, tables
<1>9. ASSUME NEW c \in Channel, TakeBarrier(c) PROVE LogPending' /\ LogTable'
  <2>1. UNCHANGED <<status, pos, logBuf, logPend, done, notify, changelog, maxId>>
    BY <1>9 DEF TakeBarrier, job, tables
  <2>2. \/ UNCHANGED ongoing
        \/ ongoing' = [ongoing EXCEPT !.cur = Overlay(curPend, curBuf)]
    BY <1>9 DEF TakeBarrier
  <2>3. InFlight
    BY <1>9, <1>0 DEF TakeBarrier, Protocol, Barriers, HasBarrier, TypeOK
  <2>4. ongoing \in Checkpoint /\ ongoing # Nothing
    BY <1>0, <2>3 DEF InFlight, TypeOK
  <2>5. ongoing' # Nothing /\ ongoing'.pos = ongoing.pos /\ ongoing'.log = ongoing.log
    <3>1. Overlay(curPend, curBuf) \in Batch
      BY <1>0, BatchType DEF TypeOK
    <3>2. ongoing' \in Checkpoint
      BY <2>2, <2>4, <3>1 DEF Checkpoint
    <3> QED BY <2>2, <2>4, <3>2, MarkersAssumption DEF Checkpoint
  <2>6. LogPending'
    BY <2>1, <2>4, <2>5 DEF LogPending
  <2> QED BY <1>c, <2>1, <2>6
<1>10. CASE NoFault
  BY <1>10, <1>c, <1>d DEF NoFault, stream, committers, checkpoints, job, tables
<1>11. CASE CommitChangelog
  <2>1. /\ "changelog" \in notify /\ notify' = notify \ {"changelog"}
        /\ logPend' = {} /\ status = "RUNNING" /\ ongoing = Nothing
        /\ logPend = done.log /\ Missing("changelog")
        /\ UNCHANGED <<stream, checkpoints, job>>
    BY <1>0, <1>11 DEF CommitChangelog, Phases, LogPending, Ids, Sink
  <2>2. LogPending'
    BY <2>1 DEF LogPending, stream, checkpoints, job
  <2>3. maxId'["changelog"] = Summary("changelog", done.log # {})
    BY <1>0, <1>11, <2>1 DEF CommitChangelog, TypeOK, Sink
  <2>4. ~LogUncommitted' /\ done' = done
    BY <1>a, <2>1, <2>3 DEF LogUncommitted, Missing, Summary, checkpoints
  <2>5. LogShows(done.pos)'
    <3>1. CASE done.log = {}
      BY <1>11, <2>1, <2>4, <3>1
      DEF CommitChangelog, LogTable, LogUncommitted, LogShows
    <3>2. CASE done.log # {}
      <4>1. changelog' = Append(changelog, done.log)
        BY <1>11, <2>1, <3>2 DEF CommitChangelog
      <4>2. PICK n \in 0 .. done.pos : LogShows(n) /\ done.log = n + 1 .. done.pos
        BY <2>1, <3>2 DEF LogTable, LogUncommitted
      <4>3. n \in Nat /\ n <= done.pos
        BY <1>a
      <4> QED BY <1>a, <2>4, <4>1, <4>2, <4>3, LogGains
    <3> QED BY <3>1, <3>2
  <2> QED BY <2>2, <2>4, <2>5 DEF LogTable
<1>12. CASE CommitCurrent
  <2>1. /\ UNCHANGED <<stream, logPend, checkpoints, job, changelog>>
        /\ "changelog" \in notify' <=> "changelog" \in notify
        /\ maxId'["changelog"] = maxId["changelog"]
    BY <1>0, <1>12 DEF CommitCurrent, TypeOK, Sink
  <2> QED
    BY <1>d, <2>1
    DEF LogTable, LogUncommitted, LogShows, Missing, stream, checkpoints, job
<1>13. CASE UNCHANGED vars
  BY <1>13, <1>c, <1>d DEF vars, stream, committers, checkpoints, job, tables
<1> QED
  BY <1>1, <1>2, <1>3, <1>4, <1>5, <1>6, <1>7, <1>8, <1>9, <1>10, <1>11, <1>12,
     <1>13
  DEF Next, JobStep

-----------------------------------------------------------------------------
(* The source, as changes are added. *)

\* A new change leaves the earlier ones and the cuts before it as they are.
LEMMA WriteExtends ==
  ASSUME Protocol, NEW k \in Key, NEW after \in {0, Len(binlog) + 1}, Write(k, after)
  PROVE  /\ Len(binlog') = Len(binlog) + 1
         /\ \A i \in 1 .. Len(binlog) : binlog'[i] = binlog[i]
         /\ binlog'[Len(binlog) + 1] =
              [key |-> k, before |-> SourceRow(k), after |-> after]
         /\ \A n \in 0 .. Len(binlog), j \in Key : RowAfter(n, j)' = RowAfter(n, j)
         /\ UNCHANGED <<stream, committers, checkpoints, notify, job, tables>>
<1> DEFINE change == [key |-> k, before |-> SourceRow(k), after |-> after]
           Changes == [key : Key, before : Row, after : Row]
<1>1. binlog' = Append(binlog, change)
  BY DEF Write
<1>2. binlog \in Seq(Changes)
  BY DEF Protocol, TypeOK
<1>3. change \in Changes
  <2>1. Len(binlog) + 1 \in Row /\ 0 \in Row
    BY <1>2, BoundsAssumption DEF Write, Row
  <2>2. Len(binlog) \in 0 .. Len(binlog)
    BY <1>2
  <2>3. SourceRow(k) \in Row
    BY <1>2, <2>2, RowType DEF SourceRow
  <2> QED BY <2>1, <2>3
<1> HIDE DEF Changes, change
<1>4. /\ Len(binlog') = Len(binlog) + 1
      /\ \A i \in 1 .. Len(binlog) : binlog'[i] = binlog[i]
      /\ binlog'[Len(binlog) + 1] = change
  BY <1>1, <1>2, <1>3
<1>5. \A n \in 0 .. Len(binlog), j \in Key : RowAfter(n, j)' = RowAfter(n, j)
  <2> SUFFICES ASSUME NEW n \in 0 .. Len(binlog), NEW j \in Key
               PROVE  RowAfter(n, j)' = RowAfter(n, j)
    OBVIOUS
  <2>1. n \in Nat /\ n <= Len(binlog)
    BY <1>2
  <2> QED BY <1>1, <1>2, <1>3, <2>1, RowAfterStable
<1>6. UNCHANGED <<stream, committers, checkpoints, notify, job, tables>>
  BY DEF Write
<1> QED BY <1>4, <1>5, <1>6 DEF change

\* Before images are what the source showed.
LEMMA ChainStep == Protocol /\ Chained /\ [Next]_vars => Chained'
<1> SUFFICES ASSUME Protocol, Chained, [Next]_vars PROVE Chained'
  OBVIOUS
<1>1. CASE UNCHANGED binlog
  <2>1. \A n, k : RowAfter(n, k)' = RowAfter(n, k)
    BY <1>1 DEF RowAfter
  <2> SUFFICES ASSUME NEW i \in 1 .. Len(binlog)
               PROVE  /\ binlog'[i].before = RowAfter(i - 1, binlog[i].key)'
                      /\ binlog'[i].after # binlog'[i].before
    BY <1>1 DEF Chained
  <2>2. RowAfter(i - 1, binlog[i].key)' = RowAfter(i - 1, binlog[i].key)
    BY <1>1, <2>1
  <2> QED BY <1>1, <2>2 DEF Chained
<1>2. ASSUME NEW k \in Key, NEW after \in {0, Len(binlog) + 1}, Write(k, after)
      PROVE  Chained'
  <2> SUFFICES ASSUME NEW i \in 1 .. Len(binlog')
               PROVE  /\ binlog'[i].before = RowAfter(i - 1, binlog[i].key)'
                      /\ binlog'[i].after # binlog'[i].before
    BY DEF Chained
  <2>0. Len(binlog) \in Nat /\ binlog \in Seq([key : Key, before : Row, after : Row])
    BY DEF Protocol, TypeOK
  <2>1. CASE i <= Len(binlog)
    <3>1. i \in 1 .. Len(binlog) /\ i - 1 \in 0 .. Len(binlog)
      BY <2>0, <2>1, <1>2, WriteExtends
    <3>2. binlog'[i] = binlog[i] /\ binlog[i].key \in Key
      BY <1>2, <2>0, <3>1, WriteExtends, BinlogType
    <3>3. \A j \in Key : RowAfter(i - 1, j)' = RowAfter(i - 1, j)
      BY <1>2, <3>1, WriteExtends
    <3> QED BY <3>1, <3>2, <3>3 DEF Chained
  <2>2. CASE i = Len(binlog) + 1
    <3>1. binlog'[i] = [key |-> k, before |-> SourceRow(k), after |-> after]
      BY <1>2, <2>2, WriteExtends
    <3>2. i - 1 = Len(binlog) /\ Len(binlog) \in 0 .. Len(binlog)
      BY <2>0, <2>2
    <3>3. RowAfter(i - 1, k)' = SourceRow(k)
      BY <1>2, <3>2, WriteExtends DEF SourceRow
    <3>4. after # SourceRow(k)
      BY <1>2 DEF Write
    <3> QED BY <3>1, <3>3, <3>4
  <2>3. i \in Nat /\ i <= Len(binlog) + 1
    <3>1. Len(binlog') = Len(binlog) + 1
      BY <1>2, WriteExtends
    <3> QED BY <2>0, <3>1
  <2> QED BY <2>0, <2>1, <2>2, <2>3
<1> QED
  BY <1>1, <1>2
  DEF Next, JobStep, Emit, TaskCrash, Restart, Trigger, CompleteCheckpoint, WriteRow,
      TakeBarrier, CommitFault, NoFault, CommitChangelog, CommitCurrent, vars

-----------------------------------------------------------------------------
(* The current table. *)

\* A batch with all that the changes from m + 1 to n say, each of its own key,
\* takes a table from one cut to the other.
LEMMA OverlayShows ==
  ASSUME binlog \in Seq([key : Key, before : Row, after : Row]),
         NEW m \in Nat, NEW n \in 0 .. Len(binlog), m <= n,
         NEW table, NEW batch \in Batch,
         \A i, j \in m + 1 .. n : binlog[i].key = binlog[j].key => i = j,
         Shows(table, m), SaysOnly(batch, m + 1, n), SaysAll(batch, m + 1, n)
  PROVE  Shows(Overlay(table, batch), n)
<1> SUFFICES ASSUME NEW k \in Key PROVE Overlay(table, batch)[k] = RowAfter(n, k)
  BY DEF Shows
<1>0. n \in Nat
  OBVIOUS
<1>1. CASE batch[k] = Untouched
  <2>1. ASSUME NEW i \in m + 1 .. n PROVE binlog[i].key # k
    <3>1. binlog[i].after \in Row /\ binlog[i].after = batch[binlog[i].key]
      BY BinlogType DEF SaysAll
    <3> QED BY <1>1, <3>1, MarkersAssumption
  <2>2. RowAfter(n, k) = RowAfter(m, k)
    BY <1>0, <2>1, RowAfterSame
  <2> QED BY <1>1, <2>2 DEF Overlay, Shows
<1>2. CASE batch[k] # Untouched
  <2>1. PICK i \in m + 1 .. n : binlog[i].key = k /\ batch[k] = binlog[i].after
    BY <1>2 DEF SaysOnly
  <2>2. i \in 1 .. n /\ \A j \in i + 1 .. n : j \in m + 1 .. n /\ j # i
    OBVIOUS
  <2>3. \A j \in i + 1 .. n : binlog[j].key # binlog[i].key
    BY <2>2
  <2>4. RowAfter(n, k) = batch[k]
    BY <1>0, <2>1, <2>2, <2>3, RowAfterLast
  <2> QED BY <1>2, <2>4 DEF Overlay
<1> QED BY <1>1, <1>2

\* A batch that says nothing changes nothing.
LEMMA OverlayNothing ==
  ASSUME NEW S, NEW table \in [Key -> S]
  PROVE  Overlay(table, EmptyBatch) = table
  BY DEF Overlay, EmptyBatch

\* The row a change replaced is the one at the last cut, if its key has no
\* other change since.
LEMMA BeforeIsCut ==
  ASSUME Chained, Len(binlog) \in Nat, NEW n \in Nat, NEW i \in n + 1 .. Len(binlog),
         \A j \in n + 1 .. Len(binlog) : binlog[j].key = binlog[i].key => j = i
  PROVE  binlog[i].before = RowAfter(n, binlog[i].key)
<1>1. i \in 1 .. Len(binlog) /\ i - 1 \in Nat /\ n <= i - 1
  OBVIOUS
<1>2. \A j \in n + 1 .. i - 1 : binlog[j].key # binlog[i].key
  <2>1. \A j \in n + 1 .. i - 1 : j \in n + 1 .. Len(binlog) /\ j # i
    OBVIOUS
  <2> QED BY <2>1
<1>3. RowAfter(i - 1, binlog[i].key) = RowAfter(n, binlog[i].key)
  BY <1>1, <1>2, RowAfterSame
<1> QED BY <1>1, <1>3 DEF Chained

\* Under the drills' discipline a key written now was not written since the
\* last checkpoint: the table would show the row before that change, not the
\* source's.
LEMMA PacedWrite ==
  ASSUME Paced, Protocol, Chained, OnePerKey,
         NEW k \in Key, NEW after \in {0, Len(binlog) + 1}, Write(k, after),
         NEW j \in done.pos + 1 .. Len(binlog)
  PROVE  binlog[j].key # k
<1> SUFFICES ASSUME binlog[j].key = k PROVE FALSE
  OBVIOUS
<1>0. Len(binlog) \in Nat /\ done.pos \in Nat
  BY BoundsAssumption DEF Protocol, TypeOK, Checkpoint, Row
<1>1. current[k] = SourceRow(k) /\ current[k] = binlog[j].before
  BY DEF Write, OnePerKey
<1>2. j \in 1 .. Len(binlog)
  BY <1>0
<1>3. \A i \in j + 1 .. Len(binlog) : binlog[i].key # binlog[j].key
  <2>1. \A i \in j + 1 .. Len(binlog) : i \in done.pos + 1 .. Len(binlog) /\ i # j
    BY <1>0
  <2> QED BY <2>1 DEF OnePerKey
<1>4. SourceRow(k) = binlog[j].after
  BY <1>0, <1>2, <1>3, RowAfterLast DEF SourceRow
<1> QED BY <1>1, <1>2, <1>4 DEF Chained

\* The current table keeps showing a cut that the committed checkpoints lead
\* to, and keeps the old row of every key changed since.
LEMMA TableStep ==
  ASSUME Paced, Protocol, Chained, CurrentInv, [Next]_vars
  PROVE  CurTable' /\ OnePerKey'
<1>0. TypeOK /\ Phases /\ Positions /\ Ids /\ CurPending /\ CurTable /\ OnePerKey
      /\ InCommitter
  BY DEF Protocol, CurrentInv
<1>a. /\ Len(binlog) \in Nat /\ done.pos \in 0 .. Len(binlog)
      /\ done.id \in Nat /\ maxId["current"] \in Nat
      /\ ongoing # Nothing => ongoing.pos \in Nat /\ ongoing.id \in Nat
      /\ current \in [Key -> Row] /\ done.cur \in Batch
      /\ binlog \in Seq([key : Key, before : Row, after : Row])
  <2>1. /\ binlog \in Seq([key : Key, before : Row, after : Row]) /\ Len(binlog) \in Nat
        /\ current \in [Key -> Row] /\ maxId["current"] \in Nat
    BY <1>0 DEF TypeOK, Sink
  <2>2. done.pos \in Nat /\ done.id \in Nat /\ done.cur \in Batch
    BY <1>0, BoundsAssumption DEF TypeOK, Checkpoint, Row, CurPending
  <2>3. ongoing # Nothing => ongoing.pos \in Nat /\ ongoing.id \in Nat
    BY <1>0, BoundsAssumption DEF TypeOK, Checkpoint, Row
  <2>4. done.pos <= Len(binlog)
    BY <1>0 DEF Positions
  <2> QED BY <2>1, <2>2, <2>3, <2>4
<1>b. ASSUME UNCHANGED <<binlog, done, current, maxId["current"]>>,
             \/ status' # "RUNNING"
             \/ status' = status /\ ("current" \in notify' <=> "current" \in notify)
      PROVE  CurTable' /\ OnePerKey'
  <2>1. \A n, k : RowAfter(n, k)' = RowAfter(n, k)
    BY <1>b DEF RowAfter
  <2>2. \A n : Shows(current, n)' <=> Shows(current, n)
    BY <1>b, <2>1 DEF Shows
  <2>3. Shows(Overlay(current, done.cur), done.pos)'
          <=> Shows(Overlay(current, done.cur), done.pos)
    BY <1>b, <2>1 DEF Shows, Overlay
  <2>4. CurUncommitted' <=> CurUncommitted
    BY <1>b DEF CurUncommitted, Missing
  <2>5. CurTable'
    BY <1>0, <1>b, <2>2, <2>3, <2>4 DEF CurTable
  <2> QED BY <1>0, <1>b, <2>5 DEF OnePerKey
<1>c. Missing("current") => Shows(Overlay(current, done.cur), done.pos)
  BY <1>0, <1>a, OverlayNothing DEF CurTable, CurUncommitted
<1>d. ASSUME UNCHANGED <<binlog, done>>, Shows(current', done.pos), ~CurUncommitted'
      PROVE  CurTable' /\ OnePerKey'
  <2>1. \A n, k : RowAfter(n, k)' = RowAfter(n, k)
    BY <1>d DEF RowAfter
  <2>2. CurTable'
    BY <1>d, <2>1 DEF CurTable, Shows
  <2>3. ASSUME NEW i \in done.pos + 1 .. Len(binlog)
        PROVE  current'[binlog[i].key] = binlog[i].before
    <3>1. binlog[i].key \in Key
      BY <1>a, BinlogType
    <3>2. binlog[i].before = RowAfter(done.pos, binlog[i].key)
      BY <1>0, <1>a, BeforeIsCut DEF OnePerKey
    <3> QED BY <1>d, <3>1, <3>2 DEF Shows
  <2> QED BY <1>0, <1>d, <2>2, <2>3 DEF OnePerKey
<1>1. ASSUME NEW k \in Key, NEW after \in {0, Len(binlog) + 1}, Write(k, after)
      PROVE  CurTable' /\ OnePerKey'
  <2>1. /\ UNCHANGED <<status, done, notify, current, maxId>>
        /\ Len(binlog') = Len(binlog) + 1
        /\ \A i \in 1 .. Len(binlog) : binlog'[i] = binlog[i]
        /\ binlog'[Len(binlog) + 1].key = k
        /\ binlog'[Len(binlog) + 1].before = SourceRow(k)
        /\ \A n \in 0 .. Len(binlog), j \in Key : RowAfter(n, j)' = RowAfter(n, j)
    <3>1. UNCHANGED <<status, done, notify, current, maxId>>
      BY <1>1 DEF Write, checkpoints, job, tables
    <3>2. binlog'[Len(binlog) + 1] = [key |-> k, before |-> SourceRow(k), after |-> after]
      BY <1>1, WriteExtends
    <3>3. /\ Len(binlog') = Len(binlog) + 1
          /\ \A i \in 1 .. Len(binlog) : binlog'[i] = binlog[i]
          /\ \A n \in 0 .. Len(binlog), j \in Key : RowAfter(n, j)' = RowAfter(n, j)
      BY <1>1, WriteExtends
    <3>4. /\ binlog'[Len(binlog) + 1].key = k
          /\ binlog'[Len(binlog) + 1].before = SourceRow(k)
      BY <3>2
    <3> QED BY <3>1, <3>3, <3>4
  <2>2. \A n \in 0 .. Len(binlog) : Shows(current, n)' <=> Shows(current, n)
    BY <2>1 DEF Shows
  <2>3. Shows(Overlay(current, done.cur), done.pos)'
          <=> Shows(Overlay(current, done.cur), done.pos)
    BY <1>a, <2>1 DEF Shows, Overlay
  <2>4. CurUncommitted' <=> CurUncommitted
    BY <2>1 DEF CurUncommitted, Missing
  <2>5. CurTable'
    <3>1. \A n \in 0 .. done.pos : n \in 0 .. Len(binlog)
      BY <1>a
    <3> QED BY <1>0, <1>a, <2>1, <2>2, <2>3, <2>4, <3>1 DEF CurTable
  <2>6. \A i \in done.pos + 1 .. Len(binlog) :
          /\ i \in 1 .. Len(binlog) /\ binlog'[i] = binlog[i]
          /\ binlog[i].key # k
    BY <1>0, <1>1, <1>a, <2>1, PacedWrite
  <2>7. \A i \in done.pos + 1 .. Len(binlog') :
          i \in done.pos + 1 .. Len(binlog) \/ i = Len(binlog) + 1
    BY <1>a, <2>1
  <2>8. ASSUME NEW i \in done.pos + 1 .. Len(binlog'), NEW j \in done.pos + 1 .. Len(binlog'),
               binlog'[i].key = binlog'[j].key
        PROVE  i = j
    BY <1>0, <2>1, <2>6, <2>7, <2>8 DEF OnePerKey
  <2>9. ASSUME NEW i \in done.pos + 1 .. Len(binlog')
        PROVE  current[binlog'[i].key] = binlog'[i].before
    <3>1. current[k] = SourceRow(k)
      BY <1>1 DEF Write
    <3> QED BY <1>0, <2>1, <2>6, <2>7, <3>1 DEF OnePerKey
  <2> QED BY <2>1, <2>5, <2>8, <2>9 DEF OnePerKey
<1>2. CASE TaskCrash
  BY <1>2, <1>b DEF TaskCrash, Fail, tables
<1>3. CASE CommitFault
  BY <1>3, <1>b DEF CommitFault, Fail, tables
<1>4. CASE Restart
  <2>1. /\ UNCHANGED <<binlog, done>>
        /\ current' = IF Missing("current") THEN Overlay(current, done.cur) ELSE current
        /\ maxId'["current"] = Summary("current", done.cur # EmptyBatch)
    BY <1>4 DEF Restart, checkpoints
  <2>2. Shows(current', done.pos)
    BY <1>0, <1>c, <2>1 DEF CurTable, CurUncommitted
  <2>3. ~CurUncommitted'
    BY <1>a, <2>1 DEF CurUncommitted, Missing, Summary
  <2> QED BY <1>d, <2>1, <2>2, <2>3
<1>7. CASE CompleteCheckpoint
  <2>1. /\ status = "RUNNING" /\ Taken /\ done' = ongoing /\ notify = {}
        /\ "current" \in notify' /\ UNCHANGED <<binlog, current, maxId>>
    BY <1>0, <1>7 DEF CompleteCheckpoint, Taken, Phases, Sink, tables
  <2>2. Shows(current, done.pos)
    BY <1>0, <2>1 DEF CurTable
  <2>3. /\ done'.pos \in 0 .. Len(binlog) /\ done.pos \in 0 .. done'.pos
        /\ done'.cur \in Batch
    BY <1>0, <1>a, <2>1 DEF Positions, Taken, TypeOK, Checkpoint
  <2>4. \A i, j \in done.pos + 1 .. done'.pos : binlog[i].key = binlog[j].key => i = j
    BY <1>0, <1>a, <2>3 DEF OnePerKey
  <2>5. Shows(Overlay(current, done'.cur), done'.pos)
    <3>1. done.pos \in Nat /\ done.pos <= done'.pos
      BY <1>a, <2>3
    <3>2. /\ SaysOnly(done'.cur, done.pos + 1, done'.pos)
          /\ SaysAll(done'.cur, done.pos + 1, done'.pos)
      BY <1>0, <2>1 DEF InCommitter
    <3> QED BY <1>a, <2>2, <2>3, <2>4, <3>1, <3>2, OverlayShows
  <2>6. \A n, k : RowAfter(n, k)' = RowAfter(n, k)
    BY <2>1 DEF RowAfter
  <2>7. Missing("current")'
    BY <1>0, <1>a, <2>1 DEF Missing, Ids, Taken, Sink
  <2>8. \A n : Shows(current, n)' <=> Shows(current, n)
    BY <2>1, <2>6 DEF Shows
  <2>9. Shows(Overlay(current, done.cur), done.pos)'
    BY <2>1, <2>5, <2>6 DEF Shows, Overlay
  <2>10. done'.cur = EmptyBatch => Shows(current, done.pos)'
    BY <1>a, <2>1, <2>5, <2>6, OverlayNothing DEF Shows
  <2>11. CurTable'
    <3>1. CASE done'.cur = EmptyBatch
      BY <2>1, <2>10, <3>1 DEF CurTable, CurUncommitted
    <3>2. CASE done'.cur # EmptyBatch
      BY <2>1, <2>2, <2>3, <2>7, <2>8, <2>9, <3>2 DEF CurTable, CurUncommitted
    <3> QED BY <3>1, <3>2
  <2>12. \A i \in done'.pos + 1 .. Len(binlog) : i \in done.pos + 1 .. Len(binlog)
    BY <1>a, <2>3
  <2> QED BY <1>0, <2>1, <2>11, <2>12 DEF OnePerKey
<1>12. CASE CommitCurrent
  <2>1. /\ "current" \in notify /\ UNCHANGED <<binlog, done>>
        /\ current' = Overlay(current, curPend)
        /\ maxId'["current"] = Summary("current", curPend # EmptyBatch)
    BY <1>0, <1>12 DEF CommitCurrent, checkpoints, TypeOK, Sink
  <2>2. curPend = done.cur /\ Missing("current")
    BY <1>0, <2>1 DEF Phases, CurPending, Taken, Ids, Sink
  <2>3. ~CurUncommitted'
    BY <1>a, <2>1, <2>2 DEF CurUncommitted, Missing, Summary
  <2> QED BY <1>c, <1>d, <2>1, <2>2, <2>3
<1>5. CASE Emit
  BY <1>5, <1>b DEF Emit, checkpoints, job, tables
<1>6. CASE Trigger
  BY <1>6, <1>b DEF Trigger, job, tables
<1>8. ASSUME NEW c \in Channel, WriteRow(c) PROVE CurTable' /\ OnePerKey'
  BY <1>8, <1>b DEF WriteRow, checkpoints, job, tables
<1>9. ASSUME NEW c \in Channel, TakeBarrier(c) PROVE CurTable' /\ OnePerKey'
  BY <1>9, <1>b DEF TakeBarrier, job, tables
<1>10. CASE NoFault
  BY <1>10, <1>b DEF NoFault, checkpoints, job, tables
<1>11. CASE CommitChangelog
  BY <1>0, <1>11, <1>b DEF CommitChangelog, checkpoints, job, TypeOK, Sink
<1>13. CASE UNCHANGED vars
  BY <1>13, <1>b DEF vars, checkpoints, job, tables
<1> QED
  BY <1>1, <1>2, <1>3, <1>4, <1>5, <1>6, <1>7, <1>8, <1>9, <1>10, <1>11, <1>12,
     <1>13
  DEF Next, JobStep

-----------------------------------------------------------------------------
(* The rows on their way. *)

Rows == InChannels /\ InWriter /\ NoneLost /\ InCommitter

\* When a channel's head is taken the items behind it move up, and an item has a
\* barrier behind it as before.
LEMMA HeadTaken ==
  ASSUME NEW c \in Channel, channel \in [Channel -> Seq(Item)], channel[c] # <<>>,
         channel' = [channel EXCEPT ![c] = Tail(@)]
  PROVE  /\ channel[c][1] = Head(channel[c]) /\ 1 \in DOMAIN channel[c]
         /\ \A d \in Channel : \A n \in DOMAIN channel'[d] :
              \E m \in DOMAIN channel[d] :
                /\ channel'[d][n] = channel[d][m]
                /\ Ahead(d, n)' <=> Ahead(d, m)
         /\ \A d \in Channel : \A m \in DOMAIN channel[d] :
              \/ d = c /\ m = 1
              \/ \E n \in DOMAIN channel'[d] : channel'[d][n] = channel[d][m]
<1>1. /\ channel[c] \in Seq(Item) /\ channel'[c] = Tail(channel[c])
      /\ \A d \in Channel \ {c} : channel'[d] = channel[d]
  OBVIOUS
<1>2. Len(channel[c]) \in Nat /\ Len(channel[c]) # 0
  BY <1>1
<1>3. /\ DOMAIN channel[c] = 1 .. Len(channel[c])
      /\ DOMAIN channel'[c] = 1 .. Len(channel[c]) - 1
      /\ \A n \in 1 .. Len(channel[c]) - 1 : channel'[c][n] = channel[c][n + 1]
  BY <1>1, <1>2
<1>4. channel[c][1] = Head(channel[c]) /\ 1 \in DOMAIN channel[c]
  BY <1>1, <1>2
<1>5. ASSUME NEW n \in DOMAIN channel'[c]
      PROVE  /\ n + 1 \in DOMAIN channel[c] /\ channel'[c][n] = channel[c][n + 1]
             /\ Ahead(c, n)' <=> Ahead(c, n + 1)
  <2>1. n \in Nat /\ n + 1 \in DOMAIN channel[c] /\ channel'[c][n] = channel[c][n + 1]
    BY <1>2, <1>3
  <2>2. ASSUME NEW m \in DOMAIN channel'[c], n < m, channel'[c][m] = Barrier
        PROVE  Ahead(c, n + 1)
    <3>1. m + 1 \in DOMAIN channel[c] /\ n + 1 < m + 1 /\ channel[c][m + 1] = Barrier
      BY <1>2, <1>3, <2>1, <2>2
    <3> QED BY <3>1 DEF Ahead
  <2>3. ASSUME NEW m \in DOMAIN channel[c], n + 1 < m, channel[c][m] = Barrier
        PROVE  \E l \in DOMAIN channel'[c] : n < l /\ channel'[c][l] = Barrier
    <3>1. m - 1 \in DOMAIN channel'[c] /\ n < m - 1 /\ (m - 1) + 1 = m
      BY <1>2, <1>3, <2>1, <2>3
    <3>2. channel'[c][m - 1] = Barrier
      BY <1>3, <2>3, <3>1
    <3> QED BY <3>1, <3>2
  <2> QED BY <2>1, <2>2, <2>3 DEF Ahead
<1>6. ASSUME NEW d \in Channel, d # c, NEW n \in DOMAIN channel'[d]
      PROVE  /\ n \in DOMAIN channel[d] /\ channel'[d][n] = channel[d][n]
             /\ Ahead(d, n)' <=> Ahead(d, n)
  BY <1>1, <1>6 DEF Ahead
<1>7. ASSUME NEW d \in Channel, NEW n \in DOMAIN channel'[d]
      PROVE  \E m \in DOMAIN channel[d] : /\ channel'[d][n] = channel[d][m]
                                          /\ Ahead(d, n)' <=> Ahead(d, m)
  <2>1. CASE d = c
    BY <1>5, <1>7, <2>1
  <2>2. CASE d # c
    BY <1>6, <1>7, <2>2
  <2> QED BY <2>1, <2>2
<1>8. ASSUME NEW m \in DOMAIN channel[c], m # 1
      PROVE  \E n \in DOMAIN channel'[c] : channel'[c][n] = channel[c][m]
  <2>1. m - 1 \in DOMAIN channel'[c] /\ (m - 1) + 1 = m
    BY <1>2, <1>3, <1>8
  <2>2. channel'[c][m - 1] = channel[c][m]
    BY <1>3, <2>1
  <2> QED BY <2>1, <2>2
<1>9. ASSUME NEW d \in Channel, NEW m \in DOMAIN channel[d]
      PROVE  \/ d = c /\ m = 1
             \/ \E n \in DOMAIN channel'[d] : channel'[d][n] = channel[d][m]
  BY <1>1, <1>8, <1>9
<1> QED BY <1>4, <1>7, <1>9

\* No row is lost, doubled or taken for another checkpoint's, in whatever order
\* the writer reads its channels.
LEMMA RowsStep ==
  ASSUME Protocol, OnePerKey, Rows, [Next]_vars
  PROVE  Rows'
<1>0. TypeOK /\ Barriers /\ Phases /\ Positions /\ CurPending
      /\ InChannels /\ InWriter /\ NoneLost /\ InCommitter
  BY DEF Protocol, Rows
<1>a. /\ Len(binlog) \in Nat /\ pos \in Nat /\ pos <= Len(binlog)
      /\ done.pos \in Nat /\ done.pos <= Len(binlog)
      /\ ongoing # Nothing => ongoing.pos \in Nat
      /\ channel \in [Channel -> Seq(Item)] /\ curBuf \in Batch
  <2>1. /\ Len(binlog) \in Nat /\ pos \in Nat /\ pos <= Len(binlog)
        /\ channel \in [Channel -> Seq(Item)] /\ curBuf \in Batch
    BY <1>0 DEF TypeOK
  <2>2. done.pos \in Nat /\ (ongoing # Nothing => ongoing.pos \in Nat)
    BY <1>0, BoundsAssumption DEF TypeOK, Checkpoint, Row
  <2> QED BY <1>0, <2>1, <2>2 DEF Positions
<1>b. \A k \in Key : EmptyBatch[k] = Untouched
  BY DEF EmptyBatch
<1>c. ASSUME channel' = [c \in Channel |-> <<>>], curBuf' = EmptyBatch,
             ongoing' = Nothing,
             status' = "RUNNING" => pos' = done'.pos /\ done'.pos \in Nat
      PROVE  Rows'
  BY <1>b, <1>c DEF Rows, InChannels, InWriter, NoneLost, InCommitter, SaysOnly, Taken
<1>d. ASSUME UNCHANGED <<binlog, pos, channel, curBuf, ongoing, done, status>>
      PROVE  Rows'
  BY <1>0, <1>d
  DEF Rows, InChannels, InWriter, NoneLost, InCommitter, SaysOnly, SaysAll, Taken,
      InFlight, RecordOf, Ahead
<1>e. \A i \in 1 .. Len(binlog) :
        /\ binlog[i].key \in Key /\ binlog[i].after \in Row
        /\ binlog[i].after # Untouched /\ RecordOf(i) # Barrier
  <2> SUFFICES ASSUME NEW i \in 1 .. Len(binlog)
               PROVE  /\ binlog[i].key \in Key /\ binlog[i].after \in Row
                      /\ binlog[i].after # Untouched /\ RecordOf(i) # Barrier
    OBVIOUS
  <2>1. binlog[i].key \in Key /\ binlog[i].after \in Row
    BY <1>0, BinlogType DEF TypeOK
  <2>2. RecordOf(i) \in [key : Key, row : Row]
    BY <2>1 DEF RecordOf
  <2> QED BY <2>1, <2>2, MarkersAssumption
<1>f. \A i \in done.pos + 1 .. pos : i \in 1 .. Len(binlog) /\ i \in done.pos + 1 .. Len(binlog)
  BY <1>a
<1>1. ASSUME NEW k \in Key, NEW after \in {0, Len(binlog) + 1}, Write(k, after)
      PROVE  Rows'
  <2>1. /\ \A i \in 1 .. Len(binlog) : binlog'[i] = binlog[i]
        /\ UNCHANGED <<pos, channel, curBuf, ongoing, done, status>>
    BY <1>1, WriteExtends DEF stream, checkpoints, job
  <2>2. \A i \in 1 .. Len(binlog) : RecordOf(i)' = RecordOf(i)
    BY <2>1 DEF RecordOf
  <2>3. InChannels'
    BY <1>0, <1>f, <2>1, <2>2 DEF InChannels, Ahead
  <2>4. NoneLost'
    BY <1>0, <1>f, <2>1, <2>2 DEF NoneLost, Taken
  <2>5. /\ \A i \in (IF Taken THEN ongoing.pos + 1 ELSE done.pos + 1)
                     .. (IF InFlight THEN ongoing.pos ELSE pos) : i \in 1 .. Len(binlog)
        /\ Taken => \A i \in done.pos + 1 .. ongoing.pos : i \in 1 .. Len(binlog)
    BY <1>0, <1>a DEF Positions, InFlight, Taken
  <2>6. InWriter'
    BY <1>0, <2>1, <2>5 DEF InWriter, SaysOnly, Taken, InFlight
  <2>7. InCommitter'
    BY <1>0, <2>1, <2>5 DEF InCommitter, SaysOnly, SaysAll, Taken
  <2> QED BY <2>3, <2>4, <2>6, <2>7 DEF Rows
<1>2. CASE TaskCrash
  <2>1. status' # "RUNNING" /\ ongoing' = Nothing /\ curBuf' = EmptyBatch
        /\ channel' = [c \in Channel |-> <<>>]
    BY <1>2 DEF TaskCrash, Fail
  <2> QED BY <1>c, <2>1
<1>3. CASE CommitFault
  <2>1. status' # "RUNNING" /\ ongoing' = Nothing /\ curBuf' = EmptyBatch
        /\ channel' = [c \in Channel |-> <<>>]
    BY <1>3 DEF CommitFault, Fail
  <2> QED BY <1>c, <2>1
<1>4. CASE Restart
  <2>1. /\ status # "RUNNING" /\ pos' = done.pos
        /\ UNCHANGED <<channel, curBuf, done, ongoing>>
    BY <1>4 DEF Restart, RestartPosition, checkpoints
  <2>2. channel' = [c \in Channel |-> <<>>] /\ curBuf' = EmptyBatch /\ ongoing' = Nothing
    BY <1>0, <1>a, <2>1 DEF Phases
  <2> QED BY <1>a, <1>c, <2>1, <2>2
<1>5. CASE Emit
  <2> DEFINE change == binlog[pos + 1]
             last == Dealt(turn, RecordsOf(change) - 1)
  <2>1. /\ pos < Len(binlog) /\ pos' = pos + 1
        /\ channel' = [channel EXCEPT ![last] = Append(@, RecordOf(pos + 1))]
        /\ UNCHANGED <<binlog, curBuf, ongoing, done, status>>
    BY <1>5 DEF Emit, RecordOf, checkpoints, job
  <2>2. RecordOf(pos + 1) # Barrier /\ last \in Channel
    <3>1. pos + 1 \in 1 .. Len(binlog) /\ RecordsOf(change) - 1 \in Nat
      BY <1>a, <2>1 DEF RecordsOf
    <3> QED BY <1>0, <1>e, <3>1, DealtType DEF TypeOK
  <2>3. \A i : RecordOf(i)' = RecordOf(i)
    BY <2>1 DEF RecordOf
  <2> HIDE DEF last
  <2>4. ASSUME NEW c \in Channel, NEW n \in DOMAIN channel'[c]
        PROVE  \/ /\ n \in DOMAIN channel[c] /\ channel'[c][n] = channel[c][n]
                  /\ Ahead(c, n)' <=> Ahead(c, n)
               \/ channel'[c][n] = RecordOf(pos + 1) /\ ~Ahead(c, n)'
    <3>1. CASE c # last
      BY <1>a, <2>1, <3>1 DEF Ahead
    <3>2. CASE c = last
      <4>1. channel[c] \in Seq(Item) /\ channel'[c] = Append(channel[c], RecordOf(pos + 1))
        BY <1>a, <2>1, <2>2, <3>2
      <4>2. /\ DOMAIN channel'[c] = 1 .. Len(channel[c]) + 1
            /\ \A m \in DOMAIN channel[c] : channel'[c][m] = channel[c][m]
            /\ channel'[c][Len(channel[c]) + 1] = RecordOf(pos + 1)
        BY <4>1
      <4>3. DOMAIN channel[c] = 1 .. Len(channel[c]) /\ Len(channel[c]) \in Nat
        BY <4>1
      <4>4. CASE n \in DOMAIN channel[c]
        BY <2>2, <4>2, <4>3, <4>4 DEF Ahead
      <4>5. CASE n = Len(channel[c]) + 1
        BY <4>2, <4>3, <4>5 DEF Ahead
      <4> QED BY <4>2, <4>3, <4>4, <4>5
    <3> QED BY <3>1, <3>2
  <2>5. \A c \in Channel : \A n \in DOMAIN channel[c] :
          n \in DOMAIN channel'[c] /\ channel'[c][n] = channel[c][n]
    <3> SUFFICES ASSUME NEW c \in Channel, NEW n \in DOMAIN channel[c]
                 PROVE  n \in DOMAIN channel'[c] /\ channel'[c][n] = channel[c][n]
      OBVIOUS
    <3>1. CASE c # last
      BY <1>a, <2>1, <3>1
    <3>2. CASE c = last
      <4>1. channel[c] \in Seq(Item) /\ channel'[c] = Append(channel[c], RecordOf(pos + 1))
        BY <1>a, <2>1, <2>2, <3>2
      <4> QED BY <4>1
    <3> QED BY <3>1, <3>2
  <2>6. \E n \in DOMAIN channel'[last] : channel'[last][n] = RecordOf(pos + 1)
    <3>1. channel[last] \in Seq(Item)
          /\ channel'[last] = Append(channel[last], RecordOf(pos + 1))
      BY <1>a, <2>1, <2>2
    <3>2. Len(channel[last]) + 1 \in DOMAIN channel'[last]
          /\ channel'[last][Len(channel[last]) + 1] = RecordOf(pos + 1)
      BY <3>1
    <3> QED BY <3>2
  <2>7. done.pos <= pos /\ (ongoing # Nothing => ongoing.pos <= pos)
    BY <1>0, <1>5, <1>a DEF Emit, Positions
  <2>8. InChannels'
    <3> SUFFICES ASSUME NEW c \in Channel, NEW n \in DOMAIN channel'[c],
                        channel'[c][n] # Barrier
                 PROVE  \E i \in done.pos + 1 .. pos + 1 :
                          /\ channel'[c][n] = RecordOf(i)
                          /\ ongoing # Nothing => (i <= ongoing.pos <=> Ahead(c, n)')
      BY <2>1, <2>3 DEF InChannels
    <3>1. CASE channel'[c][n] = RecordOf(pos + 1) /\ ~Ahead(c, n)'
      <4>1. pos + 1 \in done.pos + 1 .. pos + 1
        BY <1>a, <2>7
      <4>2. ongoing # Nothing => ~(pos + 1 <= ongoing.pos)
        BY <1>a, <2>7
      <4> QED BY <3>1, <4>1, <4>2
    <3>2. CASE /\ n \in DOMAIN channel[c] /\ channel'[c][n] = channel[c][n]
               /\ Ahead(c, n)' <=> Ahead(c, n)
      <4>1. PICK i \in done.pos + 1 .. pos :
              /\ channel[c][n] = RecordOf(i)
              /\ ongoing # Nothing => (i <= ongoing.pos <=> Ahead(c, n))
        BY <1>0, <3>2 DEF InChannels
      <4>2. i \in done.pos + 1 .. pos + 1
        BY <1>a, <4>1
      <4> QED BY <3>2, <4>1, <4>2
    <3> QED BY <2>4, <3>1, <3>2
  <2>9. InWriter'
    <3>1. \A i \in (IF Taken THEN ongoing.pos + 1 ELSE done.pos + 1)
                    .. (IF InFlight THEN ongoing.pos ELSE pos) :
            i \in (IF Taken THEN ongoing.pos + 1 ELSE done.pos + 1)
                    .. (IF InFlight THEN ongoing.pos ELSE pos + 1)
      BY <1>a DEF Taken, InFlight
    <3>2. (Taken' <=> Taken) /\ (InFlight' <=> InFlight)
      BY <2>1 DEF Taken, InFlight
    <3> QED BY <1>0, <2>1, <3>1, <3>2 DEF InWriter, SaysOnly
  <2>10. NoneLost'
    <3> SUFFICES ASSUME NEW i \in done.pos + 1 .. pos + 1, status = "RUNNING"
                 PROVE  \/ curBuf[binlog[i].key] = binlog[i].after
                        \/ \E c \in Channel : \E n \in DOMAIN channel'[c] :
                             channel'[c][n] = RecordOf(i)
                        \/ Taken /\ i <= ongoing.pos
      BY <2>1, <2>3 DEF NoneLost, Taken
    <3>1. CASE i = pos + 1
      BY <2>2, <2>6, <3>1
    <3>2. CASE i \in done.pos + 1 .. pos
      BY <1>0, <2>5, <3>2 DEF NoneLost
    <3> QED BY <1>a, <3>1, <3>2
  <2>11. InCommitter'
    BY <1>0, <2>1 DEF InCommitter, SaysOnly, SaysAll, Taken
  <2> QED BY <2>8, <2>9, <2>10, <2>11 DEF Rows
<1>6. CASE Trigger
  <2>1. /\ status = "RUNNING" /\ ongoing = Nothing
        /\ ongoing'.pos = pos /\ ongoing'.cur = Nothing
        /\ channel' = [c \in Channel |-> Append(channel[c], Barrier)]
        /\ UNCHANGED <<binlog, pos, curBuf, done, status>>
    BY <1>6 DEF Trigger, job
  <2>2. ~Taken /\ ~InFlight /\ ~Taken'
    BY <2>1 DEF Taken, InFlight
  <2>3. \A i : RecordOf(i)' = RecordOf(i)
    BY <2>1 DEF RecordOf
  <2>4. ASSUME NEW c \in Channel
        PROVE  /\ \A n \in DOMAIN channel[c] :
                    n \in DOMAIN channel'[c] /\ channel'[c][n] = channel[c][n]
               /\ \A n \in DOMAIN channel'[c] : channel'[c][n] # Barrier =>
                    n \in DOMAIN channel[c] /\ Ahead(c, n)'
    <3>1. channel[c] \in Seq(Item) /\ channel'[c] = Append(channel[c], Barrier)
      BY <1>a, <2>1
    <3>2. /\ DOMAIN channel'[c] = 1 .. Len(channel[c]) + 1
          /\ \A m \in DOMAIN channel[c] : channel'[c][m] = channel[c][m]
          /\ channel'[c][Len(channel[c]) + 1] = Barrier
          /\ DOMAIN channel[c] = 1 .. Len(channel[c]) /\ Len(channel[c]) \in Nat
      BY <3>1
    <3>3. \A n \in DOMAIN channel'[c] : n \in DOMAIN channel[c] \/ n = Len(channel[c]) + 1
      BY <3>2
    <3>4. \A n \in DOMAIN channel[c] :
            n < Len(channel[c]) + 1 /\ Len(channel[c]) + 1 \in DOMAIN channel'[c]
            /\ n \in DOMAIN channel'[c]
      BY <3>2
    <3> QED BY <3>2, <3>3, <3>4 DEF Ahead
  <2>5. InChannels'
    <3> SUFFICES ASSUME NEW c \in Channel, NEW n \in DOMAIN channel'[c],
                        channel'[c][n] # Barrier
                 PROVE  \E i \in done.pos + 1 .. pos :
                          /\ channel'[c][n] = RecordOf(i)
                          /\ i <= pos <=> Ahead(c, n)'
      BY <2>1, <2>3 DEF InChannels
    <3>1. n \in DOMAIN channel[c] /\ channel'[c][n] = channel[c][n] /\ Ahead(c, n)'
      BY <2>4
    <3>2. PICK i \in done.pos + 1 .. pos : channel[c][n] = RecordOf(i)
      BY <1>0, <3>1 DEF InChannels
    <3>3. i <= pos
      BY <1>a
    <3> QED BY <3>1, <3>2, <3>3
  <2>6. InWriter'
    BY <1>0, <2>1, <2>2 DEF InWriter, SaysOnly
  <2>7. NoneLost'
    BY <1>0, <2>1, <2>2, <2>3, <2>4 DEF NoneLost
  <2> QED BY <2>2, <2>5, <2>6, <2>7 DEF Rows, InCommitter
<1>8. ASSUME NEW c \in Channel, WriteRow(c) PROVE Rows'
  <2>1. /\ status = "RUNNING" /\ c \notin blocked
        /\ channel[c] # <<>> /\ Head(channel[c]) # Barrier
        /\ curBuf' = [curBuf EXCEPT ![Head(channel[c]).key] = Head(channel[c]).row]
        /\ channel' = [channel EXCEPT ![c] = Tail(@)]
        /\ UNCHANGED <<binlog, pos, ongoing, done, status>>
    BY <1>8 DEF WriteRow, ReadsUntilBarrier, checkpoints, job
  <2>2. channel[c][1] = Head(channel[c]) /\ 1 \in DOMAIN channel[c]
    BY <1>a, <2>1, HeadTaken
  <2>3. \A d \in Channel : \A n \in DOMAIN channel'[d] :
          \E m \in DOMAIN channel[d] : /\ channel'[d][n] = channel[d][m]
                                       /\ Ahead(d, n)' <=> Ahead(d, m)
    BY <1>a, <2>1, HeadTaken
  <2>4. \A d \in Channel : \A m \in DOMAIN channel[d] :
          \/ d = c /\ m = 1
          \/ \E n \in DOMAIN channel'[d] : channel'[d][n] = channel[d][m]
    BY <1>a, <2>1, HeadTaken
  <2>5. PICK i \in done.pos + 1 .. pos :
          /\ channel[c][1] = RecordOf(i)
          /\ ongoing # Nothing => (i <= ongoing.pos <=> Ahead(c, 1))
    BY <1>0, <2>1, <2>2 DEF InChannels
  <2>6. curBuf' = [curBuf EXCEPT ![binlog[i].key] = binlog[i].after]
    <3>1. Head(channel[c]) = RecordOf(i)
      BY <2>2, <2>5
    <3>2. Head(channel[c]).key = binlog[i].key /\ Head(channel[c]).row = binlog[i].after
      BY <3>1 DEF RecordOf
    <3> QED BY <2>1, <3>2
  <2>7. /\ Taken => ~(i <= ongoing.pos)
        /\ InFlight => i <= ongoing.pos
    <3>1. Taken => ~Ahead(c, 1)
      BY <1>0 DEF Taken, InFlight, Barriers, HasBarrier, Ahead
    <3>2. InFlight => Ahead(c, 1)
      <4> SUFFICES ASSUME InFlight PROVE Ahead(c, 1)
        OBVIOUS
      <4>1. PICK m \in DOMAIN channel[c] : channel[c][m] = Barrier
        BY <1>0, <2>1 DEF Barriers, HasBarrier
      <4>2. m # 1 /\ DOMAIN channel[c] = 1 .. Len(channel[c])
        BY <1>a, <2>1, <2>2, <4>1
      <4>3. 1 < m
        BY <4>1, <4>2
      <4> QED BY <4>1, <4>3 DEF Ahead
    <3> QED BY <2>5, <3>1, <3>2 DEF Taken, InFlight
  <2>8. i \in 1 .. Len(binlog) /\ binlog[i].key \in Key
    BY <1>e, <1>f
  <2>9. \A j : RecordOf(j)' = RecordOf(j)
    BY <2>1 DEF RecordOf
  <2>10. InChannels'
    <3> SUFFICES ASSUME NEW d \in Channel, NEW n \in DOMAIN channel'[d],
                        channel'[d][n] # Barrier
                 PROVE  \E j \in done.pos + 1 .. pos :
                          /\ channel'[d][n] = RecordOf(j)
                          /\ ongoing # Nothing => (j <= ongoing.pos <=> Ahead(d, n)')
      BY <2>1, <2>9 DEF InChannels
    <3> QED BY <1>0, <2>3 DEF InChannels
  <2>11. InWriter'
    <3> DEFINE first == IF Taken THEN ongoing.pos + 1 ELSE done.pos + 1
               final == IF InFlight THEN ongoing.pos ELSE pos
    <3>1. i \in first .. final
      BY <1>a, <2>5, <2>7 DEF Taken, InFlight
    <3>2. SaysOnly(curBuf, first, final)
      BY <1>0 DEF InWriter
    <3>3. (Taken' <=> Taken) /\ (InFlight' <=> InFlight)
      BY <2>1 DEF Taken, InFlight
    <3> SUFFICES SaysOnly(curBuf, first, final)'
      BY <2>1, <3>3 DEF InWriter
    <3> HIDE DEF first, final
    <3>4. first' = first /\ final' = final
      BY <2>1, <3>3 DEF first, final
    <3> SUFFICES ASSUME NEW k \in Key, curBuf'[k] # Untouched
                 PROVE  \E j \in first .. final :
                          binlog[j].key = k /\ curBuf'[k] = binlog[j].after
      BY <2>1, <3>4 DEF SaysOnly
    <3>5. CASE k = binlog[i].key
      <4>1. curBuf'[k] = binlog[i].after
        BY <1>a, <2>6, <2>8, <3>5 DEF Batch
      <4> QED BY <3>1, <3>5, <4>1
    <3>6. CASE k # binlog[i].key
      <4>1. curBuf'[k] = curBuf[k]
        BY <1>a, <2>6, <3>6 DEF Batch
      <4> QED BY <3>2, <4>1 DEF SaysOnly
    <3> QED BY <3>5, <3>6
  <2>12. NoneLost'
    <3> SUFFICES ASSUME NEW j \in done.pos + 1 .. pos
                 PROVE  \/ curBuf'[binlog[j].key] = binlog[j].after
                        \/ \E d \in Channel : \E n \in DOMAIN channel'[d] :
                             channel'[d][n] = RecordOf(j)
                        \/ Taken /\ j <= ongoing.pos
      BY <2>1, <2>9 DEF NoneLost, Taken
    <3>1. binlog[j].key \in Key
      BY <1>e, <1>f
    <3>2. CASE curBuf[binlog[j].key] = binlog[j].after
      <4>1. CASE binlog[j].key = binlog[i].key
        <5>1. j = i
          BY <1>f, <4>1 DEF OnePerKey
        <5> QED BY <1>a, <2>6, <2>8, <5>1 DEF Batch
      <4>2. CASE binlog[j].key # binlog[i].key
        BY <1>a, <2>6, <3>1, <3>2, <4>2 DEF Batch
      <4> QED BY <4>1, <4>2
    <3>3. ASSUME NEW d \in Channel, NEW m \in DOMAIN channel[d], channel[d][m] = RecordOf(j)
          PROVE  \/ curBuf'[binlog[j].key] = binlog[j].after
                 \/ \E n \in DOMAIN channel'[d] : channel'[d][n] = RecordOf(j)
      <4>1. CASE d = c /\ m = 1
        <5>1. RecordOf(j) = RecordOf(i)
          BY <2>5, <3>3, <4>1
        <5>2. binlog[j].key = binlog[i].key /\ binlog[j].after = binlog[i].after
          BY <5>1 DEF RecordOf
        <5> QED BY <1>a, <2>6, <2>8, <5>2 DEF Batch
      <4> QED BY <2>4, <3>3, <4>1
    <3> QED BY <1>0, <2>1, <3>2, <3>3 DEF NoneLost
  <2>13. InCommitter'
    BY <1>0, <2>1 DEF InCommitter, SaysOnly, SaysAll, Taken
  <2> QED BY <2>10, <2>11, <2>12, <2>13 DEF Rows
<1>7. CASE CompleteCheckpoint
  <2>1. /\ Taken /\ done' = ongoing /\ ongoing' = Nothing
        /\ UNCHANGED <<binlog, pos, channel, curBuf, status>>
    BY <1>7 DEF CompleteCheckpoint, Taken, stream, job
  <2>2. ~InFlight /\ ~Taken' /\ ~InFlight'
    BY <2>1 DEF Taken, InFlight
  <2>3. ongoing.pos \in done.pos .. pos
    BY <1>0, <2>1 DEF Positions, Taken
  <2>4. \A c \in Channel : \A n \in DOMAIN channel[c] : ~Ahead(c, n)
    BY <1>0, <2>2 DEF Barriers, HasBarrier, Ahead
  <2>5. \A i : RecordOf(i)' = RecordOf(i)
    BY <2>1 DEF RecordOf
  <2>6. InChannels'
    <3> SUFFICES ASSUME NEW c \in Channel, NEW n \in DOMAIN channel[c],
                        channel[c][n] # Barrier
                 PROVE  \E i \in done'.pos + 1 .. pos : channel[c][n] = RecordOf(i)
      BY <2>1, <2>5 DEF InChannels
    <3>1. PICK i \in done.pos + 1 .. pos :
            channel[c][n] = RecordOf(i) /\ ~(i <= ongoing.pos)
      BY <1>0, <2>1, <2>4 DEF InChannels, Taken
    <3>2. i \in done'.pos + 1 .. pos
      BY <1>a, <2>1, <2>3, <3>1
    <3> QED BY <3>1, <3>2
  <2>7. InWriter'
    BY <1>0, <2>1, <2>2 DEF InWriter, SaysOnly
  <2>8. NoneLost'
    <3>1. \A i \in done'.pos + 1 .. pos : i \in done.pos + 1 .. pos /\ ~(i <= ongoing.pos)
      BY <1>a, <2>1, <2>3
    <3> QED BY <1>0, <2>1, <2>5, <3>1 DEF NoneLost
  <2> QED BY <2>2, <2>6, <2>7, <2>8 DEF Rows, InCommitter
<1>9. ASSUME NEW c \in Channel, TakeBarrier(c) PROVE Rows'
  <2> DEFINE cur == Overlay(curPend, curBuf)
  <2>1. /\ status = "RUNNING" /\ channel[c] # <<>> /\ Head(channel[c]) = Barrier
        /\ channel' = [channel EXCEPT ![c] = Tail(@)]
        /\ UNCHANGED <<binlog, pos, done, status>>
    BY <1>9 DEF TakeBarrier, job
  <2>2. channel[c][1] = Barrier /\ 1 \in DOMAIN channel[c]
    BY <1>a, <2>1, HeadTaken
  <2>3. \A d \in Channel : \A n \in DOMAIN channel'[d] :
          \E m \in DOMAIN channel[d] : /\ channel'[d][n] = channel[d][m]
                                       /\ Ahead(d, n)' <=> Ahead(d, m)
    BY <1>a, <2>1, HeadTaken
  <2>4. \A d \in Channel : \A m \in DOMAIN channel[d] :
          \/ d = c /\ m = 1
          \/ \E n \in DOMAIN channel'[d] : channel'[d][n] = channel[d][m]
    BY <1>a, <2>1, HeadTaken
  <2>5. InFlight /\ ~Taken /\ c \notin blocked
    BY <1>0, <2>2 DEF Barriers, HasBarrier, InFlight, Taken
  <2>6. \A i : RecordOf(i)' = RecordOf(i)
    BY <2>1 DEF RecordOf
  <2>7. ASSUME NEW i \in done.pos + 1 .. pos, NEW d \in Channel,
               NEW m \in DOMAIN channel[d], channel[d][m] = RecordOf(i)
        PROVE  \E n \in DOMAIN channel'[d] : channel'[d][n] = RecordOf(i)
    <3>1. channel[d][m] # Barrier
      BY <1>e, <1>f, <2>7
    <3> QED BY <2>2, <2>4, <2>7, <3>1
  <2>8. ASSUME ongoing'.pos = ongoing.pos, ongoing' # Nothing PROVE InChannels'
    <3> SUFFICES ASSUME NEW d \in Channel, NEW n \in DOMAIN channel'[d],
                        channel'[d][n] # Barrier
                 PROVE  \E j \in done.pos + 1 .. pos :
                          /\ channel'[d][n] = RecordOf(j)
                          /\ j <= ongoing.pos <=> Ahead(d, n)'
      BY <2>1, <2>6, <2>8 DEF InChannels
    <3> QED BY <1>0, <2>3, <2>5 DEF InChannels, InFlight
  <2>9. CASE blocked \cup {c} # Channel
    <3>1. UNCHANGED <<curBuf, ongoing>>
      BY <1>9, <2>9 DEF TakeBarrier
    <3>2. InChannels'
      BY <2>5, <2>8, <3>1 DEF InFlight
    <3>3. (Taken' <=> Taken) /\ (InFlight' <=> InFlight)
      BY <3>1 DEF Taken, InFlight
    <3>4. InWriter'
      BY <1>0, <2>1, <3>1, <3>3 DEF InWriter, SaysOnly
    <3>5. NoneLost'
      <4> SUFFICES ASSUME NEW i \in done.pos + 1 .. pos
                   PROVE  \/ curBuf[binlog[i].key] = binlog[i].after
                          \/ \E d \in Channel : \E n \in DOMAIN channel'[d] :
                               channel'[d][n] = RecordOf(i)
        BY <2>1, <2>6, <3>1 DEF NoneLost
      <4> QED BY <1>0, <2>1, <2>5, <2>7 DEF NoneLost
    <3> QED BY <2>5, <3>2, <3>3, <3>4, <3>5 DEF Rows, InCommitter
  <2>10. CASE blocked \cup {c} = Channel
    <3>1. curBuf' = EmptyBatch /\ ongoing' = [ongoing EXCEPT !.cur = cur]
      BY <1>9, <2>10 DEF TakeBarrier
    <3>2. curPend = EmptyBatch
      BY <1>0, <2>5 DEF CurPending, Phases, InFlight
    <3>3. cur = curBuf /\ cur # Nothing
      <4>1. cur = curBuf
        BY <1>a, <3>2 DEF Overlay, EmptyBatch, Batch
      <4> QED BY <1>a, <4>1, MarkersAssumption
    <3>4. /\ ongoing'.pos = ongoing.pos /\ ongoing'.cur = curBuf
          /\ ongoing' # Nothing /\ Taken'
      <4>1. ongoing \in Checkpoint
        BY <1>0, <2>5 DEF TypeOK, InFlight
      <4>2. ongoing' = [ongoing EXCEPT !.cur = curBuf]
        BY <3>1, <3>3
      <4>3. ongoing'.pos = ongoing.pos /\ ongoing'.cur = curBuf /\ ongoing' \in Checkpoint
        BY <1>a, <4>1, <4>2 DEF Checkpoint
      <4> QED BY <3>3, <4>3, MarkersAssumption DEF Taken
    <3>5. SaysOnly(curBuf, done.pos + 1, ongoing.pos)
      BY <1>0, <2>5 DEF InWriter
    <3>6. ongoing.pos \in done.pos .. pos
      BY <1>0, <2>5 DEF Positions, InFlight
    <3>7. \A i \in done.pos + 1 .. ongoing.pos : i \in done.pos + 1 .. pos
      BY <1>a, <3>6
    <3>8. \A d \in Channel : \A m \in DOMAIN channel[d] : ~Ahead(d, m)
      <4> SUFFICES ASSUME NEW d \in Channel, NEW m \in DOMAIN channel[d],
                          NEW l \in DOMAIN channel[d], m < l, channel[d][l] = Barrier
                   PROVE  FALSE
        BY DEF Ahead
      <4>1. d = c
        BY <1>0, <2>10 DEF Barriers, HasBarrier
      <4>2. l = 1
        BY <1>0, <2>2, <4>1 DEF Barriers
      <4>3. m \in Nat /\ 1 <= m
        BY <1>a
      <4> QED BY <4>2, <4>3
    <3>9. SaysAll(curBuf, done.pos + 1, ongoing.pos)
      <4> SUFFICES ASSUME NEW i \in done.pos + 1 .. ongoing.pos
                   PROVE  curBuf[binlog[i].key] = binlog[i].after
        BY DEF SaysAll
      <4>1. ASSUME NEW d \in Channel, NEW m \in DOMAIN channel[d], channel[d][m] = RecordOf(i)
            PROVE  FALSE
        <5>1. channel[d][m] # Barrier
          BY <1>e, <1>f, <3>7, <4>1
        <5>2. PICK j \in done.pos + 1 .. pos :
                channel[d][m] = RecordOf(j) /\ ~(j <= ongoing.pos)
          BY <1>0, <2>5, <3>8, <5>1 DEF InChannels, InFlight
        <5>3. binlog[j].key = binlog[i].key
          BY <4>1, <5>2 DEF RecordOf
        <5>4. j = i
          BY <1>f, <3>7, <5>3 DEF OnePerKey
        <5> QED BY <1>a, <3>6, <5>2, <5>4
      <4> QED BY <1>0, <2>1, <2>5, <3>7, <4>1 DEF NoneLost
    <3>10. InChannels'
      BY <2>8, <3>4
    <3>11. InWriter'
      BY <1>b, <3>1 DEF InWriter, SaysOnly
    <3>12. NoneLost'
      <4> SUFFICES ASSUME NEW i \in done.pos + 1 .. pos
                   PROVE  \/ \E d \in Channel : \E n \in DOMAIN channel'[d] :
                               channel'[d][n] = RecordOf(i)
                          \/ i <= ongoing.pos
        BY <2>1, <2>6, <3>4 DEF NoneLost
      <4>1. CASE curBuf[binlog[i].key] = binlog[i].after
        <5>1. curBuf[binlog[i].key] # Untouched /\ binlog[i].key \in Key
          BY <1>e, <1>f, <4>1
        <5>2. PICK j \in done.pos + 1 .. ongoing.pos : binlog[j].key = binlog[i].key
          BY <3>5, <5>1 DEF SaysOnly
        <5>3. j = i
          BY <1>f, <3>7, <5>2 DEF OnePerKey
        <5> QED BY <1>a, <3>6, <5>2, <5>3
      <4> QED BY <1>0, <2>1, <2>5, <2>7, <4>1 DEF NoneLost
    <3>13. InCommitter'
      BY <2>1, <3>4, <3>5, <3>9 DEF InCommitter, SaysOnly, SaysAll
    <3> QED BY <3>10, <3>11, <3>12, <3>13 DEF Rows
  <2> QED BY <2>9, <2>10
<1>10. CASE NoFault
  BY <1>10, <1>d DEF NoFault, stream, checkpoints, job
<1>11. CASE CommitChangelog
  BY <1>11, <1>d DEF CommitChangelog, stream, checkpoints, job
<1>12. CASE CommitCurrent
  BY <1>12, <1>d DEF CommitCurrent, stream, checkpoints, job
<1>13. CASE UNCHANGED vars
  BY <1>13, <1>d DEF vars, stream, checkpoints, job
<1> QED
  BY <1>1, <1>2, <1>3, <1>4, <1>5, <1>6, <1>7, <1>8, <1>9, <1>10, <1>11, <1>12,
     <1>13
  DEF Next, JobStep

-----------------------------------------------------------------------------
(* The inductive invariant. *)

\* A job that has done nothing is in step: no change, no checkpoint, no row.
LEMMA InitHolds == Init => IInv
<1> SUFFICES ASSUME Init PROVE IInv
  OBVIOUS
<1>1. Protocol
  BY InitProtocol
<1>2. /\ binlog = <<>> /\ Len(binlog) = 0 /\ pos = 0 /\ status = "RUNNING"
      /\ channel = [c \in Channel |-> <<>>] /\ curBuf = EmptyBatch
      /\ ongoing = Nothing /\ notify = {} /\ logBuf = {} /\ logPend = {}
      /\ done.id = 0 /\ done.pos = 0 /\ done.log = {} /\ done.cur = EmptyBatch
      /\ changelog = <<>> /\ current = [k \in Key |-> 0] /\ maxId = [s \in Sink |-> 0]
  BY DEF Init, NoCheckpoint
<1>3. 0 + 1 .. 0 = {} /\ 1 .. 0 = {}
  OBVIOUS
<1>4. \A s \in Sink : ~Missing(s)
  BY <1>2 DEF Missing
<1>5. LogPending
  BY <1>2, <1>3 DEF LogPending
<1>6. LogTable
  <2>1. LogShows(0)
    BY <1>2, <1>3 DEF LogShows
  <2> QED BY <1>2, <1>4, <2>1 DEF LogTable, LogUncommitted, Sink
<1>7. Chained
  BY <1>2 DEF Chained
<1>8. CurTable
  <2>1. \A k : RowAfter(0, k) = 0
    BY DEF RowAfter
  <2> QED BY <1>2, <2>1 DEF CurTable, CurUncommitted, Shows
<1>9. OnePerKey
  BY <1>2, <1>3 DEF OnePerKey
<1>10. InChannels /\ InWriter /\ NoneLost /\ InCommitter
  BY <1>2, <1>3 DEF InChannels, InWriter, NoneLost, InCommitter, SaysOnly, EmptyBatch, Taken
<1> QED BY <1>1, <1>5, <1>6, <1>7, <1>8, <1>9, <1>10 DEF IInv, CurrentInv

\* Every step, crash and restart included, keeps it.
LEMMA IInvInductive == IInv /\ [Next]_vars => IInv'
<1> SUFFICES ASSUME IInv, [Next]_vars PROVE IInv'
  OBVIOUS
<1>0. Protocol /\ LogPending /\ LogTable /\ Chained /\ (Paced => CurrentInv)
  BY DEF IInv
<1>1. Protocol'
  BY <1>0, ProtocolStep
<1>2. LogPending' /\ LogTable'
  BY <1>0, LogStep
<1>3. Chained'
  BY <1>0, ChainStep
<1>4. ASSUME Paced PROVE CurrentInv'
  <2>1. CurrentInv /\ OnePerKey /\ Rows
    BY <1>0, <1>4 DEF CurrentInv, Rows
  <2>2. CurTable' /\ OnePerKey'
    BY <1>0, <1>4, <2>1, TableStep
  <2>3. Rows'
    BY <1>0, <2>1, RowsStep
  <2> QED BY <2>2, <2>3 DEF CurrentInv, Rows
<1> QED BY <1>1, <1>2, <1>3, <1>4 DEF IInv

\* The invariant holds in every state.
LEMMA IInvAlways == Spec => []IInv
  BY InitHolds, IInvInductive, PTL DEF Spec

-----------------------------------------------------------------------------
(* The theorems. *)

\* TypeOK always holds, whatever the pace of the writers.
THEOREM TypeCorrect == Spec => []TypeOK
<1>1. IInv => TypeOK
  BY DEF IInv, Protocol
<1> QED BY <1>1, IInvAlways, PTL

\* StrikesOnce always holds: a restart is paid for by a marker that was not
\* there before, so an armed fault uses up one attempt whatever is replayed.
THEOREM FaultsStrikeOnce == Spec => []StrikesOnce
<1> DEFINE Struck == /\ struck \subseteq FaultMap /\ attempts \in Nat
                     /\ attempts <= Cardinality(struck)
<1>1. IsFiniteSet(FaultMap)
  <2>1. FaultMap = {"crash"} \cup {"fault"}
    BY DEF FaultMap
  <2> QED BY <2>1, FS_Singleton, FS_AddElement
<1>2. Init => Struck
  BY FS_EmptySet DEF Init
<1>3. Struck /\ [Next]_vars => Struck'
  <2> SUFFICES ASSUME Struck, [Next]_vars PROVE Struck'
    OBVIOUS
  <2>1. IsFiniteSet(struck) /\ Cardinality(struck) \in Nat
    BY <1>1, FS_Subset, FS_CardinalityType
  <2>2. ASSUME NEW m \in FaultMap, m \notin struck, struck' = struck \cup {m},
               attempts' \in {attempts, attempts + 1}
        PROVE  Struck'
    <3>1. Cardinality(struck') = Cardinality(struck) + 1
      BY <2>1, <2>2, FS_AddElement
    <3> QED BY <2>1, <2>2, <3>1
  <2>3. ASSUME UNCHANGED <<struck, attempts>> PROVE Struck'
    BY <2>3
  <2>4. CASE TaskCrash
    BY <2>2, <2>4 DEF TaskCrash, Fail, StrikesFirst, FaultMap
  <2>5. CASE CommitFault
    BY <2>2, <2>5 DEF CommitFault, FaultStrikes, Fail, StrikesFirst, FaultMap
  <2>6. CASE ~TaskCrash /\ ~CommitFault
    <3>1. UNCHANGED <<struck, attempts>>
      BY <2>6
      DEF Next, JobStep, Write, Emit, Restart, Trigger, CompleteCheckpoint, WriteRow,
          TakeBarrier, NoFault, CommitChangelog, CommitCurrent, vars, drill, job
    <3> QED BY <2>3, <3>1
  <2> QED BY <2>4, <2>5, <2>6
<1>4. Struck => StrikesOnce
  BY DEF StrikesOnce
<1> QED BY <1>2, <1>3, <1>4, PTL DEF Spec

\* AlignedCut always holds under the drills' discipline: the barriers of all
\* channels cut the projected rows where the source's position does.
THEOREM CutsAreAligned == ASSUME Paced PROVE Spec => []AlignedCut
<1>1. IInv => AlignedCut
  <2> SUFFICES ASSUME IInv, status = "RUNNING", Missing("current"), NEW k \in Key
               PROVE  Overlay(current, done.cur)[k] = RowAfter(done.pos, k)
    BY DEF AlignedCut
  <2>1. CurTable /\ current \in [Key -> Row]
    BY DEF IInv, CurrentInv, Protocol, TypeOK
  <2>2. Shows(Overlay(current, done.cur), done.pos)
    BY <2>1, OverlayNothing DEF CurTable, CurUncommitted
  <2> QED BY <2>2 DEF Shows
<1> QED BY <1>1, IInvAlways, PTL

\* CurrentMatchesSource always holds under the drills' discipline: a quiet job's
\* table is the source table, however many times the job crashed on the way.
THEOREM QuietTableMatches == ASSUME Paced PROVE Spec => []CurrentMatchesSource
<1>1. IInv => CurrentMatchesSource
  <2> SUFFICES ASSUME IInv, Quiet, NEW k \in Key PROVE current[k] = SourceRow(k)
    BY DEF CurrentMatchesSource
  <2>1. Shows(current, done.pos)
    BY DEF IInv, CurrentInv, CurTable, Quiet
  <2> QED BY <2>1 DEF Shows, Quiet, SourceRow
<1> QED BY <1>1, IInvAlways, PTL

-----------------------------------------------------------------------------
(* The refinement. *)

\* The cuts of the abstract specification are the rows after so many changes.
LEMMA CutIsRows == \A n : Source!Cut(n) = [k \in Key |-> RowAfter(n, k)]
  BY DEF Source!Cut, RowAfter

\* A table that shows a cut is that cut.
LEMMA ShowsIsCut ==
  ASSUME NEW S, NEW table \in [Key -> S], NEW n, Shows(table, n)
  PROVE  table = Source!Cut(n)
  BY CutIsRows DEF Shows

\* The files of a completed checkpoint that the changelog lacks are what an
\* abstract commit may add to it.
LEMMA FilesFollow ==
  ASSUME IInv, LogUncommitted
  PROVE  \E m \in 0 .. Len(binlog) : \E n \in m + 1 .. Len(binlog) :
           Source!Published = 1 .. m /\ done.log = m + 1 .. n
<1>0. done.pos \in Nat /\ Len(binlog) \in Nat /\ done.pos <= Len(binlog)
  BY BoundsAssumption DEF IInv, Protocol, TypeOK, Checkpoint, Row, Positions
<1>1. PICK m \in 0 .. done.pos : LogShows(m) /\ done.log = m + 1 .. done.pos
  BY DEF IInv, LogTable
<1>2. Source!Published = 1 .. m
  BY <1>1 DEF Source!Published, LogShows
<1>3. m \in 0 .. Len(binlog) /\ done.pos \in m + 1 .. Len(binlog)
  <2>1. m + 1 .. done.pos # {}
    BY <1>1 DEF LogUncommitted
  <2> QED BY <1>0, <1>1, <2>1
<1> QED BY <1>1, <1>2, <1>3

\* Each step of the job is a step of the abstract specification or none of it.
LEMMA SourceStep ==
  ASSUME Paced, IInv, IInv', [Next]_vars
  PROVE  [Source!Next]_(Source!vars)
<1>0. /\ Phases /\ LogPending /\ CurTable /\ CurTable' /\ Ids
      /\ Len(binlog) \in Nat /\ done.pos \in 0 .. Len(binlog)
      /\ current \in [Key -> Row] /\ current' \in [Key -> Row]
  <2>1. /\ Phases /\ LogPending /\ CurTable /\ CurTable' /\ Ids /\ TypeOK /\ TypeOK'
        /\ Positions
    BY DEF IInv, CurrentInv, Protocol
  <2>2. current \in [Key -> Row] /\ current' \in [Key -> Row]
    BY <2>1 DEF TypeOK
  <2>3. Len(binlog) \in Nat /\ done.pos \in Nat /\ done.pos <= Len(binlog)
    BY <2>1, BoundsAssumption DEF TypeOK, Checkpoint, Row, Positions
  <2> QED BY <2>1, <2>2, <2>3
<1>a. ASSUME UNCHANGED <<binlog, changelog, current>> PROVE [Source!Next]_(Source!vars)
  BY <1>a DEF Source!vars
<1>b. PICK m \in 0 .. done.pos : current = Source!Cut(m)
  <2>1. \E n \in 0 .. done.pos : Shows(current, n)
    BY <1>0 DEF CurTable
  <2> QED BY <1>0, <2>1, ShowsIsCut
<1>c. ASSUME UNCHANGED <<binlog, done>>, status' = "RUNNING", "current" \notin notify',
             \/ changelog' = changelog
             \/ LogUncommitted /\ changelog' = Append(changelog, done.log)
      PROVE  [Source!Next]_(Source!vars)
  <2>1. \A n : Source!Cut(n)' = Source!Cut(n)
    BY <1>c DEF Source!Cut
  <2>2. Shows(current, done.pos)'
    BY <1>0, <1>c DEF CurTable
  <2>3. current' = Source!Cut(done.pos)
    <3>1. \A k \in Key : current'[k] = RowAfter(done.pos, k)
      <4>1. \A n, k : RowAfter(n, k)' = RowAfter(n, k)
        BY <1>c DEF RowAfter
      <4> QED BY <1>c, <2>2, <4>1 DEF Shows
    <3> QED BY <1>0, <3>1, CutIsRows
  <2>4. \E n \in 0 .. Len(binlog) : \E l \in 0 .. n :
          current = Source!Cut(l) /\ current' = Source!Cut(n)
    BY <1>0, <1>b, <2>3
  <2>5. \/ UNCHANGED changelog
        \/ \E l \in 0 .. Len(binlog) : \E n \in l + 1 .. Len(binlog) :
             /\ Source!Published = 1 .. l
             /\ changelog' = Append(changelog, l + 1 .. n)
    BY <1>c, FilesFollow
  <2> QED BY <1>c, <2>4, <2>5 DEF Source!Next, Source!Commit
<1>d. ASSUME UNCHANGED <<binlog, current>>, LogUncommitted,
             changelog' = Append(changelog, done.log)
      PROVE  [Source!Next]_(Source!vars)
  <2>1. m \in 0 .. Len(binlog) /\ m \in 0 .. m
    BY <1>0, <1>b
  <2>2. \E n \in 0 .. Len(binlog) : \E l \in 0 .. n :
          current = Source!Cut(l) /\ current' = Source!Cut(n)
    BY <1>b, <1>d, <2>1
  <2>3. \E l \in 0 .. Len(binlog) : \E n \in l + 1 .. Len(binlog) :
          Source!Published = 1 .. l /\ changelog' = Append(changelog, l + 1 .. n)
    BY <1>d, FilesFollow
  <2> QED BY <1>d, <2>2, <2>3 DEF Source!Next, Source!Commit
<1>1. ASSUME NEW k \in Key, NEW after \in {0, Len(binlog) + 1}, Write(k, after)
      PROVE  [Source!Next]_(Source!vars)
  <2>1. /\ binlog' = Append(binlog, [key |-> k, before |-> SourceRow(k), after |-> after])
        /\ after # SourceRow(k) /\ UNCHANGED <<changelog, current>>
    BY <1>1 DEF Write, tables
  <2>2. Source!Cut(Len(binlog))[k] = SourceRow(k)
    BY CutIsRows DEF SourceRow
  <2>3. after # 0 \/ Source!Cut(Len(binlog))[k] # 0
    BY <2>1, <2>2
  <2> QED BY <2>1, <2>2, <2>3 DEF Source!Next, Source!Grow
<1>4. CASE Restart
  <2>1. /\ status' = "RUNNING" /\ notify' = {} /\ UNCHANGED <<binlog, done>>
        /\ changelog' = IF Missing("changelog") /\ done.log # {}
                        THEN Append(changelog, done.log) ELSE changelog
    BY <1>0, <1>4 DEF Restart, Phases, checkpoints
  <2> QED BY <1>c, <2>1 DEF LogUncommitted
<1>11. CASE CommitChangelog
  <2>1. /\ "changelog" \in notify /\ UNCHANGED <<binlog, current>>
        /\ changelog' = IF logPend = {} THEN changelog ELSE Append(changelog, logPend)
    BY <1>11 DEF CommitChangelog
  <2>2. logPend = done.log /\ Missing("changelog")
    BY <1>0, <2>1 DEF Phases, LogPending, Ids, Sink
  <2> QED BY <1>a, <1>d, <2>1, <2>2 DEF LogUncommitted
<1>12. CASE CommitCurrent
  <2>1. /\ "current" \in notify /\ notify' = notify \ {"current"}
        /\ UNCHANGED <<binlog, done, status, changelog>>
    BY <1>12 DEF CommitCurrent, checkpoints, job
  <2>2. status = "RUNNING"
    BY <1>0, <2>1 DEF Phases
  <2> QED BY <1>c, <2>1, <2>2
<1>13. CASE UNCHANGED <<binlog, changelog, current>>
  BY <1>a, <1>13
<1>14. \/ \E k \in Key, after \in {0, Len(binlog) + 1} : Write(k, after)
       \/ Restart \/ CommitChangelog \/ CommitCurrent
       \/ UNCHANGED <<binlog, changelog, current>>
  BY DEF Next, JobStep, TaskCrash, Emit, Trigger, CompleteCheckpoint, WriteRow, TakeBarrier,
         CommitFault, NoFault, vars, tables
<1> QED BY <1>1, <1>4, <1>11, <1>12, <1>13, <1>14

\* ImplementsSourceCuts under the drills' discipline: the changelog is a gap-free
\* prefix of the changes, none twice, and the current table moves from one cut of
\* the source to a later one, wherever the job crashes and whatever its committers
\* find in their state on the way back.
THEOREM TablesFollowSource == ASSUME Paced PROVE Spec => ImplementsSourceCuts
<1>1. Init => Source!Init
  BY DEF Init, Source!Init
<1>2. IInv /\ IInv' /\ [Next]_vars => [Source!Next]_(Source!vars)
  BY SourceStep
<1> QED BY <1>1, <1>2, IInvAlways, PTL DEF Spec, ImplementsSourceCuts, Source!Spec

\* The changelog's half of the refinement needs no discipline of the writers: a
\* snapshot holds the changes that follow the ones the changelog shows, always.
ChangelogGrows ==
  \E m \in 0 .. Len(binlog) : \E n \in m + 1 .. Len(binlog) :
    LogShows(m) /\ changelog' = Append(changelog, m + 1 .. n)

\* ChangelogGrows is all that ever happens to the changelog: across a crash
\* between barrier, completion and commit no change is skipped or published twice.
THEOREM ChangelogIsGapFree == Spec => [][ChangelogGrows]_changelog
<1>1. IInv /\ [Next]_vars => [ChangelogGrows]_changelog
  <2> SUFFICES ASSUME IInv, [Next]_vars, changelog' # changelog
               PROVE  ChangelogGrows
    OBVIOUS
  <2>1. Phases /\ LogPending /\ Ids
    BY DEF IInv, Protocol
  <2>2. LogUncommitted /\ changelog' = Append(changelog, done.log)
    <3>1. CASE Restart
      BY <3>1 DEF Restart, LogUncommitted
    <3>2. CASE CommitChangelog
      <4>1. "changelog" \in notify /\ logPend # {}
            /\ changelog' = Append(changelog, logPend)
        BY <3>2 DEF CommitChangelog
      <4>2. logPend = done.log /\ Missing("changelog")
        BY <2>1, <4>1 DEF Phases, LogPending, Ids, Sink
      <4> QED BY <4>1, <4>2 DEF LogUncommitted
    <3>3. Restart \/ CommitChangelog
      BY DEF Next, JobStep, Write, TaskCrash, Emit, Trigger, CompleteCheckpoint, WriteRow,
             TakeBarrier, CommitFault, NoFault, CommitCurrent, Fail, vars, tables
    <3> QED BY <3>1, <3>2, <3>3
  <2> QED BY <2>2, FilesFollow DEF ChangelogGrows, LogShows, Source!Published
<1> QED BY <1>1, IInvAlways, PTL DEF Spec
=============================================================================
