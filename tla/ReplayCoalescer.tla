--------------------------- MODULE ReplayCoalescer ---------------------------
(***************************************************************************)
(* LatestPerKeyReplayCoalescer in the current-table path of a replaying    *)
(* Path B job: a keyed debounce.  It keeps the last change of a key and    *)
(* emits it when no change of the key has come for a quiet period of       *)
(* processing time.  Its two states and its timers are part of a           *)
(* checkpoint.                                                             *)
(*                                                                         *)
(* A change is its offset in the topic; 0 is none.  Barrier, completion    *)
(* and commit of a checkpoint are one step, what happens between them      *)
(* being the business of KafkaToIceberg.                                   *)
(***************************************************************************)
EXTENDS Naturals, Sequences, FiniteSets

CONSTANTS
  Key,          \* order ids
  QuietPeriod,  \* quietPeriodMs, in ticks
  MaxRecords,   \* bound: records of the topic
  MaxCrashes    \* bound: restarts of the job

ASSUME QuietAssumption == QuietPeriod \in Nat \ {0}
ASSUME BoundsAssumption == MaxRecords \in Nat /\ MaxCrashes \in Nat

VARIABLES
  topic,         \* sequence of keys
  up, crashes,   \* is the job running; how often it failed
  now,           \* processing time
  pos,           \* records the operator has processed
  pendingChange, \* key -> change, 0: none
  pendingTimer,  \* key -> time, 0: none
  timers,        \* key -> registered processing-time timers
  out,           \* key -> last change emitted since the last checkpoint
  done,          \* the last checkpoint
  current        \* key -> change the current table shows

operator == <<pendingChange, pendingTimer, timers>>
vars == <<topic, up, crashes, now, pos, operator, out, done, current>>

Offset == 0 .. MaxRecords
None == [k \in Key |-> 0]
State == [pos : Offset, pendingChange : [Key -> Offset],
          pendingTimer : [Key -> Nat], timers : [Key -> SUBSET Nat]]

TypeOK ==
  /\ topic \in Seq(Key) /\ Len(topic) <= MaxRecords
  /\ up \in BOOLEAN /\ crashes \in 0 .. MaxCrashes
  /\ now \in Nat /\ pos \in 0 .. Len(topic)
  /\ pendingChange \in [Key -> Offset] /\ pendingTimer \in [Key -> Nat]
  /\ timers \in [Key -> SUBSET Nat]
  /\ \A k \in Key : Cardinality(timers[k]) <= 1
  /\ out \in [Key -> Offset] /\ current \in [Key -> Offset]
  /\ done \in State

NoTimers == [k \in Key |-> {}]

Init ==
  /\ topic = <<>> /\ up = TRUE /\ crashes = 0 /\ now = 1 /\ pos = 0
  /\ pendingChange = None /\ pendingTimer = None /\ timers = NoTimers
  /\ out = None /\ current = None
  /\ done = [pos |-> 0, pendingChange |-> None, pendingTimer |-> None,
             timers |-> NoTimers]

-----------------------------------------------------------------------------

Produce(k) ==
  /\ Len(topic) < MaxRecords
  /\ topic' = Append(topic, k)
  /\ UNCHANGED <<up, crashes, now, pos, operator, out, done, current>>

\* A timer still to come, of the operator or, while the job is down, of the
\* state it will restore.  With none, time passing makes no difference.
Awaited ==
  \E k \in Key : \E t \in IF up THEN timers[k] ELSE done.timers[k] : t > now

Tick ==
  /\ Awaited
  /\ now' = now + 1
  /\ UNCHANGED <<topic, up, crashes, pos, operator, out, done, current>>

\* The timers of a key once the previous one is deleted, or not.
KeepTimer(k) == timers[k]
DeleteTimer(k) == timers[k] \ {pendingTimer[k]}

ProcessElement ==
  LET k == topic[pos + 1]
      next == now + QuietPeriod
  IN
  /\ up /\ pos < Len(topic)
  /\ pos' = pos + 1
  /\ pendingChange' = [pendingChange EXCEPT ![k] = pos + 1]
  /\ pendingTimer' = [pendingTimer EXCEPT ![k] = next]
  /\ timers' = [timers EXCEPT ![k] = DeleteTimer(k) \cup {next}]
  /\ UNCHANGED <<topic, up, crashes, now, out, done, current>>

\* What stays pending when a key is emitted: nothing.  Clearing the timer
\* alone would leave a change that no timer emits.
KeepChange(k) == pendingChange
ClearChange(k) == [pendingChange EXCEPT ![k] = 0]

\* A timer fires when its time has come, the earliest first; one that is not
\* the expected one is ignored.
OnTimer(k, t) ==
  /\ up /\ t <= now
  /\ \A other \in Key : \A u \in timers[other] : t <= u
  /\ timers' = [timers EXCEPT ![k] = @ \ {t}]
  /\ IF pendingTimer[k] # t
     THEN UNCHANGED <<pendingChange, pendingTimer, out>>
     ELSE /\ out' = IF pendingChange[k] # 0
                    THEN [out EXCEPT ![k] = pendingChange[k]] ELSE out
          /\ pendingChange' = ClearChange(k)
          /\ pendingTimer' = [pendingTimer EXCEPT ![k] = 0]
  /\ UNCHANGED <<topic, up, crashes, now, pos, done, current>>

\* The rows written over the table.
Written == [k \in Key |-> IF out[k] # 0 THEN out[k] ELSE current[k]]

\* The operator's part of a checkpoint.  Without its state a restored operator
\* would know nothing of changes the source will not send again.
StatelessSnapshot ==
  [pos |-> pos, pendingChange |-> None, pendingTimer |-> None, timers |-> NoTimers]
Snapshot ==
  [pos |-> pos, pendingChange |-> pendingChange, pendingTimer |-> pendingTimer,
   timers |-> timers]

Checkpoint ==
  /\ up /\ (Snapshot # done \/ out # None)
  /\ done' = Snapshot
  /\ current' = Written /\ out' = None
  /\ UNCHANGED <<topic, up, crashes, now, pos, operator>>

Crash ==
  /\ up /\ crashes < MaxCrashes
  /\ up' = FALSE /\ crashes' = crashes + 1
  /\ pendingChange' = None /\ pendingTimer' = None /\ timers' = NoTimers
  /\ out' = None
  /\ UNCHANGED <<topic, now, pos, done, current>>

\* The restored source reads on behind the checkpoint, not from where the
\* replay began.
RestartAtEarliest == 0
RestartPosition == done.pos

Restart ==
  /\ ~up /\ up' = TRUE
  /\ pos' = RestartPosition
  /\ pendingChange' = done.pendingChange
  /\ pendingTimer' = done.pendingTimer /\ timers' = done.timers
  /\ UNCHANGED <<topic, crashes, now, out, done, current>>

JobStep ==
  \/ ProcessElement
  \/ \E k \in Key : \E t \in timers[k] : OnTimer(k, t)
  \/ Checkpoint \/ Restart

Next == (\E k \in Key : Produce(k)) \/ Tick \/ JobStep \/ Crash

Spec == Init /\ [][Next]_vars

\* Time passes and the job runs; nothing is assumed of producers and failures.
FairSpec == Spec /\ WF_vars(Tick) /\ WF_vars(JobStep)

-----------------------------------------------------------------------------

\* The newest change of key k among the first n.
Newest(k, n) ==
  LET of == {i \in 1 .. n : topic[i] = k} IN
  IF of = {} THEN 0 ELSE CHOOSE i \in of : \A j \in of : j <= i

\* Holding changes back forgets none: the newest change of a key processed so
\* far is pending with its timer running, or emitted, or in the table, and it
\* is in one of these places only in its newest version, also when the state
\* was restored and records are replayed.
NothingForgotten ==
  up => \A k \in Key :
    /\ Newest(k, pos) = IF pendingChange[k] # 0 THEN pendingChange[k] ELSE
                        IF out[k] # 0 THEN out[k] ELSE current[k]
    /\ timers[k] = {pendingTimer[k]} \ {0}
    /\ pendingChange[k] # 0 <=> pendingTimer[k] # 0

\* A change a failure can lose the timer of is not lost: the table and the
\* pending state of the last checkpoint together are the newest changes up to
\* the position the source will read from.
RestorePointIsWhole ==
  \A k \in Key :
    /\ Newest(k, done.pos) =
         IF done.pendingChange[k] # 0 THEN done.pendingChange[k] ELSE current[k]
    /\ done.pendingChange[k] # 0 => done.pendingTimer[k] \in done.timers[k]

\* The table may skip versions of a row but never shows an older one again,
\* whichever timers fire late or fire at once after a restart.
NeverBack == [][\A k \in Key : current[k] <= current'[k]]_vars

\* When producers and failures stop, the table comes to show the last change
\* of every key and stays with it; nothing is held back for good.
Drains == <>[](\A k \in Key : current[k] = Newest(k, Len(topic)))
=============================================================================
