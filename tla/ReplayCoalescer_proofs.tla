------------------------ MODULE ReplayCoalescer_proofs ------------------------
(***************************************************************************)
(* Theorems about ReplayCoalescer, for any keys, quiet period, number of   *)
(* records and number of restarts.                                         *)
(***************************************************************************)
EXTENDS ReplayCoalescer, FiniteSetTheorems, TLAPS

-----------------------------------------------------------------------------
(* The inductive invariant. *)

\* A state of the operator, the rows emitted since the last checkpoint and the
\* table hold the newest change of each key once: a pending one has its timer,
\* and a later place of a key has a later change.
HoldsKey(state, k, emitted) ==
  LET held == state.pendingChange[k]
      sent == emitted[k]
      shown == current[k]
  IN
  /\ Newest(k, state.pos) = IF held # 0 THEN held ELSE IF sent # 0 THEN sent ELSE shown
  /\ state.timers[k] = {state.pendingTimer[k]} \ {0}
  /\ held # 0 <=> state.pendingTimer[k] # 0
  /\ held # 0 => sent < held /\ shown < held
  /\ sent # 0 => shown < sent
  /\ held <= state.pos /\ sent <= state.pos /\ shown <= state.pos

Holds(state, emitted) == \A k \in Key : HoldsKey(state, k, emitted)

\* A job that is down has nothing but the checkpoint.
DownIsEmpty ==
  /\ pendingChange = None /\ pendingTimer = None /\ timers = NoTimers
  /\ out = None

\* All of the type invariant but the number of timers.
Typed ==
  /\ topic \in Seq(Key) /\ Len(topic) <= MaxRecords
  /\ up \in BOOLEAN /\ crashes \in 0 .. MaxCrashes
  /\ now \in Nat /\ pos \in 0 .. Len(topic)
  /\ pendingChange \in [Key -> Offset] /\ pendingTimer \in [Key -> Nat]
  /\ timers \in [Key -> SUBSET Nat]
  /\ out \in [Key -> Offset] /\ current \in [Key -> Offset]
  /\ done \in State
  /\ done.pos <= Len(topic)

IInv ==
  /\ Typed
  /\ up => Holds(Snapshot, out)
  /\ ~up => DownIsEmpty
  /\ Holds(done, None)

-----------------------------------------------------------------------------
(* The newest change of a key. *)

\* One more record of the topic is the newest of its own key only.
LEMMA NewestStep ==
  ASSUME NEW k \in Key, NEW n \in Nat
  PROVE  Newest(k, n + 1) = IF topic[n + 1] = k THEN n + 1 ELSE Newest(k, n)
<1> DEFINE of(m) == {i \in 1 .. m : topic[i] = k}
           newest(S) == IF S = {} THEN 0 ELSE CHOOSE i \in S : \A j \in S : j <= i
<1>1. CASE topic[n + 1] = k
  <2>1. n + 1 \in of(n + 1) /\ \A j \in of(n + 1) : j <= n + 1
    BY <1>1
  <2>2. \A i \in of(n + 1) : (\A j \in of(n + 1) : j <= i) => i = n + 1
    BY <2>1
  <2>3. (CHOOSE i \in of(n + 1) : \A j \in of(n + 1) : j <= i) = n + 1
    BY <2>1, <2>2
  <2> QED BY <1>1, <2>1, <2>3 DEF Newest
<1>2. CASE topic[n + 1] # k
  <2>1. of(n + 1) = of(n)
    BY <1>2
  <2>2. newest(of(n + 1)) = newest(of(n))
    <3> HIDE DEF of, newest
    <3> QED BY <2>1
  <2>3. Newest(k, n + 1) = newest(of(n + 1)) /\ Newest(k, n) = newest(of(n))
    BY DEF Newest
  <2> QED BY <1>2, <2>2, <2>3
<1> QED BY <1>1, <1>2

\* Records that arrive later change nothing about the first ones.
LEMMA NewestStable ==
  ASSUME NEW k \in Key, NEW n \in Nat, NEW record \in Key,
         topic \in Seq(Key), n <= Len(topic), topic' = Append(topic, record)
  PROVE  Newest(k, n)' = Newest(k, n)
<1>1. \A i \in 1 .. n : topic'[i] = topic[i]
  OBVIOUS
<1> DEFINE before == {i \in 1 .. n : topic[i] = k}
           after == {i \in 1 .. n : topic'[i] = k}
           newest(S) == IF S = {} THEN 0 ELSE CHOOSE i \in S : \A j \in S : j <= i
<1>2. after = before
  BY <1>1
<1>3. Newest(k, n)' = newest(after) /\ Newest(k, n) = newest(before)
  BY DEF Newest
<1> HIDE DEF before, after, newest
<1> QED BY <1>2, <1>3

-----------------------------------------------------------------------------
(* The invariant is inductive. *)

\* A key that holds its newest change has one timer at most.
LEMMA OneTimer ==
  ASSUME NEW S, NEW t, S = {t} \ {0}
  PROVE  Cardinality(S) <= 1
<1>1. S \subseteq {t} /\ IsFiniteSet({t}) /\ Cardinality({t}) = 1
  BY FS_Singleton
<1>2. Cardinality(S) <= Cardinality({t})
  BY <1>1, FS_Subset
<1> QED BY <1>1, <1>2

\* The types and what the operator holds make the type invariant.
LEMMA TypedIsEnough ==
  ASSUME Typed, up => Holds(Snapshot, out), ~up => DownIsEmpty
  PROVE  TypeOK
<1>1. ASSUME NEW k \in Key PROVE Cardinality(timers[k]) <= 1
  <2>1. CASE up
    <3>1. timers[k] = {pendingTimer[k]} \ {0}
      BY <2>1 DEF Holds, HoldsKey, Snapshot
    <3> QED BY <3>1, OneTimer
  <2>2. CASE ~up
    <3>1. timers[k] = {0} \ {0}
      BY <2>2 DEF DownIsEmpty, NoTimers
    <3> QED BY <3>1, OneTimer
  <2> QED BY <2>1, <2>2 DEF Typed
<1> QED BY <1>1 DEF Typed, TypeOK

\* Every step keeps the types.
LEMMA TypedStep == Typed /\ [Next]_vars => Typed'
<1> SUFFICES ASSUME Typed, [Next]_vars PROVE Typed'
  OBVIOUS
<1>0. MaxRecords \in Nat /\ MaxCrashes \in Nat /\ QuietPeriod \in Nat \ {0}
  BY BoundsAssumption, QuietAssumption
<1>00. None \in [Key -> Offset] /\ None \in [Key -> Nat] /\ NoTimers \in [Key -> SUBSET Nat]
  BY <1>0 DEF None, NoTimers, Offset
<1>1. ASSUME NEW k \in Key, Produce(k) PROVE Typed'
  <2>1. /\ topic \in Seq(Key) /\ Len(topic) < MaxRecords /\ topic' = Append(topic, k)
        /\ UNCHANGED <<up, crashes, now, pos, operator, out, done, current>>
    BY <1>1 DEF Typed, Produce
  <2>2. topic' \in Seq(Key) /\ Len(topic') = Len(topic) + 1 /\ Len(topic) \in Nat
    BY <2>1
  <2>3. /\ Len(topic') <= MaxRecords /\ pos \in 0 .. Len(topic')
        /\ done.pos <= Len(topic')
    <3>1. pos \in 0 .. Len(topic) /\ done.pos \in 0 .. MaxRecords /\ done.pos <= Len(topic)
      BY DEF Typed, State, Offset
    <3> QED BY <1>0, <2>1, <2>2, <3>1
  <2> QED BY <2>1, <2>2, <2>3 DEF Typed, operator
<1>2. CASE Tick
  BY <1>2 DEF Typed, Tick, operator
<1>3. CASE ProcessElement
  <2> DEFINE k == topic[pos + 1]
  <2>1. k \in Key /\ pos + 1 \in 0 .. Len(topic) /\ pos + 1 \in Offset
    <3>1. /\ topic \in Seq(Key) /\ Len(topic) <= MaxRecords
          /\ pos \in 0 .. Len(topic)
      BY DEF Typed
    <3>2. pos < Len(topic)
      BY <1>3 DEF ProcessElement
    <3>3. pos + 1 \in 1 .. Len(topic)
      BY <3>1, <3>2
    <3> QED BY <1>0, <3>1, <3>3 DEF Offset
  <2>2. now + QuietPeriod \in Nat
    BY <1>0 DEF Typed
  <2>3. DeleteTimer(k) \cup {now + QuietPeriod} \in SUBSET Nat
    BY <2>1, <2>2 DEF Typed, DeleteTimer
  <2> QED BY <1>3, <2>1, <2>2, <2>3 DEF Typed, ProcessElement
<1>4. ASSUME NEW k \in Key, NEW t \in timers[k], OnTimer(k, t) PROVE Typed'
  <2>1. 0 \in Offset
    BY <1>0 DEF Offset
  <2>2. timers' \in [Key -> SUBSET Nat]
    BY <1>4 DEF Typed, OnTimer
  <2>3. CASE pendingTimer[k] # t
    BY <1>4, <2>3 DEF Typed, OnTimer
  <2>4. CASE pendingTimer[k] = t
    <3>1. pendingChange' = ClearChange(k) /\ pendingTimer' = [pendingTimer EXCEPT ![k] = 0]
      BY <1>4, <2>4 DEF OnTimer
    <3>2. out' = IF pendingChange[k] # 0
                 THEN [out EXCEPT ![k] = pendingChange[k]] ELSE out
      BY <1>4, <2>4 DEF OnTimer
    <3>3. out' \in [Key -> Offset]
      BY <3>2 DEF Typed
    <3>4. pendingChange' \in [Key -> Offset] /\ pendingTimer' \in [Key -> Nat]
      BY <2>1, <3>1 DEF Typed, ClearChange
    <3> QED BY <1>4, <2>2, <3>3, <3>4 DEF Typed, OnTimer
  <2> QED BY <2>3, <2>4
<1>5. CASE Checkpoint
  <2>1. Snapshot \in State /\ Snapshot.pos = pos
    BY <1>0 DEF Typed, Snapshot, State, Offset
  <2>2. Written \in [Key -> Offset]
    BY DEF Typed, Written
  <2> QED BY <1>00, <1>5, <2>1, <2>2 DEF Typed, Checkpoint, operator
<1>6. CASE Crash
  <2>0. crashes \in Nat /\ crashes < MaxCrashes /\ crashes' = crashes + 1
    BY <1>0, <1>6 DEF Typed, Crash
  <2>1. up' = FALSE /\ crashes' \in 0 .. MaxCrashes
    BY <1>0, <1>6, <2>0 DEF Crash
  <2> QED BY <1>00, <1>6, <2>1 DEF Typed, Crash
<1>7. CASE Restart
  BY <1>7 DEF Typed, Restart, RestartPosition, State, Offset
<1>8. CASE UNCHANGED vars
  BY <1>8 DEF Typed, vars, operator
<1> QED
  BY <1>1, <1>2, <1>3, <1>4, <1>5, <1>6, <1>7, <1>8 DEF Next, JobStep

\* The operator starts with nothing.
LEMMA InitHolds == Init => IInv
<1> SUFFICES ASSUME Init PROVE IInv
  OBVIOUS
<1>0. MaxRecords \in Nat /\ MaxCrashes \in Nat
  BY BoundsAssumption
<1>1. None \in [Key -> Offset] /\ None \in [Key -> Nat] /\ NoTimers \in [Key -> SUBSET Nat]
  BY <1>0 DEF None, NoTimers, Offset
<1>2. Len(topic) = 0 /\ 0 \in Offset /\ done.pos = 0 /\ done \in State
  BY <1>0, <1>1 DEF Init, Offset, State
<1>3. Typed
  BY <1>0, <1>1, <1>2 DEF Init, Typed
<1>4. \A k \in Key : Newest(k, 0) = 0
  BY DEF Newest
<1>5. /\ done.pos = 0 /\ done.pendingChange = None /\ done.pendingTimer = None
      /\ done.timers = NoTimers /\ current = None
  BY DEF Init
<1>6. Holds(done, None)
  BY <1>4, <1>5 DEF Holds, HoldsKey, None, NoTimers
<1>7. up /\ Snapshot = done /\ out = None
  BY DEF Init, Snapshot
<1> QED BY <1>3, <1>6, <1>7 DEF IInv

\* Every step keeps what it holds.
LEMMA StepHolds == IInv /\ [Next]_vars => IInv'
<1> SUFFICES ASSUME IInv, [Next]_vars
             PROVE  /\ up' => Holds(Snapshot, out)'
                    /\ ~up' => DownIsEmpty'
                    /\ Holds(done, None)'
  BY TypedStep DEF IInv
<1>0. Typed /\ Typed' /\ pos \in Nat /\ done.pos \in Nat /\ up \in BOOLEAN
  <2>1. Typed /\ Typed'
    BY TypedStep DEF IInv
  <2>2. MaxRecords \in Nat
    BY BoundsAssumption
  <2>3. Len(topic) \in Nat /\ pos \in 0 .. Len(topic) /\ done \in State /\ up \in BOOLEAN
    BY <2>1 DEF Typed
  <2>4. done.pos \in Nat
    BY <2>2, <2>3 DEF State, Offset
  <2> QED BY <2>1, <2>3, <2>4
<1>00. /\ Snapshot.pos = pos /\ Snapshot.pendingChange = pendingChange
       /\ Snapshot.pendingTimer = pendingTimer /\ Snapshot.timers = timers
       /\ Snapshot'.pos = pos' /\ Snapshot'.pendingChange = pendingChange'
       /\ Snapshot'.pendingTimer = pendingTimer' /\ Snapshot'.timers = timers'
  BY DEF Snapshot
<1>a. ASSUME UNCHANGED <<topic, current, done>> PROVE Holds(done, None)'
  BY <1>a DEF IInv, Holds, HoldsKey, Newest, None
<1>b. ASSUME UNCHANGED <<topic, up, pos, operator, out, done, current>>
      PROVE  IInv'
  BY <1>0, <1>b
  DEF IInv, Holds, HoldsKey, Newest, None, Snapshot, DownIsEmpty, operator
<1>1. ASSUME NEW k \in Key, Produce(k) PROVE IInv'
  <2>1. \A j \in Key, n \in Nat : n <= Len(topic) => Newest(j, n)' = Newest(j, n)
    BY <1>0, <1>1, NewestStable DEF Produce, Typed
  <2>2. UNCHANGED <<up, pos, operator, out, done, current, Snapshot>>
    BY <1>1 DEF Produce, operator, Snapshot
  <2>3. pos <= Len(topic) /\ done.pos <= Len(topic)
    BY <1>0 DEF Typed
  <2>4. Holds(done, None)'
    BY <1>0, <2>1, <2>2, <2>3 DEF IInv, Holds, HoldsKey, None
  <2>5. up => Holds(Snapshot, out)'
    BY <1>0, <1>00, <2>1, <2>2, <2>3 DEF IInv, Holds, HoldsKey
  <2> QED BY <1>0, <2>2, <2>4, <2>5 DEF IInv, DownIsEmpty, operator
<1>2. CASE Tick
  BY <1>2, <1>b DEF Tick, operator, IInv
<1>3. CASE ProcessElement
  <2> DEFINE k == topic[pos + 1]
             next == now + QuietPeriod
  <2>1. k \in Key /\ next \in Nat \ {0} /\ pos + 1 \in Nat \ {0} /\ up
    BY <1>0, <1>3, QuietAssumption DEF Typed, ProcessElement
  <2>2. /\ pos' = pos + 1
        /\ pendingChange' = [pendingChange EXCEPT ![k] = pos + 1]
        /\ pendingTimer' = [pendingTimer EXCEPT ![k] = next]
        /\ timers' = [timers EXCEPT ![k] = DeleteTimer(k) \cup {next}]
        /\ UNCHANGED <<topic, up, out, done, current>>
    BY <1>3 DEF ProcessElement
  <2>3. ASSUME NEW j \in Key PROVE HoldsKey(Snapshot, j, out)'
    <3>1. HoldsKey(Snapshot, j, out)
      BY <2>1 DEF IInv, Holds
    <3>2. Newest(j, pos)' = IF k = j THEN pos + 1 ELSE Newest(j, pos)
      <4>1. Newest(j, pos)' = Newest(j, pos + 1)
        BY <2>2 DEF Newest
      <4> QED BY <1>0, <4>1, NewestStep
    <3>3. out[j] \in Nat /\ current[j] \in Nat /\ pendingChange[j] \in Nat
      BY <1>0 DEF Typed, Offset
    <3>4. CASE j = k
      <4>1. pendingChange'[j] = pos + 1 /\ pendingTimer'[j] = next
        BY <1>0, <2>2, <3>4 DEF Typed
      <4>2. timers'[j] = {pendingTimer'[j]} \ {0}
        <5>1. timers'[j] = (timers[j] \ {pendingTimer[j]}) \cup {next}
          BY <1>0, <2>2, <3>4 DEF Typed, DeleteTimer
        <5>2. timers[j] = {pendingTimer[j]} \ {0}
          BY <1>00, <3>1 DEF HoldsKey
        <5> QED BY <2>1, <4>1, <5>1, <5>2
      <4>3. /\ out[j] <= pos /\ current[j] <= pos
            /\ out[j] # 0 => current[j] < out[j]
        BY <1>00, <3>1 DEF HoldsKey
      <4>4. Newest(j, pos)' = pos + 1 /\ out'[j] = out[j] /\ current'[j] = current[j]
        BY <2>2, <3>2, <3>4
      <4>5. pos' = pos + 1 /\ next # 0 /\ pos \in Nat
        BY <1>0, <2>1, <2>2
      <4> HIDE DEF k, next
      <4> QED
        BY <1>00, <3>3, <4>1, <4>2, <4>3, <4>4, <4>5 DEF HoldsKey
    <3>5. CASE j # k
      <4>1. /\ pendingChange'[j] = pendingChange[j] /\ pendingTimer'[j] = pendingTimer[j]
            /\ timers'[j] = timers[j]
        BY <1>0, <2>2, <3>5 DEF Typed
      <4>2. Newest(j, pos)' = Newest(j, pos) /\ out'[j] = out[j] /\ current'[j] = current[j]
        BY <2>2, <3>2, <3>5
      <4> HIDE DEF k, next
      <4> QED
        BY <1>0, <1>00, <2>2, <3>1, <3>3, <4>1, <4>2 DEF HoldsKey
    <3> QED BY <3>4, <3>5
  <2>4. Holds(done, None)'
    BY <2>2, <1>a
  <2> QED BY <1>0, <2>1, <2>2, <2>3, <2>4 DEF IInv, Holds
<1>4. ASSUME NEW k \in Key, NEW t \in timers[k], OnTimer(k, t) PROVE IInv'
  <2>1. up /\ UNCHANGED <<topic, up, pos, done, current>>
    BY <1>4 DEF OnTimer
  <2>2. HoldsKey(Snapshot, k, out)
    BY <2>1 DEF IInv, Holds
  <2>3. pendingTimer[k] = t /\ pendingChange[k] # 0 /\ timers[k] = {t}
    BY <1>00, <2>2 DEF HoldsKey
  <2>4. /\ out' = [out EXCEPT ![k] = pendingChange[k]]
        /\ pendingChange' = [pendingChange EXCEPT ![k] = 0]
        /\ pendingTimer' = [pendingTimer EXCEPT ![k] = 0]
        /\ timers' = [timers EXCEPT ![k] = @ \ {t}]
    BY <1>4, <2>3 DEF OnTimer, ClearChange
  <2>5. ASSUME NEW j \in Key PROVE HoldsKey(Snapshot, j, out)'
    <3>1. HoldsKey(Snapshot, j, out)
      BY <2>1 DEF IInv, Holds
    <3>2. Newest(j, pos)' = Newest(j, pos)
      BY <2>1 DEF Newest
    <3>3. out[j] \in Nat /\ current[j] \in Nat /\ pendingChange[j] \in Nat
      BY <1>0 DEF Typed, Offset
    <3>4. CASE j = k
      <4>1. /\ out'[j] = pendingChange[j] /\ pendingChange'[j] = 0
            /\ pendingTimer'[j] = 0 /\ timers'[j] = {}
        BY <1>0, <2>3, <2>4, <3>4 DEF Typed
      <4> QED
        BY <1>0, <1>00, <2>1, <2>3, <3>1, <3>2, <3>3, <3>4, <4>1 DEF HoldsKey
    <3>5. CASE j # k
      <4>1. /\ out'[j] = out[j] /\ pendingChange'[j] = pendingChange[j]
            /\ pendingTimer'[j] = pendingTimer[j] /\ timers'[j] = timers[j]
        BY <1>0, <2>4, <3>5 DEF Typed
      <4> QED
        BY <1>0, <1>00, <2>1, <3>1, <3>2, <3>3, <4>1 DEF HoldsKey
    <3> QED BY <3>4, <3>5
  <2>6. Holds(done, None)'
    BY <2>1, <1>a
  <2> QED BY <1>0, <2>1, <2>5, <2>6 DEF IInv, Holds
<1>5. CASE Checkpoint
  <2>1. /\ up /\ done' = Snapshot /\ current' = Written /\ out' = None
        /\ UNCHANGED <<topic, up, pos, pendingChange, pendingTimer, timers>>
    BY <1>5 DEF Checkpoint, operator
  <2>2. Snapshot' = Snapshot
    BY <2>1 DEF Snapshot
  <2>3. ASSUME NEW j \in Key PROVE HoldsKey(Snapshot, j, None)'
    <3>1. HoldsKey(Snapshot, j, out)
      BY <2>1 DEF IInv, Holds
    <3>2. Newest(j, pos)' = Newest(j, pos)
      BY <2>1 DEF Newest
    <3>3. out[j] \in Nat /\ current[j] \in Nat /\ pendingChange[j] \in Nat
      BY <1>0 DEF Typed, Offset
    <3>4. current'[j] = (IF out[j] # 0 THEN out[j] ELSE current[j]) /\ None[j] = 0
      BY <2>1 DEF Written, None
    <3> QED
      BY <1>0, <1>00, <2>1, <2>2, <3>1, <3>2, <3>3, <3>4 DEF HoldsKey
  <2>4. Holds(done, None)' /\ Holds(Snapshot, out)'
    BY <2>1, <2>2, <2>3 DEF Holds, HoldsKey
  <2> QED BY <1>0, <2>1, <2>4 DEF IInv
<1>6. CASE Crash
  <2>1. ~up' /\ DownIsEmpty' /\ UNCHANGED <<topic, done, current>>
    BY <1>6 DEF Crash, DownIsEmpty
  <2> QED BY <1>0, <1>a, <2>1 DEF IInv
<1>7. CASE Restart
  <2>1. /\ ~up /\ up' /\ pos' = done.pos /\ out' = None
        /\ pendingChange' = done.pendingChange /\ pendingTimer' = done.pendingTimer
        /\ timers' = done.timers /\ UNCHANGED <<topic, done, current>>
    BY <1>7 DEF Restart, RestartPosition, IInv, DownIsEmpty
  <2>2. Holds(done, None)'
    BY <1>a, <2>1
  <2>3. Holds(Snapshot, out)'
    BY <1>00, <2>1, <2>2 DEF Holds, HoldsKey
  <2> QED BY <1>0, <2>1, <2>2, <2>3 DEF IInv
<1>8. CASE UNCHANGED vars
  BY <1>8, <1>b DEF vars, operator, IInv
<1> QED
  BY <1>1, <1>2, <1>3, <1>4, <1>5, <1>6, <1>7, <1>8 DEF Next, JobStep, IInv

-----------------------------------------------------------------------------
(* The theorems. *)

\* The invariant holds in every state.
LEMMA IInvAlways == Spec => []IInv
  BY InitHolds, StepHolds, PTL DEF Spec

\* Every reachable state is of its type, and no key ever has two timers: each
\* change deletes the timer of the one before.
THEOREM TypeCorrect == Spec => []TypeOK
<1>1. IInv => TypeOK
  BY TypedIsEnough DEF IInv
<1> QED BY <1>1, IInvAlways, PTL

\* Of every key the newest change processed is pending with its timer running,
\* or emitted, or in the table, however often the job was restored.
THEOREM NoneForgotten == Spec => []NothingForgotten
<1>1. IInv => NothingForgotten
  BY DEF IInv, Holds, HoldsKey, Snapshot, NothingForgotten
<1> QED BY <1>1, IInvAlways, PTL

\* The last checkpoint and the table together have the newest changes up to the
\* position a restored source reads from.
THEOREM RestoresWhole == Spec => []RestorePointIsWhole
<1>1. IInv => RestorePointIsWhole
  <2> SUFFICES ASSUME IInv, NEW k \in Key
               PROVE  /\ Newest(k, done.pos) =
                           IF done.pendingChange[k] # 0 THEN done.pendingChange[k]
                           ELSE current[k]
                      /\ done.pendingChange[k] # 0 =>
                           done.pendingTimer[k] \in done.timers[k]
    BY DEF RestorePointIsWhole
  <2>1. HoldsKey(done, k, None) /\ None[k] = 0
    BY DEF IInv, Holds, None
  <2> QED BY <2>1 DEF HoldsKey
<1> QED BY <1>1, IInvAlways, PTL

\* No step shows an older version of a row again.
THEOREM TableMovesOn == Spec => NeverBack
<1>1. IInv /\ [Next]_vars => [\A k \in Key : current[k] <= current'[k]]_vars
  <2> SUFFICES ASSUME IInv, Next, NEW k \in Key PROVE current[k] <= current'[k]
    OBVIOUS
  <2>1. current[k] \in Nat /\ out[k] \in Nat
    BY BoundsAssumption DEF IInv, Typed, Offset
  <2>2. CASE Checkpoint
    <3>1. HoldsKey(Snapshot, k, out)
      BY <2>2 DEF Checkpoint, IInv, Holds
    <3>2. current'[k] = IF out[k] # 0 THEN out[k] ELSE current[k]
      BY <2>2 DEF Checkpoint, Written
    <3> QED BY <2>1, <3>1, <3>2 DEF HoldsKey
  <2>3. CASE UNCHANGED current
    BY <2>1, <2>3
  <2> QED
    BY <2>2, <2>3
    DEF Next, JobStep, Produce, Tick, ProcessElement, OnTimer, Crash, Restart
<1> QED BY <1>1, IInvAlways, PTL DEF Spec, NeverBack
=============================================================================
