------------------------- MODULE BrokerDrills_proofs -------------------------
(***************************************************************************)
(* Theorems about BrokerDrills, for any set of its drills, any number of   *)
(* events and any threshold, whatever step fails.  First, from the order   *)
(* of a script's steps alone: the faults are what the drills say, and the  *)
(* drills clean up after them.  Then, from what each step gets a drill to  *)
(* know of the pipeline that moves under it: a pass is true, an alarm is   *)
(* one of those known, and a linkage covers its offsets.                   *)
(***************************************************************************)
EXTENDS BrokerDrills, WellFoundedInduction, FiniteSetTheorems, TLAPS

-----------------------------------------------------------------------------
(* The order of the steps of a script, which is all that is said of it. *)

\* The drills that list a job before they wait for it, and the steps that submit.
Early == {"broker_parity", "schema_contract"}
Submits ==
  {"submit_cdc", "submit", "submit_committed", "replay_earliest", "replay_timestamp"}
\* The steps of Flag, none of which can fail.
Flags == {"own", "disown", "flag_paused", "flag_resumed"}

\* Steps only some drills take.
Allowed(d, step) ==
  /\ step.do = "kill_kafka" => d \in {"broker_restart", "broker_slo"}
  /\ step.do \in {"pause", "flag_paused"} => d \in {"poison_dlq", "broker_slo"}
  /\ step.do = "disown" => d = "broker_slo"
  /\ step.do = "replay_timestamp" => d = "offset_replay"
  /\ step.do \in {"start_producer", "update_sweep"} => d # "broker_slo"
  /\ step.do = "start_gated_producer" => d = "broker_slo" /\ step.n = Events

\* Step y may follow step x at once.
May(d, x, y) ==
  /\ y = "rewind_group" => x = "await_absent"
  /\ y = "submit_committed" => x = "rewind_group"
  /\ d \in Early => /\ x \in Submits => y = "own"
                    /\ x = "own" => y = "await_job"
                    /\ y = "await_job" => x = "own"
  /\ d \notin Early => (x \in Submits => y = "await_job")
  /\ d \notin Early \cup {"broker_slo"} => (x = "await_job" => y = "own")
  /\ d = "poison_dlq" => (x = "pause" => y = "flag_paused")
  /\ d = "broker_slo" => (y = "pause" => x = "flag_paused")

\* Step y may not come anywhere after step x.
Bad(x, y) ==
  \/ x = "resume" /\ y = "pause"
  \/ x = "flag_resumed" /\ y = "resume"
  \/ x \in {"start_gated_producer", "release_gate", "insert_row"}
     /\ y = "start_gated_producer"
  \/ x = "insert_row" /\ y = "release_gate"

EachAllowed(d, s) == \A i \in 1 .. Len(s) : Allowed(d, s[i])
EachFollows(d, s) == \A i \in 1 .. Len(s) - 1 : May(d, s[i].do, s[i + 1].do)
InOrder(s) == \A i, j \in 1 .. Len(s) : i < j => ~Bad(s[i].do, s[j].do)
Occurs(op, s) == \E i \in 1 .. Len(s) : s[i].do = op

\* A script ends with its verdict; what it breaks it mends.
Legal(d) ==
  /\ Len(Script[d]) \in Nat \ {0} /\ Script[d][Len(Script[d])].do = "verdict"
  /\ Script[d][1].do \notin {"await_job", "pause"}
  /\ EachAllowed(d, Script[d]) /\ EachFollows(d, Script[d]) /\ InOrder(Script[d])
  /\ d \in {"poison_dlq", "broker_slo"} => Occurs("resume", Script[d])
  /\ d = "broker_slo" => Occurs("release_gate", Script[d])

-----------------------------------------------------------------------------
(* The inductive invariant. *)

\* A step with this helper is still to come, or under way.
ToCome(op) == \E j \in pc .. Len(Script[drill]) : Script[drill][j].do = op

ScriptInv ==
  /\ drill \in Drills /\ pc \in 1 .. Len(Script[drill])
  /\ verdict \in {"none", "passed", "failed"}
  /\ kafkaUp \in BOOLEAN /\ owned \in BOOLEAN /\ paused \in BOOLEAN
  /\ released \in BOOLEAN /\ cleaned \in BOOLEAN
  /\ job \in {"absent", "STARTING", "RUNNING", "CANCELING"}
  /\ connector \in {"RUNNING", "PAUSING", "PAUSED", "FAILED"}
  /\ cleaned => verdict # "none"
  /\ reason = "answer_lost" => verdict # "none"
  /\ verdict # "none" => Step.do \notin Flags

\* No job runs when the group is rewound and a job submitted that reads from it.
GroupInv ==
  /\ Step.do \in {"rewind_group", "submit_committed"} => job = "absent"
  /\ Step.do = "submit_committed" => group = 0
  /\ drill \in {"duplicate_redelivery", "broker_slo"} => start = 0

\* A job is on its way only while it is waited for, and the drill lists it but
\* for the moments around its submission.
JobInv ==
  /\ job = "STARTING" => Step.do = "await_job" \/ (drill \in Early /\ Step.do = "own")
  /\ job \in {"STARTING", "RUNNING"} /\ drill # "broker_slo" /\ ~cleaned =>
       owned \/ Step.do \in {"await_job", "own"}
  /\ drill \in Early /\ Step.do = "await_job" => owned

\* A connector that is paused will be resumed, and the flag says so.
Paused == connector \in {"PAUSING", "PAUSED"}
PauseInv ==
  /\ Paused => drill \in {"poison_dlq", "broker_slo"} /\ (ToCome("resume") \/ cleaned)
  /\ Paused /\ ~paused =>
       drill = "poison_dlq" /\ (Step.do = "flag_paused" \/ reason = "answer_lost")
  /\ drill = "broker_slo" /\ Step.do = "pause" => paused

KafkaInv == ~kafkaUp => drill \in {"broker_restart", "broker_slo"}

\* Behind its gate, the producer of the SLO run has nothing but its workload.
GateInv ==
  drill = "broker_slo" =>
    /\ binlog \in Seq([row : Nat, version : Nat]) /\ toInsert \in Nat
    /\ ToCome("start_gated_producer") => binlog = <<>> /\ toInsert = 0
    /\ ~released =>
         /\ ToCome("release_gate")
         /\ toInsert + Len(binlog) = Events /\ Len(binlog) <= Threshold

IInv ==
  /\ ScriptInv /\ GroupInv /\ JobInv /\ PauseInv /\ KafkaInv /\ GateInv /\ CleansUp

-----------------------------------------------------------------------------
(* The scripts are legal.  A script is put together from stretches: below, p3 *)
(* is the third part of a script, q3 its first three.                         *)

\* The value of a step, and what a sequence takes its values from.
LEMMA Steps ==
  /\ \A op : Do(op).do = op /\ Do(op).n = 0
  /\ \A op, n : DoN(op, n).do = op /\ DoN(op, n).n = n
BY DEF Do, DoN

Elements(s) == {s[i] : i \in 1 .. Len(s)}

\* Sequences put together are a sequence.
LEMMA JoinSeq ==
  ASSUME NEW s, NEW t, s \in Seq(Elements(s)), t \in Seq(Elements(t))
  PROVE  s \o t \in Seq(Elements(s \o t))
<1> DEFINE S == Elements(s) \cup Elements(t)
           u == s \o t
<1>1. u \in Seq(S)
  BY s \in Seq(S), t \in Seq(S)
<1> HIDE DEF u
<1>2. Len(u) \in Nat /\ u = [i \in 1 .. Len(u) |-> u[i]]
  BY <1>1
<1>3. \A i \in 1 .. Len(u) : u[i] \in Elements(u)
  BY DEF Elements
<1>4. u \in Seq(Elements(u))
  BY <1>2, <1>3
<1> QED BY <1>4 DEF u

\* The steps whose order matters at a distance: around the pause of the connector,
\* and around the gate of the producer.
PauseSteps == {"pause", "resume", "flag_resumed", "insert_row"}
GateSteps == {"start_gated_producer", "release_gate"}
Marked == PauseSteps \cup GateSteps

\* A stretch of a script of drill d, from its first step to its last, with the
\* marked steps it takes.
Piece(d, s, first, last, marks) ==
  /\ s \in Seq(Elements(s)) /\ Len(s) \in Nat \ {0}
  /\ s[1].do = first /\ s[Len(s)].do = last
  /\ EachAllowed(d, s) /\ EachFollows(d, s) /\ InOrder(s)
  /\ \A i \in 1 .. Len(s) : s[i].do \in Marked => s[i].do \in marks
  /\ \A op \in marks : Occurs(op, s)

\* Two stretches make one, if the second may begin where the first ends.
LEMMA Join ==
  ASSUME NEW d, NEW s, NEW t, NEW a, NEW b, NEW c, NEW e, NEW M, NEW N, NEW K,
         Piece(d, s, a, b, M), Piece(d, t, c, e, N), May(d, b, c),
         \A x \in M, y \in N : ~Bad(x, y), K = M \cup N
  PROVE  Piece(d, s \o t, a, e, K)
<1> DEFINE u == s \o t
<1>1. /\ s \in Seq(Elements(s)) /\ Len(s) \in Nat /\ Len(s) > 0
      /\ t \in Seq(Elements(t)) /\ Len(t) \in Nat /\ Len(t) > 0
      /\ s[1].do = a /\ s[Len(s)].do = b /\ t[1].do = c /\ t[Len(t)].do = e
  BY DEF Piece
<1>2. /\ u \in Seq(Elements(u)) /\ Len(u) = Len(s) + Len(t)
      /\ \A i \in 1 .. Len(s) : u[i] = s[i]
      /\ \A i \in 1 .. Len(u) : i > Len(s) =>
           i - Len(s) \in 1 .. Len(t) /\ u[i] = t[i - Len(s)]
  BY <1>1, JoinSeq
<1> HIDE DEF u
<1>3. \A i \in 1 .. Len(u) : \/ i \in 1 .. Len(s) /\ u[i] = s[i]
                             \/ i - Len(s) \in 1 .. Len(t) /\ u[i] = t[i - Len(s)]
  BY <1>1, <1>2
<1>4. u[1].do = a /\ u[Len(u)].do = e
  <2>1. /\ 1 \in 1 .. Len(s) /\ Len(u) \in 1 .. Len(u)
        /\ Len(u) > Len(s) /\ Len(u) - Len(s) = Len(t)
    BY <1>1, <1>2
  <2> QED BY <1>1, <1>2, <2>1
<1>5. EachAllowed(d, u)
  BY <1>3 DEF Piece, EachAllowed
<1>6. ASSUME NEW i \in 1 .. Len(u) - 1 PROVE May(d, u[i].do, u[i + 1].do)
  <2>1. CASE i < Len(s)
    <3>1. i \in 1 .. Len(s) - 1 /\ u[i] = s[i] /\ u[i + 1] = s[i + 1]
      BY <1>1, <1>2, <2>1
    <3> QED BY <3>1 DEF Piece, EachFollows
  <2>2. CASE i = Len(s)
    <3>1. i + 1 - Len(s) = 1 /\ i + 1 > Len(s) /\ i + 1 \in 1 .. Len(u) /\ i \in 1 .. Len(s)
      BY <1>1, <1>2, <2>2
    <3>2. u[i].do = b /\ u[i + 1].do = c
      BY <1>1, <1>2, <2>2, <3>1
    <3> QED BY <3>2
  <2>3. CASE i > Len(s)
    <3>1. PICK k \in Nat : k = i - Len(s)
      <4>1. i \in Nat
        BY <1>1, <1>2
      <4>2. i - Len(s) \in Nat
        BY <1>1, <2>3, <4>1
      <4> QED BY <4>2
    <3>2. Len(u) \in Nat /\ i \in Nat /\ i >= 1 /\ i + 1 <= Len(s) + Len(t)
      BY <1>1, <1>2
    <3>3. /\ i \in 1 .. Len(u) /\ i + 1 \in 1 .. Len(u) /\ i + 1 > Len(s)
          /\ k \in 1 .. Len(t) - 1 /\ (i + 1) - Len(s) = k + 1
      <4>1. i \in 1 .. Len(u) /\ i + 1 \in 1 .. Len(u)
        BY <1>2, <3>2
      <4>2. k >= 1 /\ k <= Len(t) - 1 /\ i + 1 > Len(s) /\ (i + 1) - Len(s) = k + 1
        BY <1>1, <2>3, <3>1, <3>2
      <4> QED BY <1>1, <3>1, <4>1, <4>2
    <3>4. u[i] = t[k]
      BY <1>2, <2>3, <3>1, <3>3
    <3>5. u[i + 1] = t[k + 1]
      BY <1>2, <3>3
    <3> QED BY <3>3, <3>4, <3>5 DEF Piece, EachFollows
  <2> QED BY <1>1, <2>1, <2>2, <2>3
<1>7. \A i \in 1 .. Len(u) : u[i].do \in Marked => u[i].do \in K
  BY <1>3 DEF Piece
<1>8. ASSUME NEW i \in 1 .. Len(u), NEW j \in 1 .. Len(u), i < j
      PROVE  ~Bad(u[i].do, u[j].do)
  <2>1. CASE j <= Len(s)
    <3>1. i \in 1 .. Len(s) /\ j \in 1 .. Len(s) /\ u[i] = s[i] /\ u[j] = s[j]
      BY <1>1, <1>2, <1>8, <2>1
    <3> QED BY <1>8, <3>1 DEF Piece, InOrder
  <2>2. CASE i > Len(s)
    <3>1. i - Len(s) < j - Len(s) /\ j > Len(s)
      BY <1>1, <1>8, <2>2
    <3>2. /\ i - Len(s) \in 1 .. Len(t) /\ j - Len(s) \in 1 .. Len(t)
          /\ u[i] = t[i - Len(s)] /\ u[j] = t[j - Len(s)]
      BY <1>2, <2>2, <3>1
    <3> QED BY <3>1, <3>2 DEF Piece, InOrder
  <2>3. CASE i <= Len(s) /\ j > Len(s)
    <3>1. /\ i \in 1 .. Len(s) /\ u[i] = s[i]
          /\ j - Len(s) \in 1 .. Len(t) /\ u[j] = t[j - Len(s)]
      BY <1>1, <1>2, <2>3
    <3>2. /\ u[i].do \in Marked => u[i].do \in M
          /\ u[j].do \in Marked => u[j].do \in N
      BY <3>1 DEF Piece
    <3>3. \A x, y : Bad(x, y) => x \in Marked /\ y \in Marked
      BY DEF Bad, Marked, PauseSteps, GateSteps
    <3> QED BY <3>2, <3>3
  <2> QED BY <1>1, <2>1, <2>2, <2>3
<1>9. u \in Seq(Elements(u)) /\ Len(u) \in Nat \ {0}
  BY <1>1, <1>2
<1>10. ASSUME NEW op \in K PROVE Occurs(op, u)
  <2>1. CASE op \in M
    <3>1. PICK i \in 1 .. Len(s) : s[i].do = op
      BY <2>1 DEF Piece, Occurs
    <3>2. i \in 1 .. Len(u) /\ u[i].do = op
      BY <1>1, <1>2, <3>1
    <3> QED BY <3>2 DEF Occurs
  <2>2. CASE op \in N
    <3>1. PICK i \in 1 .. Len(t) : t[i].do = op
      BY <2>2 DEF Piece, Occurs
    <3>2. i + Len(s) \in 1 .. Len(u) /\ i + Len(s) > Len(s) /\ (i + Len(s)) - Len(s) = i
      BY <1>1, <1>2, <3>1
    <3>3. u[i + Len(s)] = t[i]
      BY <1>2, <3>2
    <3> QED BY <3>1, <3>2, <3>3 DEF Occurs
  <2> QED BY <2>1, <2>2
<1> QED BY <1>4, <1>5, <1>6, <1>7, <1>8, <1>9, <1>10 DEF Piece, u, EachFollows, InOrder


\* The stretches of the scripts, one by one: the offset linkage,
LEMMA LinkageIsPiece ==
  ASSUME NEW d
  PROVE  Piece(d, Linkage, "require_checkpoint", "read_snapshots", {})
BY Steps DEF Linkage, Piece, Elements, Marked, PauseSteps, GateSteps, EachAllowed,
             Allowed, EachFollows, May, Early, Submits, InOrder, Bad, Occurs

\* the reconciliation,
LEMMA ReconciliationIsPiece ==
  ASSUME NEW d
  PROVE  Piece(d, Reconciliation, "read_source", "read_table", {})
BY Steps DEF Reconciliation, Piece, Elements, Marked, PauseSteps, GateSteps, EachAllowed,
             Allowed, EachFollows, May, Early, Submits, InOrder, Bad, Occurs

\* the cancellation that is waited for,
LEMMA CancelIsPiece ==
  ASSUME NEW d
  PROVE  Piece(d, CancelAndWait, "cancel", "await_absent", {})
BY Steps DEF CancelAndWait, Piece, Elements, Marked, PauseSteps, GateSteps, EachAllowed,
             Allowed, EachFollows, May, Early, Submits, InOrder, Bad, Occurs

\* the inserts of a producer that is joined,
LEMMA InsertIsPiece ==
  ASSUME NEW d, d # "broker_slo"
  PROVE  Piece(d, Insert, "start_producer", "join_producer", {})
BY Steps DEF Insert, Piece, Elements, Marked, PauseSteps, GateSteps, EachAllowed,
             Allowed, EachFollows, May, Early, Submits, InOrder, Bad, Occurs

\* the submission of a job that is the drill's own when it runs,
LEMMA SubmitIsPiece ==
  ASSUME NEW d, NEW how \in Submits, d \notin Early,
         how = "replay_timestamp" => d = "offset_replay"
  PROVE  Piece(d, Submit(how), how, "own", {})
BY Steps DEF Submit, Piece, Elements, Marked, PauseSteps, GateSteps, EachAllowed,
             Allowed, EachFollows, May, Early, Submits, InOrder, Bad, Occurs

\* the submission of one that is its own at once,
LEMMA SubmitOwnedIsPiece ==
  ASSUME NEW d, NEW how \in Submits \ {"submit_committed", "replay_timestamp"}, d \in Early
  PROVE  Piece(d, SubmitOwned(how), how, "await_job", {})
BY Steps DEF SubmitOwned, Piece, Elements, Marked, PauseSteps, GateSteps, EachAllowed,
             Allowed, EachFollows, May, Early, Submits, InOrder, Bad, Occurs

\* the miskeyed records,
LEMMA MiskeyedIsPiece ==
  ASSUME NEW d
  PROVE  Piece(d, Miskeyed, "produce_miskeyed", "produce_miskeyed", {})
BY Steps DEF Miskeyed, Piece, Elements, Marked, PauseSteps, GateSteps, EachAllowed,
             Allowed, EachFollows, May, Early, Submits, InOrder, Bad, Occurs

\* the reconciliation that is checked,
LEMMA ReconciledIsPiece ==
  ASSUME NEW d
  PROVE  Piece(d, Reconciled, "read_source", "check_reconciled", {})
<1> DEFINE p2 == <<Do("check_reconciled")>>
           q2 == Reconciliation \o p2
<1>1. Piece(d, Reconciliation, "read_source", "read_table", {})
  BY ReconciliationIsPiece
<1>2. Piece(d, p2, "check_reconciled", "check_reconciled", {})
  BY Steps DEF p2, Piece, Elements, Marked, PauseSteps, GateSteps, EachAllowed,
               Allowed, EachFollows, May, Early, Submits, InOrder, Bad, Occurs
<1> HIDE DEF p2
<1>3. Piece(d, q2, "read_source", "check_reconciled", {})
  BY <1>1, <1>2, Join DEF May, Early, Submits
<1> QED BY <1>3 DEF Reconciled, p2, q2

\* and the one that concludes a drill.
LEMMA ConclusionIsPiece ==
  ASSUME NEW d
  PROVE  Piece(d, Conclusion, "read_source", "verdict", {})
<1> DEFINE p2 == <<Do("audit"), Do("verdict")>>
           q2 == Reconciliation \o p2
<1>1. Piece(d, Reconciliation, "read_source", "read_table", {})
  BY ReconciliationIsPiece
<1>2. Piece(d, p2, "audit", "verdict", {})
  BY Steps DEF p2, Piece, Elements, Marked, PauseSteps, GateSteps, EachAllowed,
               Allowed, EachFollows, May, Early, Submits, InOrder, Bad, Occurs
<1> HIDE DEF p2
<1>3. Piece(d, q2, "read_source", "verdict", {})
  BY <1>1, <1>2, Join DEF May, Early, Submits
<1> QED BY <1>3 DEF Conclusion, p2, q2

\* The scripts, put together from stretches: the parity of the two paths,
LEMMA ParityIsLegal ==
  Piece("broker_parity", BrokerParity, "submit_cdc", "verdict", {})
<1> DEFINE d == "broker_parity"
           p3 == <<DoN("await_rows", Events)>>
           p5 == <<Do("remember_original"), Do("require_checkpoint"), DoN("check_changelog",
                   Events), DoN("await_topic", Events)>>
           p7 == <<Do("reset_tables")>>
           p9 == <<Do("await_original"), Do("read_table")>>
           p11 == <<DoN("check_changelog", Events), Do("verdict")>>
           q2 == SubmitOwned("submit_cdc") \o Insert
           q3 == q2 \o p3
           q4 == q3 \o Reconciled
           q5 == q4 \o p5
           q6 == q5 \o CancelAndWait
           q7 == q6 \o p7
           q8 == q7 \o SubmitOwned("submit")
           q9 == q8 \o p9
           q10 == q9 \o Linkage
           q11 == q10 \o p11
<1>1. /\ Piece(d, SubmitOwned("submit_cdc"), "submit_cdc", "await_job", {})
      /\ Piece(d, Insert, "start_producer", "join_producer", {})
      /\ Piece(d, Reconciled, "read_source", "check_reconciled", {})
      /\ Piece(d, CancelAndWait, "cancel", "await_absent", {})
      /\ Piece(d, SubmitOwned("submit"), "submit", "await_job", {})
      /\ Piece(d, Linkage, "require_checkpoint", "read_snapshots", {})
  BY SubmitOwnedIsPiece, InsertIsPiece, ReconciledIsPiece, CancelIsPiece, LinkageIsPiece DEF
     Early, Submits
<1>2. Piece(d, p3, "await_rows", "await_rows", {})
  BY Steps DEF p3, Piece, Elements, Marked, PauseSteps, GateSteps, EachAllowed,
               Allowed, EachFollows, May, Early, Submits, InOrder, Bad, Occurs
<1>3. Piece(d, p5, "remember_original", "await_topic", {})
  BY Steps DEF p5, Piece, Elements, Marked, PauseSteps, GateSteps, EachAllowed,
               Allowed, EachFollows, May, Early, Submits, InOrder, Bad, Occurs
<1>4. Piece(d, p7, "reset_tables", "reset_tables", {})
  BY Steps DEF p7, Piece, Elements, Marked, PauseSteps, GateSteps, EachAllowed,
               Allowed, EachFollows, May, Early, Submits, InOrder, Bad, Occurs
<1>5. Piece(d, p9, "await_original", "read_table", {})
  BY Steps DEF p9, Piece, Elements, Marked, PauseSteps, GateSteps, EachAllowed,
               Allowed, EachFollows, May, Early, Submits, InOrder, Bad, Occurs
<1>6. Piece(d, p11, "check_changelog", "verdict", {})
  BY Steps DEF p11, Piece, Elements, Marked, PauseSteps, GateSteps, EachAllowed,
               Allowed, EachFollows, May, Early, Submits, InOrder, Bad, Occurs
<1> HIDE DEF p3, p5, p7, p9, p11
<1>7. Piece(d, q2, "submit_cdc", "join_producer", {})
  BY <1>1, Join DEF May, Early, Submits
<1>8. Piece(d, q3, "submit_cdc", "await_rows", {})
  BY <1>7, <1>2, Join DEF May, Early, Submits
<1>9. Piece(d, q4, "submit_cdc", "check_reconciled", {})
  BY <1>8, <1>1, Join DEF May, Early, Submits
<1>10. Piece(d, q5, "submit_cdc", "await_topic", {})
  BY <1>9, <1>3, Join DEF May, Early, Submits
<1>11. Piece(d, q6, "submit_cdc", "await_absent", {})
  BY <1>10, <1>1, Join DEF May, Early, Submits
<1>12. Piece(d, q7, "submit_cdc", "reset_tables", {})
  BY <1>11, <1>4, Join DEF May, Early, Submits
<1>13. Piece(d, q8, "submit_cdc", "await_job", {})
  BY <1>12, <1>1, Join DEF May, Early, Submits
<1>14. Piece(d, q9, "submit_cdc", "read_table", {})
  BY <1>13, <1>5, Join DEF May, Early, Submits
<1>15. Piece(d, q10, "submit_cdc", "read_snapshots", {})
  BY <1>14, <1>1, Join DEF May, Early, Submits
<1>16. Piece(d, q11, "submit_cdc", "verdict", {})
  BY <1>15, <1>6, Join DEF May, Early, Submits
<1> QED BY <1>16 DEF BrokerParity, p3, p5, p7, p9, p11, q2, q3, q4, q5, q6, q7, q8, q9, q10,
        q11

\* the schema contract,
LEMMA SchemaIsLegal ==
  Piece("schema_contract", SchemaContract, "check_connector", "verdict", {"insert_row"})
<1> DEFINE d == "schema_contract"
           p1 == <<Do("check_connector")>>
           p4 == <<DoN("await_topic", Events), DoN("await_rows", Events)>>
           p6 == <<Do("require_checkpoint"), Do("remember_checkpoint"),
                   Do("await_zero_lag"), Do("await_subject"), Do("register"),
                   Do("check_rejected"), Do("check_listed"), Do("check_connector"),
                   Do("insert_row"), DoN("await_topic", Events + 1), DoN("await_rows",
                   Events + 1), Do("await_checkpoint_after"), Do("require_checkpoint"),
                   Do("await_zero_lag")>>
           p8 == <<Do("check_connector"), Do("check_rejected"), Do("verdict")>>
           q2 == p1 \o SubmitOwned("submit")
           q3 == q2 \o Insert
           q4 == q3 \o p4
           q5 == q4 \o Reconciled
           q6 == q5 \o p6
           q7 == q6 \o Reconciled
           q8 == q7 \o p8
<1>1. /\ Piece(d, SubmitOwned("submit"), "submit", "await_job", {})
      /\ Piece(d, Insert, "start_producer", "join_producer", {})
      /\ Piece(d, Reconciled, "read_source", "check_reconciled", {})
  BY SubmitOwnedIsPiece, InsertIsPiece, ReconciledIsPiece DEF Early, Submits
<1>2. Piece(d, p1, "check_connector", "check_connector", {})
  BY Steps DEF p1, Piece, Elements, Marked, PauseSteps, GateSteps, EachAllowed,
               Allowed, EachFollows, May, Early, Submits, InOrder, Bad, Occurs
<1>3. Piece(d, p4, "await_topic", "await_rows", {})
  BY Steps DEF p4, Piece, Elements, Marked, PauseSteps, GateSteps, EachAllowed,
               Allowed, EachFollows, May, Early, Submits, InOrder, Bad, Occurs
<1>4. Piece(d, p6, "require_checkpoint", "await_zero_lag", {"insert_row"})
  BY Steps DEF p6, Piece, Elements, Marked, PauseSteps, GateSteps, EachAllowed,
               Allowed, EachFollows, May, Early, Submits, InOrder, Bad, Occurs
<1>5. Piece(d, p8, "check_connector", "verdict", {})
  BY Steps DEF p8, Piece, Elements, Marked, PauseSteps, GateSteps, EachAllowed,
               Allowed, EachFollows, May, Early, Submits, InOrder, Bad, Occurs
<1> HIDE DEF p1, p4, p6, p8
<1>6. Piece(d, q2, "check_connector", "await_job", {})
  BY <1>2, <1>1, Join DEF May, Early, Submits
<1>7. Piece(d, q3, "check_connector", "join_producer", {})
  BY <1>6, <1>1, Join DEF May, Early, Submits
<1>8. Piece(d, q4, "check_connector", "await_rows", {})
  BY <1>7, <1>3, Join DEF May, Early, Submits
<1>9. Piece(d, q5, "check_connector", "check_reconciled", {})
  BY <1>8, <1>1, Join DEF May, Early, Submits
<1>10. Piece(d, q6, "check_connector", "await_zero_lag", {"insert_row"})
  BY <1>9, <1>4, Join DEF May, Early, Submits
<1>11. Piece(d, q7, "check_connector", "check_reconciled", {"insert_row"})
  BY <1>10, <1>1, Join DEF May, Early, Submits
<1>12. Piece(d, q8, "check_connector", "verdict", {"insert_row"})
  BY <1>11, <1>5, Join DEF May, Early, Submits
<1> QED BY <1>12 DEF SchemaContract, p1, p4, p6, p8, q2, q3, q4, q5, q6, q7, q8

\* the restart of the broker,
LEMMA RestartIsLegal ==
  Piece("broker_restart", BrokerRestart, "submit", "verdict", {})
<1> DEFINE d == "broker_restart"
           p2 == <<Do("require_checkpoint"), Do("remember_checkpoint"),
                   DoN("start_producer", Events), Do("await_streaming"),
                   Do("check_producer"), Do("read_offsets"), Do("kill_kafka"),
                   Do("start_kafka"), Do("await_connector")>>
           q2 == Submit("submit") \o p2
           q3 == q2 \o Drain
           q4 == q3 \o Linkage
           q5 == q4 \o Conclusion
<1>1. /\ Piece(d, Submit("submit"), "submit", "own", {})
      /\ Piece(d, Linkage, "require_checkpoint", "read_snapshots", {})
      /\ Piece(d, Conclusion, "read_source", "verdict", {})
  BY SubmitIsPiece, LinkageIsPiece, ConclusionIsPiece DEF Early, Submits
<1>2. Piece(d, p2, "require_checkpoint", "await_connector", {})
  BY Steps DEF p2, Piece, Elements, Marked, PauseSteps, GateSteps, EachAllowed,
               Allowed, EachFollows, May, Early, Submits, InOrder, Bad, Occurs
<1>3. Piece(d, Drain, "join_producer", "await_rows", {})
  BY Steps DEF Drain, Piece, Elements, Marked, PauseSteps, GateSteps, EachAllowed,
               Allowed, EachFollows, May, Early, Submits, InOrder, Bad, Occurs
<1> HIDE DEF p2
<1>4. Piece(d, q2, "submit", "await_connector", {})
  BY <1>1, <1>2, Join DEF May, Early, Submits
<1>5. Piece(d, q3, "submit", "await_rows", {})
  BY <1>4, <1>3, Join DEF May, Early, Submits
<1>6. Piece(d, q4, "submit", "read_snapshots", {})
  BY <1>5, <1>1, Join DEF May, Early, Submits
<1>7. Piece(d, q5, "submit", "verdict", {})
  BY <1>6, <1>1, Join DEF May, Early, Submits
<1> QED BY <1>7 DEF BrokerRestart, p2, q2, q3, q4, q5

\* the second delivery,
LEMMA DuplicateIsLegal ==
  Piece("duplicate_redelivery", DuplicateRedelivery, "submit_committed", "verdict", {})
<1> DEFINE d == "duplicate_redelivery"
           p3 == <<DoN("await_rows", Events)>>
           p5 == <<DoN("check_changelog", Events)>>
           p7 == <<Do("rewind_group")>>
           p9 == <<DoN("await_changelog", 2 * Events)>>
           q2 == Submit("submit_committed") \o Insert
           q3 == q2 \o p3
           q4 == q3 \o Linkage
           q5 == q4 \o p5
           q6 == q5 \o CancelAndWait
           q7 == q6 \o p7
           q8 == q7 \o Submit("submit_committed")
           q9 == q8 \o p9
           q10 == q9 \o Linkage
           q11 == q10 \o Conclusion
<1>1. /\ Piece(d, Submit("submit_committed"), "submit_committed", "own", {})
      /\ Piece(d, Insert, "start_producer", "join_producer", {})
      /\ Piece(d, Linkage, "require_checkpoint", "read_snapshots", {})
      /\ Piece(d, CancelAndWait, "cancel", "await_absent", {})
      /\ Piece(d, Conclusion, "read_source", "verdict", {})
  BY SubmitIsPiece, InsertIsPiece, LinkageIsPiece, CancelIsPiece, ConclusionIsPiece DEF
     Early, Submits
<1>2. Piece(d, p3, "await_rows", "await_rows", {})
  BY Steps DEF p3, Piece, Elements, Marked, PauseSteps, GateSteps, EachAllowed,
               Allowed, EachFollows, May, Early, Submits, InOrder, Bad, Occurs
<1>3. Piece(d, p5, "check_changelog", "check_changelog", {})
  BY Steps DEF p5, Piece, Elements, Marked, PauseSteps, GateSteps, EachAllowed,
               Allowed, EachFollows, May, Early, Submits, InOrder, Bad, Occurs
<1>4. Piece(d, p7, "rewind_group", "rewind_group", {})
  BY Steps DEF p7, Piece, Elements, Marked, PauseSteps, GateSteps, EachAllowed,
               Allowed, EachFollows, May, Early, Submits, InOrder, Bad, Occurs
<1>5. Piece(d, p9, "await_changelog", "await_changelog", {})
  BY Steps DEF p9, Piece, Elements, Marked, PauseSteps, GateSteps, EachAllowed,
               Allowed, EachFollows, May, Early, Submits, InOrder, Bad, Occurs
<1> HIDE DEF p3, p5, p7, p9
<1>6. Piece(d, q2, "submit_committed", "join_producer", {})
  BY <1>1, Join DEF May, Early, Submits
<1>7. Piece(d, q3, "submit_committed", "await_rows", {})
  BY <1>6, <1>2, Join DEF May, Early, Submits
<1>8. Piece(d, q4, "submit_committed", "read_snapshots", {})
  BY <1>7, <1>1, Join DEF May, Early, Submits
<1>9. Piece(d, q5, "submit_committed", "check_changelog", {})
  BY <1>8, <1>3, Join DEF May, Early, Submits
<1>10. Piece(d, q6, "submit_committed", "await_absent", {})
  BY <1>9, <1>1, Join DEF May, Early, Submits
<1>11. Piece(d, q7, "submit_committed", "rewind_group", {})
  BY <1>10, <1>4, Join DEF May, Early, Submits
<1>12. Piece(d, q8, "submit_committed", "own", {})
  BY <1>11, <1>1, Join DEF May, Early, Submits
<1>13. Piece(d, q9, "submit_committed", "await_changelog", {})
  BY <1>12, <1>5, Join DEF May, Early, Submits
<1>14. Piece(d, q10, "submit_committed", "read_snapshots", {})
  BY <1>13, <1>1, Join DEF May, Early, Submits
<1>15. Piece(d, q11, "submit_committed", "verdict", {})
  BY <1>14, <1>1, Join DEF May, Early, Submits
<1> QED BY <1>15 DEF DuplicateRedelivery, p3, p5, p7, p9, q2, q3, q4, q5, q6, q7, q8, q9,
        q10, q11

\* the miskeyed records,
LEMMA MiskeyIsLegal ==
  Piece("ordering_miskey", OrderingMiskey, "submit", "verdict", {})
<1> DEFINE d == "ordering_miskey"
           p3 == <<DoN("await_rows", Events)>>
           p6 == <<Do("audit")>>
           p9 == <<DoN("await_probe", 6), Do("check_probe"), Do("verdict")>>
           q2 == Submit("submit") \o Insert
           q3 == q2 \o p3
           q4 == q3 \o Linkage
           q5 == q4 \o Reconciliation
           q6 == q5 \o p6
           q7 == q6 \o Keyed
           q8 == q7 \o Miskeyed
           q9 == q8 \o p9
<1>1. /\ Piece(d, Submit("submit"), "submit", "own", {})
      /\ Piece(d, Insert, "start_producer", "join_producer", {})
      /\ Piece(d, Linkage, "require_checkpoint", "read_snapshots", {})
      /\ Piece(d, Reconciliation, "read_source", "read_table", {})
      /\ Piece(d, Miskeyed, "produce_miskeyed", "produce_miskeyed", {})
  BY SubmitIsPiece, InsertIsPiece, LinkageIsPiece, ReconciliationIsPiece, MiskeyedIsPiece
     DEF Early, Submits
<1>2. Piece(d, p3, "await_rows", "await_rows", {})
  BY Steps DEF p3, Piece, Elements, Marked, PauseSteps, GateSteps, EachAllowed,
               Allowed, EachFollows, May, Early, Submits, InOrder, Bad, Occurs
<1>3. Piece(d, p6, "audit", "audit", {})
  BY Steps DEF p6, Piece, Elements, Marked, PauseSteps, GateSteps, EachAllowed,
               Allowed, EachFollows, May, Early, Submits, InOrder, Bad, Occurs
<1>4. Piece(d, Keyed, "produce_keyed", "produce_keyed", {})
  BY Steps DEF Keyed, Piece, Elements, Marked, PauseSteps, GateSteps, EachAllowed,
               Allowed, EachFollows, May, Early, Submits, InOrder, Bad, Occurs
<1>5. Piece(d, p9, "await_probe", "verdict", {})
  BY Steps DEF p9, Piece, Elements, Marked, PauseSteps, GateSteps, EachAllowed,
               Allowed, EachFollows, May, Early, Submits, InOrder, Bad, Occurs
<1> HIDE DEF p3, p6, p9
<1>6. Piece(d, q2, "submit", "join_producer", {})
  BY <1>1, Join DEF May, Early, Submits
<1>7. Piece(d, q3, "submit", "await_rows", {})
  BY <1>6, <1>2, Join DEF May, Early, Submits
<1>8. Piece(d, q4, "submit", "read_snapshots", {})
  BY <1>7, <1>1, Join DEF May, Early, Submits
<1>9. Piece(d, q5, "submit", "read_table", {})
  BY <1>8, <1>1, Join DEF May, Early, Submits
<1>10. Piece(d, q6, "submit", "audit", {})
  BY <1>9, <1>3, Join DEF May, Early, Submits
<1>11. Piece(d, q7, "submit", "produce_keyed", {})
  BY <1>10, <1>4, Join DEF May, Early, Submits
<1>12. Piece(d, q8, "submit", "produce_miskeyed", {})
  BY <1>11, <1>1, Join DEF May, Early, Submits
<1>13. Piece(d, q9, "submit", "verdict", {})
  BY <1>12, <1>5, Join DEF May, Early, Submits
<1> QED BY <1>13 DEF OrderingMiskey, p3, p6, p9, q2, q3, q4, q5, q6, q7, q8, q9

\* the poison message,
LEMMA PoisonIsLegal ==
  Piece("poison_dlq", PoisonDlq, "submit", "verdict", PauseSteps)
<1> DEFINE d == "poison_dlq"
           p3 == <<DoN("await_rows", Events)>>
           p5 == <<Do("require_checkpoint"), Do("remember_checkpoint"), Do("pause"),
                   Do("flag_paused"), Do("await_paused"), Do("insert_row"),
                   Do("produce_poison"), DoN("await_dlq", 1), Do("await_checkpoint_after"),
                   Do("produce_repair"), DoN("await_rows", Events + 1)>>
           p8 == <<Do("resume"), Do("flag_resumed"), Do("await_connector"),
                   Do("insert_row"), DoN("await_rows", Events + 2)>>
           q2 == Submit("submit") \o Insert
           q3 == q2 \o p3
           q4 == q3 \o Linkage
           q5 == q4 \o p5
           q6 == q5 \o Linkage
           q7 == q6 \o Reconciled
           q8 == q7 \o p8
           q9 == q8 \o Linkage
           q10 == q9 \o Conclusion
<1>1. /\ Piece(d, Submit("submit"), "submit", "own", {})
      /\ Piece(d, Insert, "start_producer", "join_producer", {})
      /\ Piece(d, Linkage, "require_checkpoint", "read_snapshots", {})
      /\ Piece(d, Reconciled, "read_source", "check_reconciled", {})
      /\ Piece(d, Conclusion, "read_source", "verdict", {})
  BY SubmitIsPiece, InsertIsPiece, LinkageIsPiece, ReconciledIsPiece, ConclusionIsPiece DEF
     Early, Submits
<1>2. Piece(d, p3, "await_rows", "await_rows", {})
  BY Steps DEF p3, Piece, Elements, Marked, PauseSteps, GateSteps, EachAllowed,
               Allowed, EachFollows, May, Early, Submits, InOrder, Bad, Occurs
<1>3. Piece(d, p5, "require_checkpoint", "await_rows", {"pause", "insert_row"})
  BY Steps DEF p5, Piece, Elements, Marked, PauseSteps, GateSteps, EachAllowed,
               Allowed, EachFollows, May, Early, Submits, InOrder, Bad, Occurs
<1>4. Piece(d, p8, "resume", "await_rows", {"resume", "flag_resumed", "insert_row"})
  BY Steps DEF p8, Piece, Elements, Marked, PauseSteps, GateSteps, EachAllowed,
               Allowed, EachFollows, May, Early, Submits, InOrder, Bad, Occurs
<1> HIDE DEF p3, p5, p8
<1>5. Piece(d, q2, "submit", "join_producer", {})
  BY <1>1, Join DEF May, Early, Submits
<1>6. Piece(d, q3, "submit", "await_rows", {})
  BY <1>5, <1>2, Join DEF May, Early, Submits
<1>7. Piece(d, q4, "submit", "read_snapshots", {})
  BY <1>6, <1>1, Join DEF May, Early, Submits
<1>8. Piece(d, q5, "submit", "await_rows", {"pause", "insert_row"})
  BY <1>7, <1>3, Join DEF May, Early, Submits
<1>9. Piece(d, q6, "submit", "read_snapshots", {"pause", "insert_row"})
  BY <1>8, <1>1, Join DEF May, Early, Submits
<1>10. Piece(d, q7, "submit", "check_reconciled", {"pause", "insert_row"})
  BY <1>9, <1>1, Join DEF May, Early, Submits
<1>11. Piece(d, q8, "submit", "await_rows", PauseSteps)
  BY <1>10, <1>4, Join DEF May, Early, Submits, Marked, PauseSteps, GateSteps, Bad
<1>12. Piece(d, q9, "submit", "read_snapshots", PauseSteps)
  BY <1>11, <1>1, Join DEF May, Early, Submits, Marked, PauseSteps, GateSteps
<1>13. Piece(d, q10, "submit", "verdict", PauseSteps)
  BY <1>12, <1>1, Join DEF May, Early, Submits, Marked, PauseSteps, GateSteps
<1> QED BY <1>13 DEF PoisonDlq, p3, p5, p8, q2, q3, q4, q5, q6, q7, q8, q9, q10

\* and the replay from a timestamp.
LEMMA ReplayIsLegal ==
  Piece("offset_replay", OffsetReplay, "submit", "verdict", {})
<1> DEFINE d == "offset_replay"
           p3 == <<DoN("await_rows", Events)>>
           p5 == <<Do("choose_timestamp"), Do("update_sweep"), Do("await_convergence")>>
           p8 == <<Do("remember_original")>>
           p10 == <<Do("reset_tables")>>
           p12 == <<Do("await_convergence")>>
           p14 == <<Do("read_table"), Do("check_original")>>
           p16 == <<Do("reset_tables")>>
           p18 == <<Do("await_convergence")>>
           q2 == Submit("submit") \o Insert
           q3 == q2 \o p3
           q4 == q3 \o Linkage
           q5 == q4 \o p5
           q6 == q5 \o Linkage
           q7 == q6 \o Reconciliation
           q8 == q7 \o p8
           q9 == q8 \o CancelAndWait
           q10 == q9 \o p10
           q11 == q10 \o Submit("replay_earliest")
           q12 == q11 \o p12
           q13 == q12 \o Linkage
           q14 == q13 \o p14
           q15 == q14 \o CancelAndWait
           q16 == q15 \o p16
           q17 == q16 \o Submit("replay_timestamp")
           q18 == q17 \o p18
           q19 == q18 \o Linkage
           q20 == q19 \o Conclusion
<1>1. /\ Piece(d, Submit("submit"), "submit", "own", {})
      /\ Piece(d, Insert, "start_producer", "join_producer", {})
      /\ Piece(d, Linkage, "require_checkpoint", "read_snapshots", {})
      /\ Piece(d, Reconciliation, "read_source", "read_table", {})
      /\ Piece(d, CancelAndWait, "cancel", "await_absent", {})
      /\ Piece(d, Submit("replay_earliest"), "replay_earliest", "own", {})
      /\ Piece(d, Submit("replay_timestamp"), "replay_timestamp", "own", {})
      /\ Piece(d, Conclusion, "read_source", "verdict", {})
  BY SubmitIsPiece, InsertIsPiece, LinkageIsPiece, ReconciliationIsPiece, CancelIsPiece,
     ConclusionIsPiece DEF Early, Submits
<1>2. Piece(d, p3, "await_rows", "await_rows", {})
  BY Steps DEF p3, Piece, Elements, Marked, PauseSteps, GateSteps, EachAllowed,
               Allowed, EachFollows, May, Early, Submits, InOrder, Bad, Occurs
<1>3. Piece(d, p5, "choose_timestamp", "await_convergence", {})
  BY Steps DEF p5, Piece, Elements, Marked, PauseSteps, GateSteps, EachAllowed,
               Allowed, EachFollows, May, Early, Submits, InOrder, Bad, Occurs
<1>4. Piece(d, p8, "remember_original", "remember_original", {})
  BY Steps DEF p8, Piece, Elements, Marked, PauseSteps, GateSteps, EachAllowed,
               Allowed, EachFollows, May, Early, Submits, InOrder, Bad, Occurs
<1>5. Piece(d, p10, "reset_tables", "reset_tables", {})
  BY Steps DEF p10, Piece, Elements, Marked, PauseSteps, GateSteps, EachAllowed,
               Allowed, EachFollows, May, Early, Submits, InOrder, Bad, Occurs
<1>6. Piece(d, p12, "await_convergence", "await_convergence", {})
  BY Steps DEF p12, Piece, Elements, Marked, PauseSteps, GateSteps, EachAllowed,
               Allowed, EachFollows, May, Early, Submits, InOrder, Bad, Occurs
<1>7. Piece(d, p14, "read_table", "check_original", {})
  BY Steps DEF p14, Piece, Elements, Marked, PauseSteps, GateSteps, EachAllowed,
               Allowed, EachFollows, May, Early, Submits, InOrder, Bad, Occurs
<1>8. Piece(d, p16, "reset_tables", "reset_tables", {})
  BY Steps DEF p16, Piece, Elements, Marked, PauseSteps, GateSteps, EachAllowed,
               Allowed, EachFollows, May, Early, Submits, InOrder, Bad, Occurs
<1>9. Piece(d, p18, "await_convergence", "await_convergence", {})
  BY Steps DEF p18, Piece, Elements, Marked, PauseSteps, GateSteps, EachAllowed,
               Allowed, EachFollows, May, Early, Submits, InOrder, Bad, Occurs
<1> HIDE DEF p3, p5, p8, p10, p12, p14, p16, p18
<1>10. Piece(d, q2, "submit", "join_producer", {})
  BY <1>1, Join DEF May, Early, Submits
<1>11. Piece(d, q3, "submit", "await_rows", {})
  BY <1>10, <1>2, Join DEF May, Early, Submits
<1>12. Piece(d, q4, "submit", "read_snapshots", {})
  BY <1>11, <1>1, Join DEF May, Early, Submits
<1>13. Piece(d, q5, "submit", "await_convergence", {})
  BY <1>12, <1>3, Join DEF May, Early, Submits
<1>14. Piece(d, q6, "submit", "read_snapshots", {})
  BY <1>13, <1>1, Join DEF May, Early, Submits
<1>15. Piece(d, q7, "submit", "read_table", {})
  BY <1>14, <1>1, Join DEF May, Early, Submits
<1>16. Piece(d, q8, "submit", "remember_original", {})
  BY <1>15, <1>4, Join DEF May, Early, Submits
<1>17. Piece(d, q9, "submit", "await_absent", {})
  BY <1>16, <1>1, Join DEF May, Early, Submits
<1>18. Piece(d, q10, "submit", "reset_tables", {})
  BY <1>17, <1>5, Join DEF May, Early, Submits
<1>19. Piece(d, q11, "submit", "own", {})
  BY <1>18, <1>1, Join DEF May, Early, Submits
<1>20. Piece(d, q12, "submit", "await_convergence", {})
  BY <1>19, <1>6, Join DEF May, Early, Submits
<1>21. Piece(d, q13, "submit", "read_snapshots", {})
  BY <1>20, <1>1, Join DEF May, Early, Submits
<1>22. Piece(d, q14, "submit", "check_original", {})
  BY <1>21, <1>7, Join DEF May, Early, Submits
<1>23. Piece(d, q15, "submit", "await_absent", {})
  BY <1>22, <1>1, Join DEF May, Early, Submits
<1>24. Piece(d, q16, "submit", "reset_tables", {})
  BY <1>23, <1>8, Join DEF May, Early, Submits
<1>25. Piece(d, q17, "submit", "own", {})
  BY <1>24, <1>1, Join DEF May, Early, Submits
<1>26. Piece(d, q18, "submit", "await_convergence", {})
  BY <1>25, <1>9, Join DEF May, Early, Submits
<1>27. Piece(d, q19, "submit", "read_snapshots", {})
  BY <1>26, <1>1, Join DEF May, Early, Submits
<1>28. Piece(d, q20, "submit", "verdict", {})
  BY <1>27, <1>1, Join DEF May, Early, Submits
<1> QED BY <1>28 DEF OffsetReplay, p3, p5, p8, p10, p12, p14, p16, p18, q2, q3, q4, q5, q6,
        q7, q8, q9, q10, q11, q12, q13, q14, q15, q16, q17, q18, q19, q20

\* The SLO run measures each of them in turn: the restart,
LEMMA RestartMeasuredIsPiece ==
  Piece("broker_slo", RestartMeasured,
        "start_gated_producer", "check_reconciled", GateSteps)
<1> DEFINE d == "broker_slo"
           p1 == <<DoN("start_gated_producer", Events), Do("await_gate"),
                   Do("await_records"), Do("kill_kafka"), Do("release_gate"),
                   Do("start_kafka"), Do("join_producer"), Do("recover_delivery"),
                   DoN("await_rows", Events)>>
           q2 == p1 \o Linkage
           q3 == q2 \o Reconciled
<1>1. /\ Piece(d, Linkage, "require_checkpoint", "read_snapshots", {})
      /\ Piece(d, Reconciled, "read_source", "check_reconciled", {})
  BY LinkageIsPiece, ReconciledIsPiece
<1>2. Piece(d, p1, "start_gated_producer", "await_rows", GateSteps)
  BY Steps DEF p1, Piece, Elements, Marked, PauseSteps, GateSteps, EachAllowed,
               Allowed, EachFollows, May, Early, Submits, InOrder, Bad, Occurs
<1> HIDE DEF p1
<1>3. Piece(d, q2, "start_gated_producer", "read_snapshots", GateSteps)
  BY <1>2, <1>1, Join DEF May, Early, Submits, Marked, PauseSteps, GateSteps
<1>4. Piece(d, q3, "start_gated_producer", "check_reconciled", GateSteps)
  BY <1>3, <1>1, Join DEF May, Early, Submits, Marked, PauseSteps, GateSteps
<1> QED BY <1>4 DEF RestartMeasured, p1, q2, q3

\* the second delivery,
LEMMA DuplicateMeasuredIsPiece ==
  Piece("broker_slo", DuplicateMeasured, "disown", "own", {})
<1> DEFINE d == "broker_slo"
           p1 == <<Do("disown"), Do("count_changelog"), Do("count_repeats"),
                   Do("count_topic")>>
           p3 == <<Do("rewind_group"), Do("submit_committed"), Do("await_job"),
                   Do("await_replayed")>>
           p6 == <<Do("check_replayed"), Do("own")>>
           q2 == p1 \o CancelAndWait
           q3 == q2 \o p3
           q4 == q3 \o Linkage
           q5 == q4 \o Reconciliation
           q6 == q5 \o p6
<1>1. /\ Piece(d, CancelAndWait, "cancel", "await_absent", {})
      /\ Piece(d, Linkage, "require_checkpoint", "read_snapshots", {})
      /\ Piece(d, Reconciliation, "read_source", "read_table", {})
  BY CancelIsPiece, LinkageIsPiece, ReconciliationIsPiece
<1>2. Piece(d, p1, "disown", "count_topic", {})
  BY Steps DEF p1, Piece, Elements, Marked, PauseSteps, GateSteps, EachAllowed,
               Allowed, EachFollows, May, Early, Submits, InOrder, Bad, Occurs
<1>3. Piece(d, p3, "rewind_group", "await_replayed", {})
  BY Steps DEF p3, Piece, Elements, Marked, PauseSteps, GateSteps, EachAllowed,
               Allowed, EachFollows, May, Early, Submits, InOrder, Bad, Occurs
<1>4. Piece(d, p6, "check_replayed", "own", {})
  BY Steps DEF p6, Piece, Elements, Marked, PauseSteps, GateSteps, EachAllowed,
               Allowed, EachFollows, May, Early, Submits, InOrder, Bad, Occurs
<1> HIDE DEF p1, p3, p6
<1>5. Piece(d, q2, "disown", "await_absent", {})
  BY <1>2, <1>1, Join DEF May, Early, Submits
<1>6. Piece(d, q3, "disown", "await_replayed", {})
  BY <1>5, <1>3, Join DEF May, Early, Submits
<1>7. Piece(d, q4, "disown", "read_snapshots", {})
  BY <1>6, <1>1, Join DEF May, Early, Submits
<1>8. Piece(d, q5, "disown", "read_table", {})
  BY <1>7, <1>1, Join DEF May, Early, Submits
<1>9. Piece(d, q6, "disown", "own", {})
  BY <1>8, <1>4, Join DEF May, Early, Submits
<1> QED BY <1>9 DEF DuplicateMeasured, p1, p3, p6, q2, q3, q4, q5, q6

\* the miskeyed records,
LEMMA MiskeyMeasuredIsPiece ==
  Piece("broker_slo", MiskeyMeasured, "check_unprobed", "check_probe", {})
<1> DEFINE d == "broker_slo"
           p1 == <<Do("check_unprobed")>>
           p3 == <<DoN("await_probe", 3)>>
           p5 == <<Do("check_probe")>>
           q2 == p1 \o Miskeyed
           q3 == q2 \o p3
           q4 == q3 \o Reconciled
           q5 == q4 \o p5
<1>1. /\ Piece(d, Miskeyed, "produce_miskeyed", "produce_miskeyed", {})
      /\ Piece(d, Reconciled, "read_source", "check_reconciled", {})
  BY MiskeyedIsPiece, ReconciledIsPiece
<1>2. Piece(d, p1, "check_unprobed", "check_unprobed", {})
  BY Steps DEF p1, Piece, Elements, Marked, PauseSteps, GateSteps, EachAllowed,
               Allowed, EachFollows, May, Early, Submits, InOrder, Bad, Occurs
<1>3. Piece(d, p3, "await_probe", "await_probe", {})
  BY Steps DEF p3, Piece, Elements, Marked, PauseSteps, GateSteps, EachAllowed,
               Allowed, EachFollows, May, Early, Submits, InOrder, Bad, Occurs
<1>4. Piece(d, p5, "check_probe", "check_probe", {})
  BY Steps DEF p5, Piece, Elements, Marked, PauseSteps, GateSteps, EachAllowed,
               Allowed, EachFollows, May, Early, Submits, InOrder, Bad, Occurs
<1> HIDE DEF p1, p3, p5
<1>5. Piece(d, q2, "check_unprobed", "produce_miskeyed", {})
  BY <1>2, <1>1, Join DEF May, Early, Submits
<1>6. Piece(d, q3, "check_unprobed", "await_probe", {})
  BY <1>5, <1>3, Join DEF May, Early, Submits
<1>7. Piece(d, q4, "check_unprobed", "check_reconciled", {})
  BY <1>6, <1>1, Join DEF May, Early, Submits
<1>8. Piece(d, q5, "check_unprobed", "check_probe", {})
  BY <1>7, <1>4, Join DEF May, Early, Submits
<1> QED BY <1>8 DEF MiskeyMeasured, p1, p3, p5, q2, q3, q4, q5

\* the poison message,
LEMMA PoisonMeasuredIsPiece ==
  Piece("broker_slo", PoisonMeasured, "flag_paused", "flag_resumed", PauseSteps)
<1> DEFINE d == "broker_slo"
           p1 == <<Do("flag_paused"), Do("pause"), Do("await_paused"), Do("insert_row"),
                   Do("produce_poison"), DoN("await_dlq", 1), Do("produce_repair"),
                   DoN("await_rows", Events + 1)>>
           p3 == <<Do("keep"), Do("resume"), Do("await_connector"), Do("insert_row"),
                   DoN("await_rows", Events + 2)>>
           p6 == <<Do("check_kept"), Do("flag_resumed")>>
           q2 == p1 \o Reconciliation
           q3 == q2 \o p3
           q4 == q3 \o Linkage
           q5 == q4 \o Reconciled
           q6 == q5 \o p6
<1>1. /\ Piece(d, Reconciliation, "read_source", "read_table", {})
      /\ Piece(d, Linkage, "require_checkpoint", "read_snapshots", {})
      /\ Piece(d, Reconciled, "read_source", "check_reconciled", {})
  BY ReconciliationIsPiece, LinkageIsPiece, ReconciledIsPiece
<1>2. Piece(d, p1, "flag_paused", "await_rows", {"pause", "insert_row"})
  BY Steps DEF p1, Piece, Elements, Marked, PauseSteps, GateSteps, EachAllowed,
               Allowed, EachFollows, May, Early, Submits, InOrder, Bad, Occurs
<1>3. Piece(d, p3, "keep", "await_rows", {"resume", "insert_row"})
  BY Steps DEF p3, Piece, Elements, Marked, PauseSteps, GateSteps, EachAllowed,
               Allowed, EachFollows, May, Early, Submits, InOrder, Bad, Occurs
<1>4. Piece(d, p6, "check_kept", "flag_resumed", {"flag_resumed"})
  BY Steps DEF p6, Piece, Elements, Marked, PauseSteps, GateSteps, EachAllowed,
               Allowed, EachFollows, May, Early, Submits, InOrder, Bad, Occurs
<1> HIDE DEF p1, p3, p6
<1>5. Piece(d, q2, "flag_paused", "read_table", {"pause", "insert_row"})
  BY <1>2, <1>1, Join DEF May, Early, Submits
<1>6. Piece(d, q3, "flag_paused", "await_rows", {"pause", "resume", "insert_row"})
  BY <1>5, <1>3, Join DEF May, Early, Submits, Bad
<1>7. Piece(d, q4, "flag_paused", "read_snapshots", {"pause", "resume", "insert_row"})
  BY <1>6, <1>1, Join DEF May, Early, Submits
<1>8. Piece(d, q5, "flag_paused", "check_reconciled", {"pause", "resume", "insert_row"})
  BY <1>7, <1>1, Join DEF May, Early, Submits
<1>9. Piece(d, q6, "flag_paused", "flag_resumed", PauseSteps)
  BY <1>8, <1>4, Join DEF May, Early, Submits, Marked, PauseSteps, GateSteps, Bad
<1> QED BY <1>9 DEF PoisonMeasured, p1, p3, p6, q2, q3, q4, q5, q6

\* the replay,
LEMMA ReplayMeasuredIsPiece ==
  Piece("broker_slo", ReplayMeasured, "disown", "own", {})
<1> DEFINE d == "broker_slo"
           p1 == <<Do("disown")>>
           p3 == <<Do("remember_original")>>
           p5 == <<Do("reset_tables"), Do("replay_earliest"), Do("await_job"),
                   DoN("await_rows", Events + 2)>>
           p8 == <<Do("check_original"), Do("own")>>
           q2 == p1 \o Reconciliation
           q3 == q2 \o p3
           q4 == q3 \o CancelAndWait
           q5 == q4 \o p5
           q6 == q5 \o Linkage
           q7 == q6 \o Reconciled
           q8 == q7 \o p8
<1>1. /\ Piece(d, Reconciliation, "read_source", "read_table", {})
      /\ Piece(d, CancelAndWait, "cancel", "await_absent", {})
      /\ Piece(d, Linkage, "require_checkpoint", "read_snapshots", {})
      /\ Piece(d, Reconciled, "read_source", "check_reconciled", {})
  BY ReconciliationIsPiece, CancelIsPiece, LinkageIsPiece, ReconciledIsPiece
<1>2. Piece(d, p1, "disown", "disown", {})
  BY Steps DEF p1, Piece, Elements, Marked, PauseSteps, GateSteps, EachAllowed,
               Allowed, EachFollows, May, Early, Submits, InOrder, Bad, Occurs
<1>3. Piece(d, p3, "remember_original", "remember_original", {})
  BY Steps DEF p3, Piece, Elements, Marked, PauseSteps, GateSteps, EachAllowed,
               Allowed, EachFollows, May, Early, Submits, InOrder, Bad, Occurs
<1>4. Piece(d, p5, "reset_tables", "await_rows", {})
  BY Steps DEF p5, Piece, Elements, Marked, PauseSteps, GateSteps, EachAllowed,
               Allowed, EachFollows, May, Early, Submits, InOrder, Bad, Occurs
<1>5. Piece(d, p8, "check_original", "own", {})
  BY Steps DEF p8, Piece, Elements, Marked, PauseSteps, GateSteps, EachAllowed,
               Allowed, EachFollows, May, Early, Submits, InOrder, Bad, Occurs
<1> HIDE DEF p1, p3, p5, p8
<1>6. Piece(d, q2, "disown", "read_table", {})
  BY <1>2, <1>1, Join DEF May, Early, Submits
<1>7. Piece(d, q3, "disown", "remember_original", {})
  BY <1>6, <1>3, Join DEF May, Early, Submits
<1>8. Piece(d, q4, "disown", "await_absent", {})
  BY <1>7, <1>1, Join DEF May, Early, Submits
<1>9. Piece(d, q5, "disown", "await_rows", {})
  BY <1>8, <1>4, Join DEF May, Early, Submits
<1>10. Piece(d, q6, "disown", "read_snapshots", {})
  BY <1>9, <1>1, Join DEF May, Early, Submits
<1>11. Piece(d, q7, "disown", "check_reconciled", {})
  BY <1>10, <1>1, Join DEF May, Early, Submits
<1>12. Piece(d, q8, "disown", "own", {})
  BY <1>11, <1>5, Join DEF May, Early, Submits
<1> QED BY <1>12 DEF ReplayMeasured, p1, p3, p5, p8, q2, q3, q4, q5, q6, q7, q8

\* and then concludes.
LEMMA SloIsLegal ==
  Piece("broker_slo", BrokerSlo, "submit", "verdict", Marked)
<1> DEFINE d == "broker_slo"
           p8 == <<Do("verdict")>>
           q2 == Submit("submit") \o RestartMeasured
           q3 == q2 \o DuplicateMeasured
           q4 == q3 \o MiskeyMeasured
           q5 == q4 \o PoisonMeasured
           q6 == q5 \o ReplayMeasured
           q7 == q6 \o Reconciliation
           q8 == q7 \o p8
<1>1. /\ Piece(d, Submit("submit"), "submit", "own", {})
      /\ Piece(d, RestartMeasured, "start_gated_producer", "check_reconciled", GateSteps)
      /\ Piece(d, DuplicateMeasured, "disown", "own", {})
      /\ Piece(d, MiskeyMeasured, "check_unprobed", "check_probe", {})
      /\ Piece(d, PoisonMeasured, "flag_paused", "flag_resumed", PauseSteps)
      /\ Piece(d, ReplayMeasured, "disown", "own", {})
      /\ Piece(d, Reconciliation, "read_source", "read_table", {})
  BY SubmitIsPiece, RestartMeasuredIsPiece, DuplicateMeasuredIsPiece, MiskeyMeasuredIsPiece,
     PoisonMeasuredIsPiece, ReplayMeasuredIsPiece, ReconciliationIsPiece DEF Early, Submits
<1>2. Piece(d, p8, "verdict", "verdict", {})
  BY Steps DEF p8, Piece, Elements, Marked, PauseSteps, GateSteps, EachAllowed,
               Allowed, EachFollows, May, Early, Submits, InOrder, Bad, Occurs
<1> HIDE DEF p8
<1>3. Piece(d, q2, "submit", "check_reconciled", GateSteps)
  BY <1>1, Join DEF May, Early, Submits, Marked, PauseSteps, GateSteps
<1>4. Piece(d, q3, "submit", "own", GateSteps)
  BY <1>3, <1>1, Join DEF May, Early, Submits, Marked, PauseSteps, GateSteps
<1>5. Piece(d, q4, "submit", "check_probe", GateSteps)
  BY <1>4, <1>1, Join DEF May, Early, Submits, Marked, PauseSteps, GateSteps
<1>6. Piece(d, q5, "submit", "flag_resumed", Marked)
  BY <1>5, <1>1, Join DEF May, Early, Submits, Marked, PauseSteps, GateSteps, Bad
<1>7. Piece(d, q6, "submit", "own", Marked)
  BY <1>6, <1>1, Join DEF May, Early, Submits, Marked, PauseSteps, GateSteps
<1>8. Piece(d, q7, "submit", "read_table", Marked)
  BY <1>7, <1>1, Join DEF May, Early, Submits, Marked, PauseSteps, GateSteps
<1>9. Piece(d, q8, "submit", "verdict", Marked)
  BY <1>8, <1>2, Join DEF May, Early, Submits, Marked, PauseSteps, GateSteps
<1> QED BY <1>9 DEF BrokerSlo, p8, q2, q3, q4, q5, q6, q7, q8

\* Every script has the shape that the invariant relies on.
LEMMA ScriptsLegal == \A d \in Drills : Legal(d)
<1>1. Legal("broker_parity")
  <2>1. Piece("broker_parity", Script["broker_parity"], "submit_cdc", "verdict", {})
    BY ParityIsLegal DEF Script
  <2> QED BY <2>1 DEF Piece, Legal
<1>2. Legal("schema_contract")
  <2>1. Piece("schema_contract", Script["schema_contract"], "check_connector", "verdict", {"insert_row"})
    BY SchemaIsLegal DEF Script
  <2> QED BY <2>1 DEF Piece, Legal
<1>3. Legal("broker_restart")
  <2>1. Piece("broker_restart", Script["broker_restart"], "submit", "verdict", {})
    BY RestartIsLegal DEF Script
  <2> QED BY <2>1 DEF Piece, Legal
<1>4. Legal("duplicate_redelivery")
  <2>1. Piece("duplicate_redelivery", Script["duplicate_redelivery"], "submit_committed", "verdict", {})
    BY DuplicateIsLegal DEF Script
  <2> QED BY <2>1 DEF Piece, Legal
<1>5. Legal("ordering_miskey")
  <2>1. Piece("ordering_miskey", Script["ordering_miskey"], "submit", "verdict", {})
    BY MiskeyIsLegal DEF Script
  <2> QED BY <2>1 DEF Piece, Legal
<1>6. Legal("poison_dlq")
  <2>1. Piece("poison_dlq", Script["poison_dlq"], "submit", "verdict", PauseSteps)
    BY PoisonIsLegal DEF Script
  <2> QED BY <2>1 DEF Piece, Legal, Marked, PauseSteps, GateSteps
<1>7. Legal("offset_replay")
  <2>1. Piece("offset_replay", Script["offset_replay"], "submit", "verdict", {})
    BY ReplayIsLegal DEF Script
  <2> QED BY <2>1 DEF Piece, Legal
<1>8. Legal("broker_slo")
  <2>1. Piece("broker_slo", Script["broker_slo"], "submit", "verdict", Marked)
    BY SloIsLegal DEF Script
  <2> QED BY <2>1 DEF Piece, Legal, Marked, PauseSteps, GateSteps
<1> QED BY <1>1, <1>2, <1>3, <1>4, <1>5, <1>6, <1>7, <1>8, DrillsAssumption DEF Script

-----------------------------------------------------------------------------
(* What a step does to what the invariant speaks of. *)

\* The pipeline moves on, or a failed task is started again.
SystemMoves ==
  /\ UNCHANGED <<harness, start, kafkaUp, released>> /\ ~cleaned
  /\ \/ connector' = connector
     \/ connector = "PAUSING" /\ connector' = "PAUSED"
     \/ connector = "RUNNING" /\ connector' = "FAILED"
     \/ connector = "FAILED" /\ connector' = "RUNNING"
  /\ \/ job' = job
     \/ job = "STARTING" /\ job' = "RUNNING"
     \/ job = "CANCELING" /\ job' = "absent"
  /\ job \in {"RUNNING", "CANCELING"} \/ group' = group
  /\ \/ UNCHANGED <<binlog, toInsert>>
     \/ /\ toInsert > 0 /\ (released \/ Len(binlog) < Threshold)
        /\ binlog' = Append(binlog, NextRow) /\ toInsert' = toInsert - 1

\* The drill takes its step and goes on to the next one.
DrillGoes ==
  LET op == Step.do IN
  /\ verdict = "none" /\ op # "verdict" /\ Go
  /\ owned' = (op = "own" \/ (owned /\ op \notin {"disown", "cancel"}))
  /\ paused' = (op = "flag_paused" \/ (paused /\ op # "flag_resumed"))
  /\ connector' = IF op = "pause" THEN "PAUSING"
                  ELSE IF op = "resume" THEN "RUNNING" ELSE connector
  /\ job' = IF op \in Submits THEN "STARTING"
            ELSE IF op = "cancel" THEN "CANCELING" ELSE job
  /\ op = "await_job" => job = "RUNNING"
  /\ op = "await_absent" => job = "absent"
  /\ op \notin Submits => group' = IF op = "rewind_group" THEN 0 ELSE group
  /\ op \notin Submits => start' = start
  /\ op = "submit_committed" => start' = group
  /\ op \in Submits \ {"submit_committed", "replay_timestamp"} => start' = 0
  /\ kafkaUp' = (op = "start_kafka" \/ (kafkaUp /\ op # "kill_kafka"))
  /\ released' = (op = "release_gate" \/ (released /\ op # "start_gated_producer"))
  /\ toInsert' = IF op \in {"start_producer", "start_gated_producer"} THEN Step.n
                 ELSE toInsert
  /\ op = "insert_row" => binlog' = Append(binlog, NextRow)
  /\ op \notin {"insert_row", "update_sweep"} => binlog' = binlog

\* It passes or raises.
DrillEnds ==
  /\ verdict = "none" /\ verdict' \in {"passed", "failed"} /\ Step.do \notin Flags
  /\ UNCHANGED <<script, owned, paused, cleaned, start, job, group, kafkaUp, released,
                 toInsert, binlog>>
  /\ \/ connector' = connector /\ reason' # "answer_lost"
     \/ Step.do = "pause" /\ connector' = "PAUSING" /\ reason' = "answer_lost"

\* The pipeline does not touch what the drill keeps.
LEMMA SystemSteps ==
  ASSUME Followed, PipelineStep \/ TaskFails PROVE SystemMoves
<1> USE DEF SystemMoves, Followed, source, debezium, flink, tables, kafka, pipeline
<1>1. ASSUME InsertRow PROVE SystemMoves
  BY <1>1 DEF InsertRow
<1>2. ASSUME Capture \/ PauseTakesEffect \/ TaskFails PROVE SystemMoves
  BY <1>2 DEF Capture, PauseTakesEffect, TaskFails
<1>3. ASSUME JobStarts \/ Poll \/ CompleteCheckpoint \/ JobEnds PROVE SystemMoves
  BY <1>3 DEF JobStarts, Poll, CompleteCheckpoint, JobEnds
<1>4. ASSUME CommitGroup PROVE SystemMoves
  BY <1>4 DEF CommitGroup, Told
<1>5. ASSUME CommitChangelog PROVE SystemMoves
  BY <1>5 DEF CommitChangelog
<1>6. ASSUME CommitCurrent PROVE SystemMoves
  BY <1>6 DEF CommitCurrent
<1> QED BY <1>1, <1>2, <1>3, <1>4, <1>5, <1>6 DEF PipelineStep

\* A step of a drill goes on, ends the drill or is one of the system.
LEMMA DrillSteps ==
  ASSUME ScriptInv, DrillStep, ~Finally
  PROVE  DrillGoes \/ DrillEnds \/ SystemMoves
<1> USE DEF source, debezium, flink, tables, kafka, pipeline, harness, script, still, At
<1>1. ASSUME Flag PROVE DrillGoes
  BY <1>1 DEF Flag, DrillGoes, Submits, ScriptInv
<1>2. ASSUME SubmitJob PROVE DrillGoes
  BY <1>2 DEF SubmitJob, DrillGoes, Submits, ScriptInv
<1>3. ASSUME StartProducer \/ ReleaseGate \/ InsertSourceRow \/ UpdateSweep PROVE DrillGoes
  BY <1>3 DEF StartProducer, ReleaseGate, InsertSourceRow, UpdateSweep, DrillGoes, Submits,
              ScriptInv
<1>4. ASSUME ProduceBinary \/ ProduceProbe \/ RegisterSchema PROVE DrillGoes
  BY <1>4 DEF ProduceBinary, ProduceProbe, RegisterSchema, DrillGoes, Submits, ScriptInv
<1>5. ASSUME KillKafka \/ StartKafka \/ SetConnectorState PROVE DrillGoes
  BY <1>5 DEF KillKafka, StartKafka, SetConnectorState, DrillGoes, Submits, ScriptInv
<1>6. ASSUME RestartFailedTask PROVE SystemMoves
  BY <1>6 DEF RestartFailedTask, SystemMoves, ScriptInv
<1>7. ASSUME CancelJob \/ RewindGroup \/ ResetTables PROVE DrillGoes
  BY <1>7 DEF CancelJob, RewindGroup, ResetTables, DrillGoes, Submits, ScriptInv
<1>8. ASSUME Await PROVE DrillGoes
  BY <1>8 DEF Await, Arrived, JobAbsent, DrillGoes, Submits, ScriptInv
<1>9. ASSUME Read \/ ReadSnapshots PROVE DrillGoes
  BY <1>9 DEF Read, ReadSnapshots, DrillGoes, Submits, ScriptInv
<1>10. ASSUME Check PROVE DrillGoes \/ DrillEnds
  BY <1>10 DEF Check, Checks, Raise, DrillGoes, DrillEnds, Submits, Flags, ScriptInv
<1>11. ASSUME Conclude PROVE DrillEnds
  BY <1>11 DEF Conclude, Raise, DrillEnds, Flags, ScriptInv
<1> QED BY <1>1, <1>2, <1>3, <1>4, <1>5, <1>6, <1>7, <1>8, <1>9, <1>10, <1>11 DEF DrillStep

\* A step that fails ends the drill.
LEMMA Errors ==
  ASSUME ScriptInv, StepRaises \/ AnswerLost PROVE DrillEnds
BY DEF StepRaises, AnswerLost, Raise, DrillEnds, Flags, ScriptInv, At, source, flink, tables,
       kafka, debezium, pipeline, script, still

\* Every step is one of these, or the finally clause, or changes nothing.
LEMMA NextMoves ==
  ASSUME ScriptInv, [Next]_vars
  PROVE  SystemMoves \/ DrillGoes \/ DrillEnds \/ Finally \/ UNCHANGED vars
BY SystemSteps, DrillSteps, Errors DEF Next
-----------------------------------------------------------------------------
(* The invariant is inductive. *)

\* Where the drill is after a step it went on from.
LEMMA GoesOn ==
  ASSUME ScriptInv, DrillGoes
  PROVE  /\ drill' = drill /\ pc' = pc + 1 /\ pc' \in 1 .. Len(Script[drill])
         /\ Allowed(drill, Step) /\ Allowed(drill, Step') /\ May(drill, Step.do, Step'.do)
         /\ verdict' = verdict /\ reason' = reason /\ cleaned' = cleaned
<1> DEFINE s == Script[drill]
<1>1. /\ drill' = drill /\ pc' = pc + 1 /\ verdict' = verdict /\ reason' = reason
      /\ cleaned' = cleaned /\ Step.do # "verdict"
  BY DEF DrillGoes, Go
<1>2. /\ Len(s) \in Nat /\ s[Len(s)].do = "verdict" /\ pc \in 1 .. Len(s)
      /\ EachAllowed(drill, s) /\ EachFollows(drill, s)
  BY ScriptsLegal DEF ScriptInv, Legal
<1>3. Step = s[pc] /\ Step' = s[pc + 1]
  BY <1>1 DEF Step
<1> HIDE DEF s
<1>4. pc \in 1 .. Len(s) - 1 /\ pc + 1 \in 1 .. Len(s)
  BY <1>1, <1>2, <1>3
<1>5. Allowed(drill, s[pc]) /\ Allowed(drill, s[pc + 1]) /\ May(drill, s[pc].do, s[pc + 1].do)
  BY <1>2, <1>4 DEF EachAllowed, EachFollows
<1> QED BY <1>1, <1>3, <1>4, <1>5 DEF s

\* What is to come stays to come, but for what the drill has just done.
LEMMA StillToCome ==
  ASSUME ScriptInv, DrillGoes, NEW op, drill' = drill
  PROVE  /\ ToCome(op) => ToCome(op)' \/ Step.do = op
         /\ ToCome(op)' => ToCome(op)
<1> DEFINE s == Script[drill]
<1>1. pc' = pc + 1 /\ pc \in Nat /\ Step = s[pc]
  BY DEF DrillGoes, Go, ScriptInv, Step
<1>2. ToCome(op) <=> \E j \in pc .. Len(s) : s[j].do = op
  BY DEF ToCome
<1>3. ToCome(op)' <=> \E j \in pc + 1 .. Len(s) : s[j].do = op
  BY <1>1 DEF ToCome
<1> HIDE DEF s
<1>4. \A j \in pc .. Len(s) : j = pc \/ j \in pc + 1 .. Len(s)
  BY <1>1
<1>5. \A j \in pc + 1 .. Len(s) : j \in pc .. Len(s)
  BY <1>1
<1> QED BY <1>1, <1>2, <1>3, <1>4, <1>5

\* What may not come after the step under way is not to come.
LEMMA OutOfOrder ==
  ASSUME ScriptInv, NEW op, Bad(Step.do, op)
  PROVE  /\ op # Step.do => ~ToCome(op)
         /\ DrillGoes => ~ToCome(op)'
<1> DEFINE s == Script[drill]
<1>1. pc \in 1 .. Len(s) /\ Step = s[pc] /\ InOrder(s) /\ Len(s) \in Nat
  BY ScriptsLegal DEF ScriptInv, Step, Legal
<1>2. ToCome(op) <=> \E j \in pc .. Len(s) : s[j].do = op
  BY DEF ToCome
<1>3. DrillGoes => (ToCome(op)' <=> \E j \in pc + 1 .. Len(s) : s[j].do = op)
  BY DEF ToCome, DrillGoes, Go
<1> HIDE DEF s
<1>4. ASSUME NEW j \in pc + 1 .. Len(s) PROVE s[j].do # op
  <2>1. pc < j /\ j \in 1 .. Len(s)
    BY <1>1
  <2> QED BY <1>1, <2>1 DEF InOrder
<1>5. \A j \in pc .. Len(s) : j = pc \/ j \in pc + 1 .. Len(s)
  BY <1>1
<1> QED BY <1>1, <1>2, <1>3, <1>4, <1>5

\* What the step under way may not follow, but is in the script, is to come.
LEMMA StillAhead ==
  ASSUME ScriptInv, NEW op, Bad(op, Step.do), op # Step.do,
         Occurs(op, Script[drill])
  PROVE  ToCome(op)
<1> DEFINE s == Script[drill]
<1>1. PICK j \in 1 .. Len(s) : s[j].do = op
  BY DEF Occurs
<1>2. pc \in 1 .. Len(s) /\ Step = s[pc] /\ InOrder(s) /\ Len(s) \in Nat
  BY ScriptsLegal DEF ScriptInv, Step, Legal
<1> HIDE DEF s
<1>3. ~(j < pc) /\ j # pc
  BY <1>1, <1>2 DEF InOrder
<1>4. j \in pc .. Len(s)
  BY <1>1, <1>2, <1>3
<1> QED BY <1>1, <1>4 DEF ToCome, s

\* The next row of the producer has a number.
LEMMA NextRowType == NextRow \in [row : Nat, version : Nat]
<1>1. IsFiniteSet(Row)
  BY OptionsAssumption, FS_Interval DEF Row
<1>2. Present(SourceTable) \subseteq Row
  BY DEF Present
<1>3. Cardinality(Present(SourceTable)) \in Nat
  BY <1>1, <1>2, FS_Subset, FS_CardinalityType
<1> QED BY <1>3 DEF NextRow

\* The invariant holds before the first step,
LEMMA InitInv == Init => IInv
<1> SUFFICES ASSUME Init PROVE IInv
  OBVIOUS
<1> USE DEF Init
<1>1. Step.do \notin {"await_job", "pause"}
  BY ScriptsLegal DEF Step, Legal
<1>2. ScriptInv
  <2>1. drill \in Drills /\ pc \in 1 .. Len(Script[drill])
    BY ScriptsLegal DEF Legal
  <2> QED BY <2>1 DEF ScriptInv
<1>3. GroupInv
  BY DEF GroupInv
<1>4. JobInv
  BY <1>1 DEF JobInv
<1>5. PauseInv
  BY <1>1 DEF PauseInv, Paused
<1>6. KafkaInv
  BY DEF KafkaInv
<1>7. GateInv
  BY DEF GateInv
<1>8. CleansUp
  BY DEF CleansUp
<1> QED BY <1>2, <1>3, <1>4, <1>5, <1>6, <1>7, <1>8 DEF IInv

\* whatever the pipeline does,
LEMMA SystemKeeps ==
  ASSUME IInv, SystemMoves PROVE IInv'
<1> USE DEF IInv
<1>1. Step' = Step /\ \A op : ToCome(op)' <=> ToCome(op)
  BY DEF SystemMoves, harness, script, Step, ToCome
<1>2. UNCHANGED <<drill, pc, owned, paused, verdict, reason, cleaned, start,
                kafkaUp, released>>
  BY DEF SystemMoves, harness, script
<1>3. ~cleaned
  BY DEF SystemMoves
<1>4. ScriptInv'
  BY <1>1, <1>2 DEF ScriptInv, SystemMoves
<1>5. GroupInv'
  BY <1>1, <1>2 DEF GroupInv, SystemMoves
<1>6. JobInv'
  BY <1>1, <1>2 DEF JobInv, SystemMoves
<1>7. PauseInv'
  BY <1>1, <1>2 DEF PauseInv, Paused, SystemMoves
<1>8. KafkaInv'
  BY <1>2 DEF KafkaInv
<1>9. GateInv'
  <2>1. CASE UNCHANGED <<binlog, toInsert>>
    BY <1>1, <1>2, <2>1 DEF GateInv
  <2>2. CASE /\ toInsert > 0 /\ (released \/ Len(binlog) < Threshold)
             /\ binlog' = Append(binlog, NextRow) /\ toInsert' = toInsert - 1
    <3>1. SUFFICES ASSUME drill = "broker_slo" PROVE GateInv'
      BY <1>2 DEF GateInv
    <3>2. /\ binlog' \in Seq([row : Nat, version : Nat]) /\ Len(binlog') = Len(binlog) + 1
          /\ toInsert' \in Nat /\ Len(binlog) \in Nat /\ toInsert \in Nat
      BY <2>2, <3>1, NextRowType DEF GateInv
    <3>3. ~ToCome("start_gated_producer")
      BY <2>2, <3>1 DEF GateInv
    <3>4. ASSUME ~released
          PROVE  /\ ToCome("release_gate") /\ toInsert' + Len(binlog') = Events
                 /\ Len(binlog') <= Threshold
      <4>1. /\ ToCome("release_gate") /\ toInsert + Len(binlog) = Events
            /\ Len(binlog) < Threshold /\ toInsert' = toInsert - 1 /\ toInsert > 0
        BY <2>2, <3>1, <3>4 DEF GateInv
      <4>2. Events \in Nat /\ Threshold \in Nat
        BY OptionsAssumption
      <4> QED BY <3>2, <4>1, <4>2
    <3> QED BY <1>1, <1>2, <3>2, <3>3, <3>4 DEF GateInv
  <2> QED BY <2>1, <2>2 DEF SystemMoves
<1>10. CleansUp'
  BY <1>2, <1>3 DEF CleansUp
<1> QED BY <1>4, <1>5, <1>6, <1>7, <1>8, <1>9, <1>10

\* as the drill goes on,
LEMMA DrillKeeps ==
  ASSUME IInv, DrillGoes PROVE IInv'
<1> USE DEF IInv
<1>1. /\ drill' = drill /\ pc' = pc + 1 /\ pc' \in 1 .. Len(Script[drill])
      /\ Allowed(drill, Step) /\ Allowed(drill, Step') /\ May(drill, Step.do, Step'.do)
      /\ verdict' = verdict /\ reason' = reason /\ cleaned' = cleaned
  BY GoesOn
<1>2. verdict = "none" /\ ~cleaned
  BY DEF DrillGoes, ScriptInv
<1>3. ScriptInv'
  BY <1>1, <1>2 DEF ScriptInv, DrillGoes
<1>4. GroupInv'
  BY <1>1 DEF GroupInv, DrillGoes, May, Allowed, Submits
<1>5. JobInv'
  BY <1>1, <1>2 DEF JobInv, DrillGoes, May, Allowed, Submits, Early
<1>6. PauseInv'
  <2>1. ASSUME Step.do = "pause" PROVE ToCome("resume")
    <3>1. drill \in {"poison_dlq", "broker_slo"} /\ drill \in Drills
      BY <1>1, <2>1 DEF Allowed, ScriptInv
    <3>2. Occurs("resume", Script[drill])
      BY <3>1, ScriptsLegal DEF Legal
    <3> QED BY <2>1, <3>2, StillAhead DEF Bad
  <2>2. Step.do = "flag_resumed" => ~ToCome("resume")
    BY OutOfOrder DEF Bad
  <2>3. ToCome("resume") => ToCome("resume")' \/ Step.do = "resume"
    BY <1>1, StillToCome
  <2> QED BY <1>1, <1>2, <2>1, <2>2, <2>3
          DEF PauseInv, Paused, DrillGoes, May, Allowed, ScriptInv
<1>7. KafkaInv'
  BY <1>1 DEF KafkaInv, DrillGoes, Allowed
<1>8. GateInv'
  <2>1. SUFFICES ASSUME drill = "broker_slo" PROVE GateInv'
    BY <1>1 DEF GateInv
  <2>2. ToCome("start_gated_producer")' =>
          /\ ToCome("start_gated_producer")
          /\ Step.do \notin {"start_gated_producer", "release_gate", "insert_row"}
    BY <1>1, StillToCome, OutOfOrder DEF Bad
  <2>3. Step.do = "insert_row" => ~ToCome("release_gate")
    BY OutOfOrder DEF Bad
  <2>4. ToCome("release_gate") => ToCome("release_gate")' \/ Step.do = "release_gate"
    BY <1>1, StillToCome
  <2>5. CASE Step.do = "start_gated_producer"
    <3>1. ToCome(Step.do)
      BY ScriptsLegal DEF ToCome, Step, ScriptInv, Legal
    <3>2. binlog = <<>> /\ toInsert' = Events /\ binlog' = binlog /\ ~released'
      BY <1>1, <2>1, <2>5, <3>1 DEF GateInv, DrillGoes, Allowed
    <3>3. ToCome("release_gate")'
      BY <2>1, <2>4, <2>5, StillAhead, ScriptsLegal DEF Bad, Legal, ScriptInv
    <3> QED BY <2>2, <2>5, <3>2, <3>3, OptionsAssumption DEF GateInv
  <2>6. CASE Step.do = "insert_row"
    <3>1. released /\ released' = released /\ binlog' = Append(binlog, NextRow)
          /\ toInsert' = toInsert
      BY <2>1, <2>3, <2>6 DEF GateInv, DrillGoes, ScriptInv
    <3> QED BY <2>1, <2>2, <2>6, <3>1, NextRowType DEF GateInv
  <2>7. CASE Step.do \notin {"start_gated_producer", "insert_row"}
    <3>1. binlog' = binlog /\ toInsert' = toInsert
      BY <1>1, <2>1, <2>7 DEF DrillGoes, Allowed
    <3> QED BY <2>1, <2>2, <2>4, <2>7, <3>1 DEF GateInv, DrillGoes
  <2> QED BY <2>5, <2>6, <2>7
<1>9. CleansUp'
  BY <1>1, <1>2 DEF CleansUp
<1> QED BY <1>3, <1>4, <1>5, <1>6, <1>7, <1>8, <1>9

\* when it ends,
LEMMA EndKeeps ==
  ASSUME IInv, DrillEnds PROVE IInv'
<1> USE DEF IInv
<1>1. /\ Step' = Step /\ (\A op : ToCome(op)' <=> ToCome(op))
      /\ UNCHANGED <<drill, pc, owned, paused, cleaned, start, job, group, kafkaUp, released,
                     toInsert, binlog>>
  BY DEF DrillEnds, script, Step, ToCome
<1>2. verdict = "none" /\ ~cleaned /\ Step.do \notin Flags
  BY DEF DrillEnds, ScriptInv
<1>3. ScriptInv'
  BY <1>1, <1>2 DEF ScriptInv, DrillEnds
<1>4. GroupInv' /\ JobInv' /\ KafkaInv' /\ GateInv'
  BY <1>1 DEF GroupInv, JobInv, KafkaInv, GateInv
<1>5. PauseInv'
  <2>1. CASE connector' = connector
    BY <1>1, <1>2, <2>1 DEF PauseInv, Paused, Flags, ScriptInv
  <2>2. CASE Step.do = "pause" /\ connector' = "PAUSING" /\ reason' = "answer_lost"
    <3>1. pc \in 1 .. Len(Script[drill]) /\ Allowed(drill, Step)
      BY ScriptsLegal DEF ScriptInv, Legal, EachAllowed, Step
    <3>2. ToCome("resume")
      BY <2>2, <3>1, StillAhead, ScriptsLegal DEF Allowed, Legal, Bad, ScriptInv
    <3> QED BY <1>1, <2>2, <3>1, <3>2 DEF PauseInv, Paused, Allowed
  <2> QED BY <2>1, <2>2 DEF DrillEnds
<1>6. CleansUp'
  BY <1>1, <1>2 DEF CleansUp
<1> QED BY <1>3, <1>4, <1>5, <1>6

\* and when it cleans up.
LEMMA FinallyKeeps ==
  ASSUME IInv, Finally PROVE IInv'
<1> USE DEF IInv
<1>1. /\ Step' = Step /\ (\A op : ToCome(op)' <=> ToCome(op))
      /\ UNCHANGED <<drill, pc, owned, paused, verdict, reason, start, group, toInsert,
                     binlog>>
  BY DEF Finally, script, still, Step, ToCome
<1>2. /\ verdict # "none" /\ ~cleaned /\ cleaned' = TRUE /\ released' = TRUE
      /\ kafkaUp' = (kafkaUp \/ RestoresKafka)
      /\ connector' = IF paused THEN "RUNNING" ELSE connector
      /\ job' = IF owned /\ (job = "RUNNING" \/ (job = "STARTING" /\ drill = "broker_parity"))
                THEN "CANCELING" ELSE job
  BY DEF Finally
<1>3. ScriptInv'
  BY <1>1, <1>2 DEF ScriptInv, RestoresKafka
<1>4. GroupInv' /\ GateInv'
  BY <1>1, <1>2 DEF GroupInv, GateInv
<1>5. JobInv'
  BY <1>1, <1>2 DEF JobInv
<1>6. PauseInv'
  BY <1>1, <1>2 DEF PauseInv, Paused
<1>7. kafkaUp'
  BY <1>2 DEF KafkaInv, RestoresKafka, ScriptInv
<1>8. CleansUp'
  <2>1. Step.do \notin Flags
    BY <1>2 DEF ScriptInv
  <2>2. ASSUME connector' \in {"PAUSING", "PAUSED"}
        PROVE  drill = "poison_dlq" /\ reason = "answer_lost"
    BY <1>2, <2>1, <2>2 DEF PauseInv, Paused, Flags
  <2>3. ASSUME job' \in {"STARTING", "RUNNING"}
        PROVE  \/ Step.do = "await_job" /\ drill # "broker_parity"
               \/ drill = "broker_slo" /\ ~owned
    BY <1>2, <2>1, <2>3 DEF JobInv, Flags, Early, ScriptInv
  <2> QED BY <1>1, <1>7, <2>2, <2>3 DEF CleansUp
<1> QED BY <1>3, <1>4, <1>5, <1>6, <1>7, <1>8 DEF KafkaInv

\* So every step keeps it.
LEMMA NextInv == IInv /\ [Next]_vars => IInv'
<1> SUFFICES ASSUME IInv, [Next]_vars PROVE IInv'
  OBVIOUS
<1>1. ScriptInv
  BY DEF IInv
<1>2. CASE UNCHANGED vars
  BY <1>2 DEF IInv, ScriptInv, GroupInv, JobInv, PauseInv, Paused, KafkaInv, GateInv,
              CleansUp, ToCome, Step, vars, pipeline, harness, script, source, debezium,
              flink, kafka
<1> QED BY <1>1, <1>2, NextMoves, SystemKeeps, DrillKeeps, EndKeeps, FinallyKeeps

\* Of every drill, and wherever it is, the parts of the invariant hold.
THEOREM Invariant == Spec => []IInv
BY InitInv, NextInv, PTL DEF Spec

-----------------------------------------------------------------------------

\* The second delivery of the duplicate drill and of the SLO run starts at offset
\* zero, although the group they rewind was committed to by a job that was still
\* there when its cancellation was accepted; and the broker of the SLO run is
\* gone before its producer is done.
THEOREM FaultsAreReal == Spec => []FaultIsReal
<1>1. IInv => FaultIsReal
  <2> SUFFICES ASSUME IInv PROVE FaultIsReal
    OBVIOUS
  <2>1. drill \in {"duplicate_redelivery", "broker_slo"} => start = 0
    BY DEF IInv, GroupInv
  <2>2. ASSUME drill = "broker_slo", ~released PROVE toInsert > 0
    <3>1. /\ toInsert \in Nat /\ Len(binlog) \in Nat
          /\ toInsert + Len(binlog) = Events /\ Len(binlog) <= Threshold
      BY <2>2 DEF IInv, GateInv
    <3>2. Threshold < Events /\ Threshold \in Nat /\ Events \in Nat
      BY <2>2, OptionsAssumption DEF IInv, ScriptInv
    <3> QED BY <3>1, <3>2
  <2> QED BY <2>1, <2>2 DEF FaultIsReal
<1> QED BY <1>1, Invariant, PTL

\* However a drill ends, and whichever of its steps failed, Kafka runs afterwards,
\* the connector is not left paused and no job is left, but for the exceptions
\* that CleansUp names.
THEOREM DrillsCleanUp == Spec => []CleansUp
<1>1. IInv => CleansUp
  BY DEF IInv
<1> QED BY <1>1, Invariant, PTL

-----------------------------------------------------------------------------
(* What a drill knows of the pipeline when it comes to a step. *)

\* The drills whose job reads from offset zero; that add a row by hand; whose probe
\* is judged; that count what was delivered.
Single == {"schema_contract", "broker_restart", "poison_dlq"}
Poisoned == {"poison_dlq", "broker_slo"}
Probing == {"ordering_miskey", "broker_slo"}
Counted == {"broker_parity", "duplicate_redelivery"}

Starts == {"start_producer", "start_gated_producer"}
Writes == Starts \cup {"insert_row", "update_sweep"}
Produces == {"produce_keyed", "produce_miskeyed"}

\* A phase: the rows written or under way, their last version, the records of the
\* probe, and facts that hold there (what each means is said by the invariant).
Phase(due, ver, probed, facts) ==
  [due |-> due, ver |-> ver, probed |-> probed, facts |-> facts]
Nowhere == Phase(0, 1, 0, {"idle", "gone", "fresh", "blank", "clean"})

Rows(d) == IF d \in Poisoned THEN Events + 2
           ELSE IF d = "schema_contract" THEN Events + 1 ELSE Events

\* Where a step is taken that writes,
MayWrite(d, x, p) ==
  /\ x.do \in Starts => p.due = 0 /\ x.n = Events /\ p.ver = 1
  /\ x.do = "insert_row" =>
       /\ d \in Poisoned \cup {"schema_contract"}
       /\ p.due \in Events .. Rows(d) - 1 /\ p.ver = 1 /\ "idle" \in p.facts
  /\ x.do = "update_sweep" => d = "offset_replay" /\ p.ver = 1 /\ "idle" \in p.facts
  /\ x.do = "start_kafka" => d \in {"broker_restart", "broker_slo"}
  /\ x.do = "produce_poison" => d \in Poisoned /\ "clean" \in p.facts
  /\ x.do = "produce_repair" => d \in Poisoned /\ p.due > 0 /\ "idle" \in p.facts
  /\ x.do = "produce_keyed" =>
       d = "ordering_miskey" /\ x.n \in 1 .. 3 /\ p.probed = x.n - 1
  /\ x.do = "produce_miskeyed" =>
       /\ d \in Probing /\ x.n \in 1 .. 3
       /\ p.probed = IF d = "broker_slo" THEN x.n - 1 ELSE x.n + 2
  /\ x.do = "register" => d = "schema_contract" /\ "subject" \in p.facts

\* one that starts a job over,
MayStart(d, x, p) ==
  /\ x.do \in Submits =>
       /\ "gone" \in p.facts
       /\ d = "offset_replay" => "blank" \in p.facts
       /\ d \in Single => "fresh" \in p.facts
       /\ d \in Counted => "blank" \in p.facts \/ {"first", "all"} \subseteq p.facts
  /\ x.do = "submit_cdc" => d = "broker_parity"
  /\ x.do = "submit_committed" => d \in {"duplicate_redelivery", "broker_slo"}
  /\ x.do = "reset_tables" => "gone" \in p.facts /\ d # "schema_contract"

\* one that reads or waits,
MayRead(d, x, p) ==
  /\ x.do = "await_rows" => x.n = p.due /\ p.ver = 1 /\ "idle" \in p.facts
  /\ x.do \in {"await_convergence", "read_source"} => "idle" \in p.facts
  /\ x.do = "await_original" => {"idle", "orig"} \subseteq p.facts
  /\ x.do \in {"read_table", "audit", "read_snapshots"} => "full" \in p.facts
  /\ x.do = "remember_original" => "tab" \in p.facts
  /\ x.do = "keep" => {"src", "tab"} \subseteq p.facts
  /\ x.do = "choose_timestamp" => p.ver = 1
  /\ x.do = "await_checkpoint_after" => "before" \in p.facts

\* or one that asserts.
MayCheck(d, x, p) ==
  /\ x.do = "check_reconciled" => {"src", "tab"} \subseteq p.facts
  /\ x.do = "check_original" => {"orig", "tab"} \subseteq p.facts
  /\ x.do = "check_kept" => "aud" \in p.facts
  /\ x.do = "check_listed" => "running" \in p.facts
  /\ x.do = "check_connector" => d = "schema_contract"
  /\ x.do = "check_rejected" => "subject" \in p.facts
  /\ x.do = "check_unprobed" => p.probed = 0
  /\ x.do = "check_probe" =>
       d \in Probing /\ p.probed = IF d = "broker_slo" THEN 3 ELSE 6
  /\ x.do = "verdict" =>
       /\ {"idle", "full", "src", "tab"} \subseteq p.facts \/ d = "schema_contract"
       /\ {"idle", "full"} \subseteq p.facts
       /\ d \notin Early => "aud" \in p.facts
       /\ d \in {"broker_parity", "offset_replay"} => "orig" \in p.facts
       /\ d = "offset_replay" => p.ver = 2
       /\ d \in {"poison_dlq", "schema_contract"} => "after" \in p.facts
       /\ d = "poison_dlq" => "quarantined" \in p.facts
       /\ d = "schema_contract" => "covered" \in p.facts
       /\ d = "broker_restart" => "linked" \in p.facts
       /\ d = "broker_parity" => {"first", "all"} \subseteq p.facts
       /\ d = "duplicate_redelivery" => {"again", "all"} \subseteq p.facts
       /\ p.due = Rows(d)

\* What is not known any more after a step,
OfTheJob == {"gone", "fresh", "blank", "all", "first", "again", "checked", "before",
             "advanced", "linked", "covered"}
Lost(op) ==
  {f \in {"idle"} : op \in Starts}
  \cup {f \in {"full", "src", "tab", "orig", "covered"} : op \in Writes}
  \cup {f \in OfTheJob : op \in Submits}
  \cup {f \in {"full", "all", "first", "again"} : op = "reset_tables"}
  \cup {f \in {"gone", "fresh", "blank", "running", "checked", "advanced", "linked"} :
          op = "cancel"}
  \cup {f \in {"before", "zero", "after", "advanced", "linked"} : op = "remember_checkpoint"}
  \cup {f \in {"clean", "covered"} : op = "produce_poison"}
  \cup {f \in {"covered"} : op \in {"produce_repair", "await_checkpoint_after"}}

\* and what is known because of it.
Learned(x, p, f) ==
  \/ x.do = "join_producer" /\ f = "idle"
  \/ x.do \in {"await_rows", "await_convergence", "await_original"} /\ f = "full"
  \/ x.do = "await_absent" /\ f = "gone"
  \/ x.do = "await_job" /\ f = "running"
  \/ x.do = "read_source" /\ f = "src"
  \/ x.do = "read_table" /\ f = "tab"
  \/ x.do = "remember_original" /\ f = "orig"
  \/ x.do \in {"audit", "keep"} /\ f = "aud"
  \/ x.do = "reset_tables" /\ f = "blank"
  \/ x.do \in Submits /\ f = "first" /\ "blank" \in p.facts
  \/ x.do \in Submits /\ f = "again" /\ {"first", "all"} \subseteq p.facts
  \/ x.do = "check_changelog" /\ f = "all" /\ x.n = Events /\ "first" \in p.facts
  \/ x.do = "await_changelog" /\ f = "all" /\ x.n = 2 * Events /\ "again" \in p.facts
  \/ x.do = "await_subject" /\ f = "subject"
  \/ x.do = "remember_checkpoint" /\ f = "before" /\ "checked" \in p.facts
  \/ x.do = "remember_checkpoint" /\ f = "zero" /\ "checked" \in p.facts /\ p.due = 0
  \/ x.do = "require_checkpoint" /\ f = "checked"
  \/ x.do = "require_checkpoint" /\ f = "advanced" /\ {"full", "before", "zero"} \subseteq p.facts
     /\ p.due > 0
  \/ x.do = "read_snapshots" /\ f = "linked" /\ "advanced" \in p.facts
  \/ x.do = "await_checkpoint_after" /\ f = "after"
  \/ x.do = "await_checkpoint_after" /\ f = "covered" /\ {"full", "idle"} \subseteq p.facts
  \/ x.do = "await_dlq" /\ f = "quarantined" /\ x.n = 1

\* Step x of drill d leads from phase p to phase q.
Ready(d, x, p) == MayWrite(d, x, p) /\ MayStart(d, x, p) /\ MayRead(d, x, p) /\ MayCheck(d, x, p)
Counts(x, p, q) ==
  /\ q.due = IF x.do \in Starts THEN p.due + x.n
             ELSE IF x.do = "insert_row" THEN p.due + 1 ELSE p.due
  /\ q.ver = IF x.do = "update_sweep" THEN 2 ELSE p.ver
  /\ q.probed = IF x.do \in Produces THEN p.probed + 1 ELSE p.probed
Goes(d, x, p, q) ==
  /\ Ready(d, x, p) /\ Counts(x, p, q)
  /\ \A f \in q.facts : f \in p.facts \ Lost(x.do) \/ Learned(x, p, f)

\* A stretch does, by phases in between.
Through(d, s, f) == \A i \in 1 .. Len(s) : Goes(d, s[i], f[i], f[i + 1])
Leads(d, s, p, q) ==
  s \in Seq(Elements(s)) /\ \E f : f[1] = p /\ f[Len(s) + 1] = q /\ Through(d, s, f)

LEMMA LeadJoin ==
  ASSUME NEW d, NEW s, NEW t, NEW p, NEW q, NEW r, Leads(d, s, p, q), Leads(d, t, q, r)
  PROVE  Leads(d, s \o t, p, r)
<1> DEFINE u == s \o t
<1>1. PICK f : f[1] = p /\ f[Len(s) + 1] = q /\ Through(d, s, f)
  BY DEF Leads
<1>2. PICK g : g[1] = q /\ g[Len(t) + 1] = r /\ Through(d, t, g)
  BY DEF Leads
<1>3. /\ u \in Seq(Elements(u)) /\ Len(u) = Len(s) + Len(t) /\ Len(s) \in Nat /\ Len(t) \in Nat
      /\ \A i \in 1 .. Len(s) : u[i] = s[i]
      /\ \A i \in 1 .. Len(u) : i > Len(s) =>
           i - Len(s) \in 1 .. Len(t) /\ u[i] = t[i - Len(s)]
  BY JoinSeq DEF Leads
<1> HIDE DEF u
<1> DEFINE h == [i \in 1 .. Len(u) + 1 |-> IF i <= Len(s) THEN f[i] ELSE g[i - Len(s)]]
<1>4. ASSUME NEW i \in 1 .. Len(u) PROVE Goes(d, u[i], h[i], h[i + 1])
  <2>0. i \in 1 .. Len(u) + 1 /\ i + 1 \in 1 .. Len(u) + 1
    BY <1>3
  <2>1. CASE i < Len(s)
    <3>1. i \in 1 .. Len(s) /\ h[i] = f[i] /\ h[i + 1] = f[i + 1]
      BY <1>3, <2>0, <2>1
    <3> QED BY <1>1, <1>3, <3>1 DEF Through
  <2>2. CASE i = Len(s)
    <3>1. /\ i \in 1 .. Len(s) /\ h[i] = f[i] /\ ~(i + 1 <= Len(s)) /\ (i + 1) - Len(s) = 1
      BY <1>3, <2>0, <2>2
    <3>2. h[i + 1] = f[i + 1]
      BY <1>1, <1>2, <2>0, <2>2, <3>1
    <3> QED BY <1>1, <1>3, <3>1, <3>2 DEF Through
  <2>3. CASE i > Len(s)
    <3>1. /\ h[i] = g[i - Len(s)] /\ h[i + 1] = g[(i - Len(s)) + 1]
      BY <1>3, <2>0, <2>3
    <3> QED BY <1>2, <1>3, <2>3, <3>1 DEF Through
  <2> QED BY <1>3, <2>1, <2>2, <2>3
<1>5. h[1] = p
  <2>1. 1 \in 1 .. Len(u) + 1
    BY <1>3
  <2>2. CASE 1 <= Len(s)
    BY <1>1, <2>1, <2>2
  <2>3. CASE Len(s) = 0
    BY <1>1, <1>2, <2>1, <2>3
  <2> QED BY <1>3, <2>2, <2>3
<1>6. h[Len(u) + 1] = r
  <2>1. /\ Len(u) + 1 \in 1 .. Len(u) + 1 /\ ~(Len(u) + 1 <= Len(s))
        /\ (Len(u) + 1) - Len(s) = Len(t) + 1
    BY <1>3
  <2> QED BY <1>2, <2>1
<1>7. Through(d, u, h)
  BY <1>4 DEF Through
<1> HIDE DEF h
<1>8. Leads(d, u, p, r)
  BY <1>3, <1>5, <1>6, <1>7 DEF Leads
<1> QED BY <1>8 DEF u

\* Short stretches, step by step.
LEMMA Lead1 ==
  ASSUME NEW d, NEW x1,
         NEW p0, NEW p1,
         Goes(d, x1, p0, p1)
  PROVE  Leads(d, <<x1>>, p0, p1)
<1> DEFINE s == <<x1>>
           f == <<p0, p1>>
<1>1. s \in Seq(Elements(s)) /\ Len(s) = 1
  BY DEF Elements
<1>2. Through(d, s, f)
  BY DEF Through
<1>3. f[1] = p0 /\ f[Len(s) + 1] = p1
  OBVIOUS
<1> QED BY <1>1, <1>2, <1>3 DEF Leads

LEMMA Lead2 ==
  ASSUME NEW d, NEW x1, NEW x2,
         NEW p0, NEW p1, NEW p2,
         Goes(d, x1, p0, p1), Goes(d, x2, p1, p2)
  PROVE  Leads(d, <<x1, x2>>, p0, p2)
<1> DEFINE s == <<x1, x2>>
           f == <<p0, p1, p2>>
<1>1. s \in Seq(Elements(s)) /\ Len(s) = 2
  BY DEF Elements
<1>2. Through(d, s, f)
  BY DEF Through
<1>3. f[1] = p0 /\ f[Len(s) + 1] = p2
  OBVIOUS
<1> QED BY <1>1, <1>2, <1>3 DEF Leads

LEMMA Lead3 ==
  ASSUME NEW d, NEW x1, NEW x2, NEW x3,
         NEW p0, NEW p1, NEW p2, NEW p3,
         Goes(d, x1, p0, p1), Goes(d, x2, p1, p2), Goes(d, x3, p2, p3)
  PROVE  Leads(d, <<x1, x2, x3>>, p0, p3)
<1> DEFINE s == <<x1, x2, x3>>
           f == <<p0, p1, p2, p3>>
<1>1. s \in Seq(Elements(s)) /\ Len(s) = 3
  BY DEF Elements
<1>2. Through(d, s, f)
  BY DEF Through
<1>3. f[1] = p0 /\ f[Len(s) + 1] = p3
  OBVIOUS
<1> QED BY <1>1, <1>2, <1>3 DEF Leads

LEMMA Lead4 ==
  ASSUME NEW d, NEW x1, NEW x2, NEW x3, NEW x4,
         NEW p0, NEW p1, NEW p2, NEW p3, NEW p4,
         Goes(d, x1, p0, p1), Goes(d, x2, p1, p2), Goes(d, x3, p2, p3),
         Goes(d, x4, p3, p4)
  PROVE  Leads(d, <<x1, x2, x3, x4>>, p0, p4)
<1> DEFINE s == <<x1, x2, x3, x4>>
           f == <<p0, p1, p2, p3, p4>>
<1>1. s \in Seq(Elements(s)) /\ Len(s) = 4
  BY DEF Elements
<1>2. Through(d, s, f)
  BY DEF Through
<1>3. f[1] = p0 /\ f[Len(s) + 1] = p4
  OBVIOUS
<1> QED BY <1>1, <1>2, <1>3 DEF Leads

LEMMA Lead5 ==
  ASSUME NEW d, NEW x1, NEW x2, NEW x3, NEW x4, NEW x5,
         NEW p0, NEW p1, NEW p2, NEW p3, NEW p4, NEW p5,
         Goes(d, x1, p0, p1), Goes(d, x2, p1, p2), Goes(d, x3, p2, p3),
         Goes(d, x4, p3, p4), Goes(d, x5, p4, p5)
  PROVE  Leads(d, <<x1, x2, x3, x4, x5>>, p0, p5)
<1> DEFINE s == <<x1, x2, x3, x4, x5>>
           f == <<p0, p1, p2, p3, p4, p5>>
<1>1. s \in Seq(Elements(s)) /\ Len(s) = 5
  BY DEF Elements
<1>2. Through(d, s, f)
  BY DEF Through
<1>3. f[1] = p0 /\ f[Len(s) + 1] = p5
  OBVIOUS
<1> QED BY <1>1, <1>2, <1>3 DEF Leads

\* The same rows, in the same versions, and the same probe.
Same(p, q) == q.due = p.due /\ q.ver = p.ver /\ q.probed = p.probed

\* What the stretches that the scripts share lead to: the offset linkage,
LEMMA LinkageLeads ==
  ASSUME NEW d, NEW p, NEW q, "full" \in p.facts, Same(p, q),
         q.facts \subseteq p.facts \cup {"checked"}
  PROVE  Leads(d, Linkage, p, q)
<1>1. /\ Goes(d, Do("require_checkpoint"), p, Phase(p.due, p.ver, p.probed, p.facts \cup {"checked"}))
      /\ Goes(d, Do("await_zero_lag"), Phase(p.due, p.ver, p.probed, p.facts \cup {"checked"}),
                                       Phase(p.due, p.ver, p.probed, p.facts \cup {"checked"}))
      /\ Goes(d, Do("read_snapshots"), Phase(p.due, p.ver, p.probed, p.facts \cup {"checked"}), q)
  BY Steps DEF Phase, Goes, Ready, MayWrite, MayStart, MayRead, MayCheck, Counts, Lost, Learned,
             Starts, Writes, Produces, Submits, OfTheJob, Early, Poisoned, Single, Counted,
             Probing, Rows, Same
<1> QED BY <1>1, Lead3 DEF Linkage

\* the one of the restart drill, which finds a later checkpoint than before,
LEMMA LaterLinkageLeads ==
  ASSUME NEW d, NEW p, NEW q, {"full", "before", "zero"} \subseteq p.facts, Same(p, q),
         p.due = Events, q.facts \subseteq p.facts \cup {"linked"}
  PROVE  Leads(d, Linkage, p, q)
<1> DEFINE r == Phase(p.due, p.ver, p.probed, p.facts \cup {"advanced"})
<1>1. /\ Goes(d, Do("require_checkpoint"), p, r)
      /\ Goes(d, Do("await_zero_lag"), r, r)
      /\ Goes(d, Do("read_snapshots"), r, q)
  BY Steps, OptionsAssumption
     DEF Phase, Goes, Ready, MayWrite, MayStart, MayRead, MayCheck, Counts, Lost, Learned,
             Starts, Writes, Produces, Submits, OfTheJob, Early, Poisoned, Single, Counted,
             Probing, Rows, Same
<1> QED BY <1>1, Lead3 DEF Linkage

\* the reconciliation, with its check or without,
LEMMA ReconciliationLeads ==
  ASSUME NEW d, NEW p, NEW q, {"idle", "full"} \subseteq p.facts, Same(p, q),
         q.facts \subseteq p.facts \cup {"src", "tab"}
  PROVE  Leads(d, Reconciliation, p, q) /\ Leads(d, Reconciled, p, q)
<1> DEFINE r == Phase(p.due, p.ver, p.probed, p.facts \cup {"src"})
           t == Phase(p.due, p.ver, p.probed, p.facts \cup {"src", "tab"})
<1>1. /\ Goes(d, Do("read_source"), p, r)
      /\ Goes(d, Do("read_table"), r, q)
      /\ Goes(d, Do("read_table"), r, t)
  BY Steps DEF Phase, Goes, Ready, MayWrite, MayStart, MayRead, MayCheck, Counts, Lost, Learned,
             Starts, Writes, Produces, Submits, OfTheJob, Early, Poisoned, Single, Counted,
             Probing, Rows, Same
<1>0. Goes(d, Do("check_reconciled"), t, q)
  BY Steps DEF Phase, Goes, Ready, MayWrite, MayStart, MayRead, MayCheck, Counts, Lost, Learned,
             Starts, Writes, Produces, Submits, OfTheJob, Early, Poisoned, Single, Counted,
             Probing, Rows, Same
<1> HIDE DEF r, t
<1>2. Leads(d, Reconciliation, p, q) /\ Leads(d, Reconciliation, p, t)
  BY <1>1, Lead2 DEF Reconciliation
<1>3. Leads(d, <<Do("check_reconciled")>>, t, q)
  BY <1>0, Lead1
<1>4. Leads(d, Reconciled, p, q)
  BY <1>2, <1>3, LeadJoin DEF Reconciled
<1> QED BY <1>2, <1>4

\* the one a drill ends with,
LEMMA ConclusionLeads ==
  ASSUME NEW d, NEW p, NEW q, {"idle", "full"} \subseteq p.facts, Same(p, q),
         q.facts \subseteq p.facts \cup {"src", "tab", "aud"}, MayCheck(d, Do("verdict"), q)
  PROVE  Leads(d, Conclusion, p, q)
<1> DEFINE t == Phase(p.due, p.ver, p.probed, p.facts \cup {"src", "tab"})
<1>1. Leads(d, Reconciliation, p, t)
  BY ReconciliationLeads DEF Phase, Same
<1>2. /\ Goes(d, Do("audit"), t, q)
      /\ Goes(d, Do("verdict"), q, q)
  BY Steps DEF Phase, Goes, Ready, MayWrite, MayStart, MayRead, MayCheck, Counts, Lost, Learned,
             Starts, Writes, Produces, Submits, OfTheJob, Early, Poisoned, Single, Counted,
             Probing, Rows, Same
<1> HIDE DEF t
<1> QED BY <1>1, <1>2, Lead2, LeadJoin DEF Conclusion

\* the cancellation,
LEMMA CancelLeads ==
  ASSUME NEW d, NEW p, NEW q, Same(p, q),
         q.facts \subseteq
           (p.facts \ {"gone", "fresh", "blank", "running", "checked", "advanced", "linked"})
             \cup {"gone"}
  PROVE  Leads(d, CancelAndWait, p, q)
<1> DEFINE r == Phase(p.due, p.ver, p.probed,
                      p.facts \ {"gone", "fresh", "blank", "running", "checked",
                                   "advanced", "linked"})
<1>1. /\ Goes(d, Do("cancel"), p, r)
      /\ Goes(d, Do("await_absent"), r, q)
  BY Steps DEF Phase, Goes, Ready, MayWrite, MayStart, MayRead, MayCheck, Counts, Lost, Learned,
             Starts, Writes, Produces, Submits, OfTheJob, Early, Poisoned, Single, Counted,
             Probing, Rows, Same
<1> QED BY <1>1, Lead2 DEF CancelAndWait

\* the workload,
LEMMA InsertLeads ==
  ASSUME NEW d, NEW p, NEW q, p.due = 0, p.ver = 1, q.due = Events, q.ver = 1,
         q.probed = p.probed,
         q.facts \subseteq
           (p.facts \ {"full", "src", "tab", "orig", "covered"}) \cup {"idle"}
  PROVE  Leads(d, Insert, p, q)
<1> DEFINE r == Phase(Events, 1, p.probed, q.facts \ {"idle"})
<1>1. /\ Goes(d, DoN("start_producer", Events), p, r)
      /\ Goes(d, Do("join_producer"), r, q)
  BY Steps, OptionsAssumption
     DEF Phase, Goes, Ready, MayWrite, MayStart, MayRead, MayCheck, Counts, Lost, Learned,
             Starts, Writes, Produces, Submits, OfTheJob, Early, Poisoned, Single, Counted,
             Probing, Rows, Same
<1> QED BY <1>1, Lead2 DEF Insert

\* its rows in the table,
LEMMA DrainLeads ==
  ASSUME NEW d, NEW p, NEW q, Same(p, q), p.due = Events, p.ver = 1,
         q.facts \subseteq p.facts \cup {"idle", "full"}
  PROVE  Leads(d, Drain, p, q)
<1> DEFINE r == Phase(p.due, p.ver, p.probed, p.facts \cup {"idle"})
<1>1. /\ Goes(d, Do("join_producer"), p, r)
      /\ Goes(d, DoN("await_rows", Events), r, q)
  BY Steps DEF Phase, Goes, Ready, MayWrite, MayStart, MayRead, MayCheck, Counts, Lost, Learned,
             Starts, Writes, Produces, Submits, OfTheJob, Early, Poisoned, Single, Counted,
             Probing, Rows, Same
<1> QED BY <1>1, Lead2 DEF Drain

\* a job and the wait for it,
LEMMA SubmitLeads ==
  ASSUME NEW d, NEW how \in Submits, NEW p, NEW q, Same(p, q), MayStart(d, Do(how), p),
         \A f \in q.facts : f \in p.facts \ OfTheJob \/ f = "running" \/ Learned(Do(how), p, f)
  PROVE  Leads(d, Submit(how), p, q) /\ Leads(d, SubmitOwned(how), p, q)
<1> DEFINE r == Phase(p.due, p.ver, p.probed, q.facts \ {"running"})
<1>1. Goes(d, Do(how), p, r)
  <2>1. Ready(d, Do(how), p)
    BY Steps DEF Ready, MayWrite, MayRead, MayCheck, Starts, Submits
  <2>2. Counts(Do(how), p, r)
    BY Steps DEF Phase, Counts, Starts, Submits, Produces
  <2>3. \A f \in r.facts : f \in p.facts \ Lost(how) \/ Learned(Do(how), p, f)
    BY DEF Phase, Lost, Starts, Writes, Submits
  <2> QED BY <2>1, <2>2, <2>3, Steps DEF Goes
<1>2. /\ Goes(d, Do("await_job"), r, q)
      /\ Goes(d, Do("own"), q, q) /\ Goes(d, Do("own"), r, r)
  BY Steps DEF Phase, Goes, Ready, MayWrite, MayStart, MayRead, MayCheck, Counts, Lost, Learned,
             Starts, Writes, Produces, Submits, OfTheJob, Early, Poisoned, Single, Counted,
             Probing, Rows, Same
<1> QED BY <1>1, <1>2, Lead3 DEF Submit, SubmitOwned

\* and the records of the probe.
LEMMA KeyedLeads ==
  ASSUME NEW d, NEW p, NEW q, d = "ordering_miskey", p.probed = 0, q.probed = 3,
         q.due = p.due, q.ver = p.ver, q.facts \subseteq p.facts
  PROVE  Leads(d, Keyed, p, q)
<1> DEFINE r == Phase(p.due, p.ver, 1, p.facts)
           t == Phase(p.due, p.ver, 2, p.facts)
<1>1. /\ Goes(d, DoN("produce_keyed", 1), p, r)
      /\ Goes(d, DoN("produce_keyed", 2), r, t)
      /\ Goes(d, DoN("produce_keyed", 3), t, q)
  BY Steps DEF Phase, Goes, Ready, MayWrite, MayStart, MayRead, MayCheck, Counts, Lost, Learned,
             Starts, Writes, Produces, Submits, OfTheJob, Early, Poisoned, Single, Counted,
             Probing, Rows, Same
<1> QED BY <1>1, Lead3 DEF Keyed

LEMMA MiskeyedLeads ==
  ASSUME NEW d, NEW p, NEW q, d \in Probing, p.probed = IF d = "broker_slo" THEN 0 ELSE 3,
         q.probed = p.probed + 3, q.due = p.due, q.ver = p.ver, q.facts \subseteq p.facts
  PROVE  Leads(d, Miskeyed, p, q)
<1> DEFINE r == Phase(p.due, p.ver, p.probed + 1, p.facts)
           t == Phase(p.due, p.ver, p.probed + 2, p.facts)
<1>1. /\ Goes(d, DoN("produce_miskeyed", 1), p, r)
      /\ Goes(d, DoN("produce_miskeyed", 2), r, t)
      /\ Goes(d, DoN("produce_miskeyed", 3), t, q)
  BY Steps DEF Phase, Goes, Ready, MayWrite, MayStart, MayRead, MayCheck, Counts, Lost, Learned,
             Starts, Writes, Produces, Submits, OfTheJob, Early, Poisoned, Single, Counted,
             Probing, Rows, Same
<1> QED BY <1>1, Lead3 DEF Miskeyed

\* The scripts, one by one: the parity check,
LEMMA ParityLeads ==
  \E q : Leads("broker_parity", BrokerParity, Nowhere, q)
<1> DEFINE p0 == Nowhere
           p1 == Phase(0, 1, 0, {})
           p2 == Phase(Events, 1, 0, {"idle"})
           p3 == Phase(Events, 1, 0, {"idle", "full"})
           p4 == Phase(Events, 1, 0, {"idle", "src", "tab"})
           p5 == Phase(Events, 1, 0, {"idle", "src", "tab", "orig"})
           p6 == Phase(Events, 1, 0, {"idle", "gone", "src", "tab", "orig"})
           p7 == Phase(Events, 1, 0, {"idle", "gone", "blank", "src", "tab", "orig"})
           p8 == Phase(Events, 1, 0, {"idle", "src", "tab", "orig", "first"})
           p9 == Phase(Events, 1, 0, {"idle", "full", "src", "tab", "orig", "first"})
           p10 == Phase(Events, 1, 0, {"idle", "full", "src", "tab", "orig", "first"})
           p11 == Phase(Events, 1, 0,
                        {"idle", "full", "src", "tab", "orig", "first", "all"})
<1>1. Leads("broker_parity", SubmitOwned("submit_cdc"), p0, p1)
  <2>1. MayStart("broker_parity", Do("submit_cdc"), p0)
    BY Steps DEF Phase, Nowhere, MayStart, Submits, Single, Counted
  <2>2. \A f \in p1.facts :
          f \in p0.facts \ OfTheJob \/ f = "running" \/ Learned(Do("submit_cdc"), p0, f)
    BY Steps DEF Phase, Nowhere, Learned, Submits, OfTheJob
  <2> QED BY <2>1, <2>2, SubmitLeads DEF Phase, Nowhere, Same, Submits
<1>2. Leads("broker_parity", Insert, p1, p2)
  BY InsertLeads, OptionsAssumption DEF Phase, Nowhere, Same, Probing
<1>3. Leads("broker_parity", <<DoN("await_rows", Events)>>, p2, p3)
  <2>1. Goes("broker_parity", DoN("await_rows", Events), p2, p3)
    BY Steps, OptionsAssumption
       DEF Phase, Goes, Ready, MayWrite, MayStart, MayRead, MayCheck, Counts, Lost, Learned,
           Starts, Writes, Produces, Submits, OfTheJob, Early, Poisoned, Single, Counted,
           Probing, Rows, Same, Nowhere
  <2> QED BY <2>1, Lead1
<1>4. Leads("broker_parity", Reconciled, p3, p4)
  BY ReconciliationLeads, OptionsAssumption DEF Phase, Nowhere, Same, Probing
<1>5. Leads("broker_parity", <<Do("remember_original"), Do("require_checkpoint"),
                           DoN("check_changelog", Events), DoN("await_topic", Events)>>, p4, p5)
  <2>1. /\ Goes("broker_parity", Do("remember_original"), p4, p5)
        /\ Goes("broker_parity", Do("require_checkpoint"), p5, p5)
        /\ Goes("broker_parity", DoN("check_changelog", Events), p5, p5)
        /\ Goes("broker_parity", DoN("await_topic", Events), p5, p5)
    BY Steps, OptionsAssumption
       DEF Phase, Goes, Ready, MayWrite, MayStart, MayRead, MayCheck, Counts, Lost, Learned,
           Starts, Writes, Produces, Submits, OfTheJob, Early, Poisoned, Single, Counted,
           Probing, Rows, Same, Nowhere
  <2> QED BY <2>1, Lead4
<1>6. Leads("broker_parity", CancelAndWait, p5, p6)
  BY CancelLeads, OptionsAssumption DEF Phase, Nowhere, Same, Probing
<1>7. Leads("broker_parity", <<Do("reset_tables")>>, p6, p7)
  <2>1. Goes("broker_parity", Do("reset_tables"), p6, p7)
    BY Steps, OptionsAssumption
       DEF Phase, Goes, Ready, MayWrite, MayStart, MayRead, MayCheck, Counts, Lost, Learned,
           Starts, Writes, Produces, Submits, OfTheJob, Early, Poisoned, Single, Counted,
           Probing, Rows, Same, Nowhere
  <2> QED BY <2>1, Lead1
<1>8. Leads("broker_parity", SubmitOwned("submit"), p7, p8)
  <2>1. MayStart("broker_parity", Do("submit"), p7)
    BY Steps DEF Phase, Nowhere, MayStart, Submits, Single, Counted
  <2>2. \A f \in p8.facts :
          f \in p7.facts \ OfTheJob \/ f = "running" \/ Learned(Do("submit"), p7, f)
    BY Steps DEF Phase, Nowhere, Learned, Submits, OfTheJob
  <2> QED BY <2>1, <2>2, SubmitLeads DEF Phase, Nowhere, Same, Submits
<1>9. Leads("broker_parity", <<Do("await_original"), Do("read_table")>>, p8, p9)
  <2>1. /\ Goes("broker_parity", Do("await_original"), p8, p9)
        /\ Goes("broker_parity", Do("read_table"), p9, p9)
    BY Steps, OptionsAssumption
       DEF Phase, Goes, Ready, MayWrite, MayStart, MayRead, MayCheck, Counts, Lost, Learned,
           Starts, Writes, Produces, Submits, OfTheJob, Early, Poisoned, Single, Counted,
           Probing, Rows, Same, Nowhere
  <2> QED BY <2>1, Lead2
<1>10. Leads("broker_parity", Linkage, p9, p10)
  BY LinkageLeads, OptionsAssumption DEF Phase, Nowhere, Same, Probing
<1>11. Leads("broker_parity", <<DoN("check_changelog", Events), Do("verdict")>>, p10, p11)
  <2>1. /\ Goes("broker_parity", DoN("check_changelog", Events), p10, p11)
        /\ Goes("broker_parity", Do("verdict"), p11, p11)
    BY Steps, OptionsAssumption
       DEF Phase, Goes, Ready, MayWrite, MayStart, MayRead, MayCheck, Counts, Lost, Learned,
           Starts, Writes, Produces, Submits, OfTheJob, Early, Poisoned, Single, Counted,
           Probing, Rows, Same, Nowhere
  <2> QED BY <2>1, Lead2
<1> HIDE DEF p0, p1, p2, p3, p4, p5, p6, p7, p8, p9, p10, p11
<1> DEFINE q2 == SubmitOwned("submit_cdc") \o Insert
           q3 == q2 \o <<DoN("await_rows", Events)>>
           q4 == q3 \o Reconciled
           q5 == q4 \o <<Do("remember_original"), Do("require_checkpoint"),
            DoN("check_changelog", Events), DoN("await_topic", Events)>>
           q6 == q5 \o CancelAndWait
           q7 == q6 \o <<Do("reset_tables")>>
           q8 == q7 \o SubmitOwned("submit")
           q9 == q8 \o <<Do("await_original"), Do("read_table")>>
           q10 == q9 \o Linkage
           q11 == q10 \o <<DoN("check_changelog", Events), Do("verdict")>>
<1>12. Leads("broker_parity", q2, p0, p2)
  BY <1>1, <1>2, LeadJoin
<1> HIDE DEF q2
<1>13. Leads("broker_parity", q3, p0, p3)
  BY <1>12, <1>3, LeadJoin
<1> HIDE DEF q3
<1>14. Leads("broker_parity", q4, p0, p4)
  BY <1>13, <1>4, LeadJoin
<1> HIDE DEF q4
<1>15. Leads("broker_parity", q5, p0, p5)
  BY <1>14, <1>5, LeadJoin
<1> HIDE DEF q5
<1>16. Leads("broker_parity", q6, p0, p6)
  BY <1>15, <1>6, LeadJoin
<1> HIDE DEF q6
<1>17. Leads("broker_parity", q7, p0, p7)
  BY <1>16, <1>7, LeadJoin
<1> HIDE DEF q7
<1>18. Leads("broker_parity", q8, p0, p8)
  BY <1>17, <1>8, LeadJoin
<1> HIDE DEF q8
<1>19. Leads("broker_parity", q9, p0, p9)
  BY <1>18, <1>9, LeadJoin
<1> HIDE DEF q9
<1>20. Leads("broker_parity", q10, p0, p10)
  BY <1>19, <1>10, LeadJoin
<1> HIDE DEF q10
<1>21. Leads("broker_parity", q11, p0, p11)
  BY <1>20, <1>11, LeadJoin
<1> HIDE DEF q11
<1> QED BY <1>21 DEF BrokerParity, q2, q3, q4, q5, q6, q7, q8, q9, q10, q11, p0

\* the schema drill,
LEMMA SchemaLeads ==
  \E q : Leads("schema_contract", SchemaContract, Nowhere, q)
<1> DEFINE p0 == Nowhere
           p1 == Phase(0, 1, 0, {"gone", "fresh"})
           p2 == Phase(0, 1, 0, {"running"})
           p3 == Phase(Events, 1, 0, {"idle", "running"})
           p4 == Phase(Events, 1, 0, {"idle", "full", "running"})
           p5 == Phase(Events, 1, 0, {"idle", "running"})
           p6 == Phase(Events + 1, 1, 0, {"idle", "full", "subject", "after", "covered"})
           p7 == Phase(Events + 1, 1, 0, {"idle", "full", "subject", "after", "covered"})
           p8 == Phase(Events + 1, 1, 0, {"idle", "full", "after", "covered"})
<1>1. Leads("schema_contract", <<Do("check_connector")>>, p0, p1)
  <2>1. Goes("schema_contract", Do("check_connector"), p0, p1)
    BY Steps, OptionsAssumption
       DEF Phase, Goes, Ready, MayWrite, MayStart, MayRead, MayCheck, Counts, Lost, Learned,
           Starts, Writes, Produces, Submits, OfTheJob, Early, Poisoned, Single, Counted,
           Probing, Rows, Same, Nowhere
  <2> QED BY <2>1, Lead1
<1>2. Leads("schema_contract", SubmitOwned("submit"), p1, p2)
  <2>1. MayStart("schema_contract", Do("submit"), p1)
    BY Steps DEF Phase, Nowhere, MayStart, Submits, Single, Counted
  <2>2. \A f \in p2.facts :
          f \in p1.facts \ OfTheJob \/ f = "running" \/ Learned(Do("submit"), p1, f)
    BY Steps DEF Phase, Nowhere, Learned, Submits, OfTheJob
  <2> QED BY <2>1, <2>2, SubmitLeads DEF Phase, Nowhere, Same, Submits
<1>3. Leads("schema_contract", Insert, p2, p3)
  BY InsertLeads, OptionsAssumption DEF Phase, Nowhere, Same, Probing
<1>4. Leads("schema_contract", <<DoN("await_topic", Events), DoN("await_rows", Events)>>, p3, p4)
  <2>1. /\ Goes("schema_contract", DoN("await_topic", Events), p3, p3)
        /\ Goes("schema_contract", DoN("await_rows", Events), p3, p4)
    BY Steps, OptionsAssumption
       DEF Phase, Goes, Ready, MayWrite, MayStart, MayRead, MayCheck, Counts, Lost, Learned,
           Starts, Writes, Produces, Submits, OfTheJob, Early, Poisoned, Single, Counted,
           Probing, Rows, Same, Nowhere
  <2> QED BY <2>1, Lead2
<1>5. Leads("schema_contract", Reconciled, p4, p5)
  BY ReconciliationLeads, OptionsAssumption DEF Phase, Nowhere, Same, Probing
<1>6. Leads("schema_contract", <<Do("require_checkpoint"), Do("remember_checkpoint"),
                             Do("await_zero_lag"), Do("await_subject"), Do("register"),
                             Do("check_rejected"), Do("check_listed"),
                             Do("check_connector"), Do("insert_row"),
                             DoN("await_topic", Events + 1), DoN("await_rows", Events + 1),
                             Do("await_checkpoint_after"), Do("require_checkpoint"),
                             Do("await_zero_lag")>>, p5, p6)
<2> DEFINE r1 == Phase(Events, 1, 0, {"idle", "running", "checked"})
           r2 == Phase(Events, 1, 0, {"idle", "running", "before"})
           r4 == Phase(Events, 1, 0, {"idle", "running", "subject", "before"})
           r7 == Phase(Events, 1, 0, {"idle", "subject", "before"})
           r9 == Phase(Events + 1, 1, 0, {"idle", "subject", "before"})
           r11 == Phase(Events + 1, 1, 0, {"idle", "full", "subject", "before"})
  <2>1. /\ Goes("schema_contract", Do("require_checkpoint"), p5, r1)
        /\ Goes("schema_contract", Do("remember_checkpoint"), r1, r2)
        /\ Goes("schema_contract", Do("await_zero_lag"), r2, r2)
        /\ Goes("schema_contract", Do("await_subject"), r2, r4)
        /\ Goes("schema_contract", Do("register"), r4, r4)
    BY Steps, OptionsAssumption
       DEF Phase, Goes, Ready, MayWrite, MayStart, MayRead, MayCheck, Counts, Lost, Learned,
           Starts, Writes, Produces, Submits, OfTheJob, Early, Poisoned, Single, Counted,
           Probing, Rows, Same, Nowhere
  <2>2. /\ Goes("schema_contract", Do("check_rejected"), r4, r4)
        /\ Goes("schema_contract", Do("check_listed"), r4, r7)
        /\ Goes("schema_contract", Do("check_connector"), r7, r7)
        /\ Goes("schema_contract", Do("insert_row"), r7, r9)
        /\ Goes("schema_contract", DoN("await_topic", Events + 1), r9, r9)
    <3>1. Goes("schema_contract", Do("check_rejected"), r4, r4)
      BY Steps, OptionsAssumption
         DEF Phase, Goes, Ready, MayWrite, MayStart, MayRead, MayCheck, Counts, Lost, Learned,
             Starts, Writes, Produces, Submits, OfTheJob, Early, Poisoned, Single, Counted,
             Probing, Rows, Same, Nowhere
    <3>2. Goes("schema_contract", Do("check_listed"), r4, r7)
      BY Steps, OptionsAssumption
         DEF Phase, Goes, Ready, MayWrite, MayStart, MayRead, MayCheck, Counts, Lost, Learned,
             Starts, Writes, Produces, Submits, OfTheJob, Early, Poisoned, Single, Counted,
             Probing, Rows, Same, Nowhere
    <3>3. Goes("schema_contract", Do("check_connector"), r7, r7)
      BY Steps, OptionsAssumption
         DEF Phase, Goes, Ready, MayWrite, MayStart, MayRead, MayCheck, Counts, Lost, Learned,
             Starts, Writes, Produces, Submits, OfTheJob, Early, Poisoned, Single, Counted,
             Probing, Rows, Same, Nowhere
    <3>4. Goes("schema_contract", Do("insert_row"), r7, r9)
      BY Steps, OptionsAssumption
         DEF Phase, Goes, Ready, MayWrite, MayStart, MayRead, MayCheck, Counts, Lost, Learned,
             Starts, Writes, Produces, Submits, OfTheJob, Early, Poisoned, Single, Counted,
             Probing, Rows, Same, Nowhere
    <3>5. Goes("schema_contract", DoN("await_topic", Events + 1), r9, r9)
      BY Steps, OptionsAssumption
         DEF Phase, Goes, Ready, MayWrite, MayStart, MayRead, MayCheck, Counts, Lost, Learned,
             Starts, Writes, Produces, Submits, OfTheJob, Early, Poisoned, Single, Counted,
             Probing, Rows, Same, Nowhere
    <3> QED BY <3>1, <3>2, <3>3, <3>4, <3>5
  <2>3. /\ Goes("schema_contract", DoN("await_rows", Events + 1), r9, r11)
        /\ Goes("schema_contract", Do("await_checkpoint_after"), r11, p6)
        /\ Goes("schema_contract", Do("require_checkpoint"), p6, p6)
        /\ Goes("schema_contract", Do("await_zero_lag"), p6, p6)
    BY Steps, OptionsAssumption
       DEF Phase, Goes, Ready, MayWrite, MayStart, MayRead, MayCheck, Counts, Lost, Learned,
           Starts, Writes, Produces, Submits, OfTheJob, Early, Poisoned, Single, Counted,
           Probing, Rows, Same, Nowhere
  <2> HIDE DEF r1, r2, r4, r7, r9, r11, p5, p6
  <2>4. Leads("schema_contract", <<Do("require_checkpoint"), Do("remember_checkpoint"),
                               Do("await_zero_lag"), Do("await_subject"), Do("register")>>, p5, r4)
    BY <2>1, Lead5
  <2>5. Leads("schema_contract", <<Do("check_rejected"), Do("check_listed"),
                               Do("check_connector"), Do("insert_row"),
                               DoN("await_topic", Events + 1)>>, r4, r9)
    BY <2>2, Lead5
  <2>6. Leads("schema_contract", <<DoN("await_rows", Events + 1), Do("await_checkpoint_after"),
                               Do("require_checkpoint"), Do("await_zero_lag")>>, r9, p6)
    BY <2>3, Lead4
  <2>7. <<Do("require_checkpoint"), Do("remember_checkpoint"), Do("await_zero_lag"),
          Do("await_subject"), Do("register"), Do("check_rejected"), Do("check_listed"),
          Do("check_connector"), Do("insert_row"), DoN("await_topic", Events + 1),
          DoN("await_rows", Events + 1), Do("await_checkpoint_after"),
          Do("require_checkpoint"), Do("await_zero_lag")>>
        = <<Do("require_checkpoint"), Do("remember_checkpoint"), Do("await_zero_lag"),
            Do("await_subject"), Do("register")>>
          \o <<Do("check_rejected"), Do("check_listed"), Do("check_connector"),
            Do("insert_row"), DoN("await_topic", Events + 1)>>
          \o <<DoN("await_rows", Events + 1), Do("await_checkpoint_after"),
            Do("require_checkpoint"), Do("await_zero_lag")>>
    OBVIOUS
  <2>8. Leads("schema_contract",
          <<Do("require_checkpoint"), Do("remember_checkpoint"), Do("await_zero_lag"),
            Do("await_subject"), Do("register")>>
          \o <<Do("check_rejected"), Do("check_listed"), Do("check_connector"),
            Do("insert_row"), DoN("await_topic", Events + 1)>>,
          p5, r9)
    BY <2>4, <2>5, LeadJoin
  <2>9. Leads("schema_contract",
          <<Do("require_checkpoint"), Do("remember_checkpoint"), Do("await_zero_lag"),
            Do("await_subject"), Do("register")>>
          \o <<Do("check_rejected"), Do("check_listed"), Do("check_connector"),
            Do("insert_row"), DoN("await_topic", Events + 1)>>
          \o <<DoN("await_rows", Events + 1), Do("await_checkpoint_after"),
            Do("require_checkpoint"), Do("await_zero_lag")>>,
          p5, p6)
    BY <2>8, <2>6, LeadJoin
  <2> QED BY <2>9, <2>7
<1>7. Leads("schema_contract", Reconciled, p6, p7)
  BY ReconciliationLeads, OptionsAssumption DEF Phase, Nowhere, Same, Probing
<1>8. Leads("schema_contract", <<Do("check_connector"), Do("check_rejected"), Do("verdict")>>, p7, p8)
  <2>1. /\ Goes("schema_contract", Do("check_connector"), p7, p7)
        /\ Goes("schema_contract", Do("check_rejected"), p7, p8)
        /\ Goes("schema_contract", Do("verdict"), p8, p8)
    BY Steps, OptionsAssumption
       DEF Phase, Goes, Ready, MayWrite, MayStart, MayRead, MayCheck, Counts, Lost, Learned,
           Starts, Writes, Produces, Submits, OfTheJob, Early, Poisoned, Single, Counted,
           Probing, Rows, Same, Nowhere
  <2> QED BY <2>1, Lead3
<1> HIDE DEF p0, p1, p2, p3, p4, p5, p6, p7, p8
<1> DEFINE q2 == <<Do("check_connector")>> \o SubmitOwned("submit")
           q3 == q2 \o Insert
           q4 == q3 \o <<DoN("await_topic", Events), DoN("await_rows", Events)>>
           q5 == q4 \o Reconciled
           q6 == q5 \o <<Do("require_checkpoint"), Do("remember_checkpoint"), Do("await_zero_lag"),
            Do("await_subject"), Do("register"), Do("check_rejected"), Do("check_listed"),
            Do("check_connector"), Do("insert_row"), DoN("await_topic", Events + 1),
            DoN("await_rows", Events + 1), Do("await_checkpoint_after"),
            Do("require_checkpoint"), Do("await_zero_lag")>>
           q7 == q6 \o Reconciled
           q8 == q7 \o <<Do("check_connector"), Do("check_rejected"), Do("verdict")>>
<1>9. Leads("schema_contract", q2, p0, p2)
  BY <1>1, <1>2, LeadJoin
<1> HIDE DEF q2
<1>10. Leads("schema_contract", q3, p0, p3)
  BY <1>9, <1>3, LeadJoin
<1> HIDE DEF q3
<1>11. Leads("schema_contract", q4, p0, p4)
  BY <1>10, <1>4, LeadJoin
<1> HIDE DEF q4
<1>12. Leads("schema_contract", q5, p0, p5)
  BY <1>11, <1>5, LeadJoin
<1> HIDE DEF q5
<1>13. Leads("schema_contract", q6, p0, p6)
  BY <1>12, <1>6, LeadJoin
<1> HIDE DEF q6
<1>14. Leads("schema_contract", q7, p0, p7)
  BY <1>13, <1>7, LeadJoin
<1> HIDE DEF q7
<1>15. Leads("schema_contract", q8, p0, p8)
  BY <1>14, <1>8, LeadJoin
<1> HIDE DEF q8
<1> QED BY <1>15 DEF SchemaContract, q2, q3, q4, q5, q6, q7, q8, p0

\* the restart drill,
LEMMA RestartLeads ==
  \E q : Leads("broker_restart", BrokerRestart, Nowhere, q)
<1> DEFINE p0 == Nowhere
           p1 == Phase(0, 1, 0, {})
           p2 == Phase(Events, 1, 0, {"before", "zero"})
           p3 == Phase(Events, 1, 0, {"idle", "full", "before", "zero"})
           p4 == Phase(Events, 1, 0, {"idle", "full", "linked"})
           p5 == Phase(Events, 1, 0, {"idle", "full", "src", "tab", "aud", "linked"})
<1>1. Leads("broker_restart", Submit("submit"), p0, p1)
  <2>1. MayStart("broker_restart", Do("submit"), p0)
    BY Steps DEF Phase, Nowhere, MayStart, Submits, Single, Counted
  <2>2. \A f \in p1.facts :
          f \in p0.facts \ OfTheJob \/ f = "running" \/ Learned(Do("submit"), p0, f)
    BY Steps DEF Phase, Nowhere, Learned, Submits, OfTheJob
  <2> QED BY <2>1, <2>2, SubmitLeads DEF Phase, Nowhere, Same, Submits
<1>2. Leads("broker_restart", <<Do("require_checkpoint"), Do("remember_checkpoint"),
                            DoN("start_producer", Events), Do("await_streaming"),
                            Do("check_producer"), Do("read_offsets"), Do("kill_kafka"),
                            Do("start_kafka"), Do("await_connector")>>, p1, p2)
<2> DEFINE r1 == Phase(0, 1, 0, {"checked"})
           r2 == Phase(0, 1, 0, {"before", "zero"})
  <2>1. /\ Goes("broker_restart", Do("require_checkpoint"), p1, r1)
        /\ Goes("broker_restart", Do("remember_checkpoint"), r1, r2)
        /\ Goes("broker_restart", DoN("start_producer", Events), r2, p2)
        /\ Goes("broker_restart", Do("await_streaming"), p2, p2)
        /\ Goes("broker_restart", Do("check_producer"), p2, p2)
    BY Steps, OptionsAssumption
       DEF Phase, Goes, Ready, MayWrite, MayStart, MayRead, MayCheck, Counts, Lost, Learned,
           Starts, Writes, Produces, Submits, OfTheJob, Early, Poisoned, Single, Counted,
           Probing, Rows, Same, Nowhere
  <2>2. /\ Goes("broker_restart", Do("read_offsets"), p2, p2)
        /\ Goes("broker_restart", Do("kill_kafka"), p2, p2)
        /\ Goes("broker_restart", Do("start_kafka"), p2, p2)
        /\ Goes("broker_restart", Do("await_connector"), p2, p2)
    BY Steps, OptionsAssumption
       DEF Phase, Goes, Ready, MayWrite, MayStart, MayRead, MayCheck, Counts, Lost, Learned,
           Starts, Writes, Produces, Submits, OfTheJob, Early, Poisoned, Single, Counted,
           Probing, Rows, Same, Nowhere
  <2> HIDE DEF r1, r2, p1, p2
  <2>3. Leads("broker_restart", <<Do("require_checkpoint"), Do("remember_checkpoint"),
                              DoN("start_producer", Events), Do("await_streaming"),
                              Do("check_producer")>>, p1, p2)
    BY <2>1, Lead5
  <2>4. Leads("broker_restart", <<Do("read_offsets"), Do("kill_kafka"), Do("start_kafka"),
                              Do("await_connector")>>, p2, p2)
    BY <2>2, Lead4
  <2>5. <<Do("require_checkpoint"), Do("remember_checkpoint"),
          DoN("start_producer", Events), Do("await_streaming"), Do("check_producer"),
          Do("read_offsets"), Do("kill_kafka"), Do("start_kafka"), Do("await_connector")>>
        = <<Do("require_checkpoint"), Do("remember_checkpoint"),
            DoN("start_producer", Events), Do("await_streaming"), Do("check_producer")>>
          \o <<Do("read_offsets"), Do("kill_kafka"), Do("start_kafka"), Do("await_connector")>>
    OBVIOUS
  <2>6. Leads("broker_restart",
          <<Do("require_checkpoint"), Do("remember_checkpoint"),
            DoN("start_producer", Events), Do("await_streaming"), Do("check_producer")>>
          \o <<Do("read_offsets"), Do("kill_kafka"), Do("start_kafka"), Do("await_connector")>>,
          p1, p2)
    BY <2>3, <2>4, LeadJoin
  <2> QED BY <2>6, <2>5
<1>3. Leads("broker_restart", Drain, p2, p3)
  BY DrainLeads, OptionsAssumption DEF Phase, Nowhere, Same, Probing
<1>4. Leads("broker_restart", Linkage, p3, p4)
  BY LaterLinkageLeads, OptionsAssumption DEF Phase, Nowhere, Same, Probing
<1>5. Leads("broker_restart", Conclusion, p4, p5)
  <2>1. MayCheck("broker_restart", Do("verdict"), p5)
    BY Steps DEF Phase, MayCheck, Early, Rows, Poisoned, Probing
  <2> QED BY <2>1, ConclusionLeads DEF Phase, Same
<1> HIDE DEF p0, p1, p2, p3, p4, p5
<1> DEFINE q2 == Submit("submit") \o <<Do("require_checkpoint"), Do("remember_checkpoint"),
            DoN("start_producer", Events), Do("await_streaming"), Do("check_producer"),
            Do("read_offsets"), Do("kill_kafka"), Do("start_kafka"), Do("await_connector")>>
           q3 == q2 \o Drain
           q4 == q3 \o Linkage
           q5 == q4 \o Conclusion
<1>6. Leads("broker_restart", q2, p0, p2)
  BY <1>1, <1>2, LeadJoin
<1> HIDE DEF q2
<1>7. Leads("broker_restart", q3, p0, p3)
  BY <1>6, <1>3, LeadJoin
<1> HIDE DEF q3
<1>8. Leads("broker_restart", q4, p0, p4)
  BY <1>7, <1>4, LeadJoin
<1> HIDE DEF q4
<1>9. Leads("broker_restart", q5, p0, p5)
  BY <1>8, <1>5, LeadJoin
<1> HIDE DEF q5
<1> QED BY <1>9 DEF BrokerRestart, q2, q3, q4, q5, p0

\* the second delivery,
LEMMA DuplicateLeads ==
  \E q : Leads("duplicate_redelivery", DuplicateRedelivery, Nowhere, q)
<1> DEFINE p0 == Nowhere
           p1 == Phase(0, 1, 0, {"first"})
           p2 == Phase(Events, 1, 0, {"idle", "first"})
           p3 == Phase(Events, 1, 0, {"idle", "full", "first"})
           p4 == Phase(Events, 1, 0, {"idle", "full", "first"})
           p5 == Phase(Events, 1, 0, {"idle", "full", "first", "all"})
           p6 == Phase(Events, 1, 0, {"idle", "gone", "full", "first", "all"})
           p7 == Phase(Events, 1, 0, {"idle", "gone", "full", "first", "all"})
           p8 == Phase(Events, 1, 0, {"idle", "full", "again"})
           p9 == Phase(Events, 1, 0, {"idle", "full", "again", "all"})
           p10 == Phase(Events, 1, 0, {"idle", "full", "again", "all"})
           p11 == Phase(Events, 1, 0, {"idle", "full", "src", "tab", "aud", "again", "all"})
<1>1. Leads("duplicate_redelivery", Submit("submit_committed"), p0, p1)
  <2>1. MayStart("duplicate_redelivery", Do("submit_committed"), p0)
    BY Steps DEF Phase, Nowhere, MayStart, Submits, Single, Counted
  <2>2. \A f \in p1.facts :
          f \in p0.facts \ OfTheJob \/ f = "running" \/ Learned(Do("submit_committed"), p0, f)
    BY Steps DEF Phase, Nowhere, Learned, Submits, OfTheJob
  <2> QED BY <2>1, <2>2, SubmitLeads DEF Phase, Nowhere, Same, Submits
<1>2. Leads("duplicate_redelivery", Insert, p1, p2)
  BY InsertLeads, OptionsAssumption DEF Phase, Nowhere, Same, Probing
<1>3. Leads("duplicate_redelivery", <<DoN("await_rows", Events)>>, p2, p3)
  <2>1. Goes("duplicate_redelivery", DoN("await_rows", Events), p2, p3)
    BY Steps, OptionsAssumption
       DEF Phase, Goes, Ready, MayWrite, MayStart, MayRead, MayCheck, Counts, Lost, Learned,
           Starts, Writes, Produces, Submits, OfTheJob, Early, Poisoned, Single, Counted,
           Probing, Rows, Same, Nowhere
  <2> QED BY <2>1, Lead1
<1>4. Leads("duplicate_redelivery", Linkage, p3, p4)
  BY LinkageLeads, OptionsAssumption DEF Phase, Nowhere, Same, Probing
<1>5. Leads("duplicate_redelivery", <<DoN("check_changelog", Events)>>, p4, p5)
  <2>1. Goes("duplicate_redelivery", DoN("check_changelog", Events), p4, p5)
    BY Steps, OptionsAssumption
       DEF Phase, Goes, Ready, MayWrite, MayStart, MayRead, MayCheck, Counts, Lost, Learned,
           Starts, Writes, Produces, Submits, OfTheJob, Early, Poisoned, Single, Counted,
           Probing, Rows, Same, Nowhere
  <2> QED BY <2>1, Lead1
<1>6. Leads("duplicate_redelivery", CancelAndWait, p5, p6)
  BY CancelLeads, OptionsAssumption DEF Phase, Nowhere, Same, Probing
<1>7. Leads("duplicate_redelivery", <<Do("rewind_group")>>, p6, p7)
  <2>1. Goes("duplicate_redelivery", Do("rewind_group"), p6, p7)
    BY Steps, OptionsAssumption
       DEF Phase, Goes, Ready, MayWrite, MayStart, MayRead, MayCheck, Counts, Lost, Learned,
           Starts, Writes, Produces, Submits, OfTheJob, Early, Poisoned, Single, Counted,
           Probing, Rows, Same, Nowhere
  <2> QED BY <2>1, Lead1
<1>8. Leads("duplicate_redelivery", Submit("submit_committed"), p7, p8)
  <2>1. MayStart("duplicate_redelivery", Do("submit_committed"), p7)
    BY Steps DEF Phase, Nowhere, MayStart, Submits, Single, Counted
  <2>2. \A f \in p8.facts :
          f \in p7.facts \ OfTheJob \/ f = "running" \/ Learned(Do("submit_committed"), p7, f)
    BY Steps DEF Phase, Nowhere, Learned, Submits, OfTheJob
  <2> QED BY <2>1, <2>2, SubmitLeads DEF Phase, Nowhere, Same, Submits
<1>9. Leads("duplicate_redelivery", <<DoN("await_changelog", 2 * Events)>>, p8, p9)
  <2>1. Goes("duplicate_redelivery", DoN("await_changelog", 2 * Events), p8, p9)
    BY Steps, OptionsAssumption
       DEF Phase, Goes, Ready, MayWrite, MayStart, MayRead, MayCheck, Counts, Lost, Learned,
           Starts, Writes, Produces, Submits, OfTheJob, Early, Poisoned, Single, Counted,
           Probing, Rows, Same, Nowhere
  <2> QED BY <2>1, Lead1
<1>10. Leads("duplicate_redelivery", Linkage, p9, p10)
  BY LinkageLeads, OptionsAssumption DEF Phase, Nowhere, Same, Probing
<1>11. Leads("duplicate_redelivery", Conclusion, p10, p11)
  <2>1. MayCheck("duplicate_redelivery", Do("verdict"), p11)
    BY Steps DEF Phase, MayCheck, Early, Rows, Poisoned, Probing
  <2> QED BY <2>1, ConclusionLeads DEF Phase, Same
<1> HIDE DEF p0, p1, p2, p3, p4, p5, p6, p7, p8, p9, p10, p11
<1> DEFINE q2 == Submit("submit_committed") \o Insert
           q3 == q2 \o <<DoN("await_rows", Events)>>
           q4 == q3 \o Linkage
           q5 == q4 \o <<DoN("check_changelog", Events)>>
           q6 == q5 \o CancelAndWait
           q7 == q6 \o <<Do("rewind_group")>>
           q8 == q7 \o Submit("submit_committed")
           q9 == q8 \o <<DoN("await_changelog", 2 * Events)>>
           q10 == q9 \o Linkage
           q11 == q10 \o Conclusion
<1>12. Leads("duplicate_redelivery", q2, p0, p2)
  BY <1>1, <1>2, LeadJoin
<1> HIDE DEF q2
<1>13. Leads("duplicate_redelivery", q3, p0, p3)
  BY <1>12, <1>3, LeadJoin
<1> HIDE DEF q3
<1>14. Leads("duplicate_redelivery", q4, p0, p4)
  BY <1>13, <1>4, LeadJoin
<1> HIDE DEF q4
<1>15. Leads("duplicate_redelivery", q5, p0, p5)
  BY <1>14, <1>5, LeadJoin
<1> HIDE DEF q5
<1>16. Leads("duplicate_redelivery", q6, p0, p6)
  BY <1>15, <1>6, LeadJoin
<1> HIDE DEF q6
<1>17. Leads("duplicate_redelivery", q7, p0, p7)
  BY <1>16, <1>7, LeadJoin
<1> HIDE DEF q7
<1>18. Leads("duplicate_redelivery", q8, p0, p8)
  BY <1>17, <1>8, LeadJoin
<1> HIDE DEF q8
<1>19. Leads("duplicate_redelivery", q9, p0, p9)
  BY <1>18, <1>9, LeadJoin
<1> HIDE DEF q9
<1>20. Leads("duplicate_redelivery", q10, p0, p10)
  BY <1>19, <1>10, LeadJoin
<1> HIDE DEF q10
<1>21. Leads("duplicate_redelivery", q11, p0, p11)
  BY <1>20, <1>11, LeadJoin
<1> HIDE DEF q11
<1> QED BY <1>21 DEF DuplicateRedelivery, q2, q3, q4, q5, q6, q7, q8, q9, q10, q11, p0

\* the ordering probe,
LEMMA OrderingLeads ==
  \E q : Leads("ordering_miskey", OrderingMiskey, Nowhere, q)
<1> DEFINE p0 == Nowhere
           p1 == Phase(0, 1, 0, {})
           p2 == Phase(Events, 1, 0, {"idle"})
           p3 == Phase(Events, 1, 0, {"idle", "full"})
           p4 == Phase(Events, 1, 0, {"idle", "full"})
           p5 == Phase(Events, 1, 0, {"idle", "full", "src", "tab"})
           p6 == Phase(Events, 1, 0, {"idle", "full", "src", "tab", "aud"})
           p7 == Phase(Events, 1, 3, {"idle", "full", "src", "tab", "aud"})
           p8 == Phase(Events, 1, 6, {"idle", "full", "src", "tab", "aud"})
           p9 == Phase(Events, 1, 6, {"idle", "full", "src", "tab", "aud"})
<1>1. Leads("ordering_miskey", Submit("submit"), p0, p1)
  <2>1. MayStart("ordering_miskey", Do("submit"), p0)
    BY Steps DEF Phase, Nowhere, MayStart, Submits, Single, Counted
  <2>2. \A f \in p1.facts :
          f \in p0.facts \ OfTheJob \/ f = "running" \/ Learned(Do("submit"), p0, f)
    BY Steps DEF Phase, Nowhere, Learned, Submits, OfTheJob
  <2> QED BY <2>1, <2>2, SubmitLeads DEF Phase, Nowhere, Same, Submits
<1>2. Leads("ordering_miskey", Insert, p1, p2)
  BY InsertLeads, OptionsAssumption DEF Phase, Nowhere, Same, Probing
<1>3. Leads("ordering_miskey", <<DoN("await_rows", Events)>>, p2, p3)
  <2>1. Goes("ordering_miskey", DoN("await_rows", Events), p2, p3)
    BY Steps, OptionsAssumption
       DEF Phase, Goes, Ready, MayWrite, MayStart, MayRead, MayCheck, Counts, Lost, Learned,
           Starts, Writes, Produces, Submits, OfTheJob, Early, Poisoned, Single, Counted,
           Probing, Rows, Same, Nowhere
  <2> QED BY <2>1, Lead1
<1>4. Leads("ordering_miskey", Linkage, p3, p4)
  BY LinkageLeads, OptionsAssumption DEF Phase, Nowhere, Same, Probing
<1>5. Leads("ordering_miskey", Reconciliation, p4, p5)
  BY ReconciliationLeads, OptionsAssumption DEF Phase, Nowhere, Same, Probing
<1>6. Leads("ordering_miskey", <<Do("audit")>>, p5, p6)
  <2>1. Goes("ordering_miskey", Do("audit"), p5, p6)
    BY Steps, OptionsAssumption
       DEF Phase, Goes, Ready, MayWrite, MayStart, MayRead, MayCheck, Counts, Lost, Learned,
           Starts, Writes, Produces, Submits, OfTheJob, Early, Poisoned, Single, Counted,
           Probing, Rows, Same, Nowhere
  <2> QED BY <2>1, Lead1
<1>7. Leads("ordering_miskey", Keyed, p6, p7)
  BY KeyedLeads, OptionsAssumption DEF Phase, Nowhere, Same, Probing
<1>8. Leads("ordering_miskey", Miskeyed, p7, p8)
  BY MiskeyedLeads, OptionsAssumption DEF Phase, Nowhere, Same, Probing
<1>9. Leads("ordering_miskey", <<DoN("await_probe", 6), Do("check_probe"), Do("verdict")>>, p8, p9)
  <2>1. /\ Goes("ordering_miskey", DoN("await_probe", 6), p8, p8)
        /\ Goes("ordering_miskey", Do("check_probe"), p8, p8)
        /\ Goes("ordering_miskey", Do("verdict"), p8, p9)
    BY Steps, OptionsAssumption
       DEF Phase, Goes, Ready, MayWrite, MayStart, MayRead, MayCheck, Counts, Lost, Learned,
           Starts, Writes, Produces, Submits, OfTheJob, Early, Poisoned, Single, Counted,
           Probing, Rows, Same, Nowhere
  <2> QED BY <2>1, Lead3
<1> HIDE DEF p0, p1, p2, p3, p4, p5, p6, p7, p8, p9
<1> DEFINE q2 == Submit("submit") \o Insert
           q3 == q2 \o <<DoN("await_rows", Events)>>
           q4 == q3 \o Linkage
           q5 == q4 \o Reconciliation
           q6 == q5 \o <<Do("audit")>>
           q7 == q6 \o Keyed
           q8 == q7 \o Miskeyed
           q9 == q8 \o <<DoN("await_probe", 6), Do("check_probe"), Do("verdict")>>
<1>10. Leads("ordering_miskey", q2, p0, p2)
  BY <1>1, <1>2, LeadJoin
<1> HIDE DEF q2
<1>11. Leads("ordering_miskey", q3, p0, p3)
  BY <1>10, <1>3, LeadJoin
<1> HIDE DEF q3
<1>12. Leads("ordering_miskey", q4, p0, p4)
  BY <1>11, <1>4, LeadJoin
<1> HIDE DEF q4
<1>13. Leads("ordering_miskey", q5, p0, p5)
  BY <1>12, <1>5, LeadJoin
<1> HIDE DEF q5
<1>14. Leads("ordering_miskey", q6, p0, p6)
  BY <1>13, <1>6, LeadJoin
<1> HIDE DEF q6
<1>15. Leads("ordering_miskey", q7, p0, p7)
  BY <1>14, <1>7, LeadJoin
<1> HIDE DEF q7
<1>16. Leads("ordering_miskey", q8, p0, p8)
  BY <1>15, <1>8, LeadJoin
<1> HIDE DEF q8
<1>17. Leads("ordering_miskey", q9, p0, p9)
  BY <1>16, <1>9, LeadJoin
<1> HIDE DEF q9
<1> QED BY <1>17 DEF OrderingMiskey, q2, q3, q4, q5, q6, q7, q8, q9, p0

\* the poison record,
LEMMA PoisonLeads ==
  \E q : Leads("poison_dlq", PoisonDlq, Nowhere, q)
<1> DEFINE p0 == Nowhere
           p1 == Phase(0, 1, 0, {"clean"})
           p2 == Phase(Events, 1, 0, {"idle", "clean"})
           p3 == Phase(Events, 1, 0, {"idle", "clean", "full"})
           p4 == Phase(Events, 1, 0, {"idle", "clean", "checked"})
           p5 == Phase(Events + 1, 1, 0, {"idle", "full", "after", "quarantined"})
           p6 == Phase(Events + 1, 1, 0, {"idle", "full", "after", "quarantined"})
           p7 == Phase(Events + 1, 1, 0, {"idle", "after", "quarantined"})
           p8 == Phase(Events + 2, 1, 0, {"idle", "full", "after", "quarantined"})
           p9 == Phase(Events + 2, 1, 0, {"idle", "full", "after", "quarantined"})
           p10 == Phase(Events + 2, 1, 0,
                        {"idle", "full", "src", "tab", "aud", "after", "quarantined"})
<1>1. Leads("poison_dlq", Submit("submit"), p0, p1)
  <2>1. MayStart("poison_dlq", Do("submit"), p0)
    BY Steps DEF Phase, Nowhere, MayStart, Submits, Single, Counted
  <2>2. \A f \in p1.facts :
          f \in p0.facts \ OfTheJob \/ f = "running" \/ Learned(Do("submit"), p0, f)
    BY Steps DEF Phase, Nowhere, Learned, Submits, OfTheJob
  <2> QED BY <2>1, <2>2, SubmitLeads DEF Phase, Nowhere, Same, Submits
<1>2. Leads("poison_dlq", Insert, p1, p2)
  BY InsertLeads, OptionsAssumption DEF Phase, Nowhere, Same, Probing
<1>3. Leads("poison_dlq", <<DoN("await_rows", Events)>>, p2, p3)
  <2>1. Goes("poison_dlq", DoN("await_rows", Events), p2, p3)
    BY Steps, OptionsAssumption
       DEF Phase, Goes, Ready, MayWrite, MayStart, MayRead, MayCheck, Counts, Lost, Learned,
           Starts, Writes, Produces, Submits, OfTheJob, Early, Poisoned, Single, Counted,
           Probing, Rows, Same, Nowhere
  <2> QED BY <2>1, Lead1
<1>4. Leads("poison_dlq", Linkage, p3, p4)
  BY LinkageLeads, OptionsAssumption DEF Phase, Nowhere, Same, Probing
<1>5. Leads("poison_dlq", <<Do("require_checkpoint"), Do("remember_checkpoint"), Do("pause"),
                        Do("flag_paused"), Do("await_paused"), Do("insert_row"),
                        Do("produce_poison"), DoN("await_dlq", 1),
                        Do("await_checkpoint_after"), Do("produce_repair"),
                        DoN("await_rows", Events + 1)>>, p4, p5)
<2> DEFINE r2 == Phase(Events, 1, 0, {"idle", "clean", "before"})
           r6 == Phase(Events + 1, 1, 0, {"idle", "clean", "before"})
           r7 == Phase(Events + 1, 1, 0, {"idle", "before"})
           r8 == Phase(Events + 1, 1, 0, {"idle", "before", "quarantined"})
           r9 == Phase(Events + 1, 1, 0, {"idle", "after", "quarantined"})
  <2>1. /\ Goes("poison_dlq", Do("require_checkpoint"), p4, p4)
        /\ Goes("poison_dlq", Do("remember_checkpoint"), p4, r2)
        /\ Goes("poison_dlq", Do("pause"), r2, r2)
        /\ Goes("poison_dlq", Do("flag_paused"), r2, r2)
    BY Steps, OptionsAssumption
       DEF Phase, Goes, Ready, MayWrite, MayStart, MayRead, MayCheck, Counts, Lost, Learned,
           Starts, Writes, Produces, Submits, OfTheJob, Early, Poisoned, Single, Counted,
           Probing, Rows, Same, Nowhere
  <2>2. /\ Goes("poison_dlq", Do("await_paused"), r2, r2)
        /\ Goes("poison_dlq", Do("insert_row"), r2, r6)
        /\ Goes("poison_dlq", Do("produce_poison"), r6, r7)
        /\ Goes("poison_dlq", DoN("await_dlq", 1), r7, r8)
    <3>1. Goes("poison_dlq", Do("await_paused"), r2, r2)
      BY Steps, OptionsAssumption
         DEF Phase, Goes, Ready, MayWrite, MayStart, MayRead, MayCheck, Counts, Lost, Learned,
             Starts, Writes, Produces, Submits, OfTheJob, Early, Poisoned, Single, Counted,
             Probing, Rows, Same, Nowhere
    <3>2. Goes("poison_dlq", Do("insert_row"), r2, r6)
      BY Steps, OptionsAssumption
         DEF Phase, Goes, Ready, MayWrite, MayStart, MayRead, MayCheck, Counts, Lost, Learned,
             Starts, Writes, Produces, Submits, OfTheJob, Early, Poisoned, Single, Counted,
             Probing, Rows, Same, Nowhere
    <3>3. Goes("poison_dlq", Do("produce_poison"), r6, r7)
      BY Steps, OptionsAssumption
         DEF Phase, Goes, Ready, MayWrite, MayStart, MayRead, MayCheck, Counts, Lost, Learned,
             Starts, Writes, Produces, Submits, OfTheJob, Early, Poisoned, Single, Counted,
             Probing, Rows, Same, Nowhere
    <3>4. Goes("poison_dlq", DoN("await_dlq", 1), r7, r8)
      BY Steps, OptionsAssumption
         DEF Phase, Goes, Ready, MayWrite, MayStart, MayRead, MayCheck, Counts, Lost, Learned,
             Starts, Writes, Produces, Submits, OfTheJob, Early, Poisoned, Single, Counted,
             Probing, Rows, Same, Nowhere
    <3> QED BY <3>1, <3>2, <3>3, <3>4
  <2>3. /\ Goes("poison_dlq", Do("await_checkpoint_after"), r8, r9)
        /\ Goes("poison_dlq", Do("produce_repair"), r9, r9)
        /\ Goes("poison_dlq", DoN("await_rows", Events + 1), r9, p5)
    BY Steps, OptionsAssumption
       DEF Phase, Goes, Ready, MayWrite, MayStart, MayRead, MayCheck, Counts, Lost, Learned,
           Starts, Writes, Produces, Submits, OfTheJob, Early, Poisoned, Single, Counted,
           Probing, Rows, Same, Nowhere
  <2> HIDE DEF r2, r6, r7, r8, r9, p4, p5
  <2>4. Leads("poison_dlq", <<Do("require_checkpoint"), Do("remember_checkpoint"), Do("pause"),
                          Do("flag_paused")>>, p4, r2)
    BY <2>1, Lead4
  <2>5. Leads("poison_dlq", <<Do("await_paused"), Do("insert_row"), Do("produce_poison"),
                          DoN("await_dlq", 1)>>, r2, r8)
    BY <2>2, Lead4
  <2>6. Leads("poison_dlq", <<Do("await_checkpoint_after"), Do("produce_repair"),
                          DoN("await_rows", Events + 1)>>, r8, p5)
    BY <2>3, Lead3
  <2>7. <<Do("require_checkpoint"), Do("remember_checkpoint"), Do("pause"),
          Do("flag_paused"), Do("await_paused"), Do("insert_row"), Do("produce_poison"),
          DoN("await_dlq", 1), Do("await_checkpoint_after"), Do("produce_repair"),
          DoN("await_rows", Events + 1)>>
        = <<Do("require_checkpoint"), Do("remember_checkpoint"), Do("pause"),
            Do("flag_paused")>>
          \o <<Do("await_paused"), Do("insert_row"), Do("produce_poison"), DoN("await_dlq", 1)>>
          \o <<Do("await_checkpoint_after"), Do("produce_repair"),
            DoN("await_rows", Events + 1)>>
    OBVIOUS
  <2>8. Leads("poison_dlq",
          <<Do("require_checkpoint"), Do("remember_checkpoint"), Do("pause"),
            Do("flag_paused")>>
          \o <<Do("await_paused"), Do("insert_row"), Do("produce_poison"), DoN("await_dlq", 1)>>,
          p4, r8)
    BY <2>4, <2>5, LeadJoin
  <2>9. Leads("poison_dlq",
          <<Do("require_checkpoint"), Do("remember_checkpoint"), Do("pause"),
            Do("flag_paused")>>
          \o <<Do("await_paused"), Do("insert_row"), Do("produce_poison"), DoN("await_dlq", 1)>>
          \o <<Do("await_checkpoint_after"), Do("produce_repair"),
            DoN("await_rows", Events + 1)>>,
          p4, p5)
    BY <2>8, <2>6, LeadJoin
  <2> QED BY <2>9, <2>7
<1>6. Leads("poison_dlq", Linkage, p5, p6)
  BY LinkageLeads, OptionsAssumption DEF Phase, Nowhere, Same, Probing
<1>7. Leads("poison_dlq", Reconciled, p6, p7)
  BY ReconciliationLeads, OptionsAssumption DEF Phase, Nowhere, Same, Probing
<1>8. Leads("poison_dlq", <<Do("resume"), Do("flag_resumed"), Do("await_connector"),
                        Do("insert_row"), DoN("await_rows", Events + 2)>>, p7, p8)
<2> DEFINE r4 == Phase(Events + 2, 1, 0, {"idle", "after", "quarantined"})
  <2>1. /\ Goes("poison_dlq", Do("resume"), p7, p7)
        /\ Goes("poison_dlq", Do("flag_resumed"), p7, p7)
        /\ Goes("poison_dlq", Do("await_connector"), p7, p7)
        /\ Goes("poison_dlq", Do("insert_row"), p7, r4)
        /\ Goes("poison_dlq", DoN("await_rows", Events + 2), r4, p8)
    <3>1. Goes("poison_dlq", Do("resume"), p7, p7)
      BY Steps, OptionsAssumption
         DEF Phase, Goes, Ready, MayWrite, MayStart, MayRead, MayCheck, Counts, Lost, Learned,
             Starts, Writes, Produces, Submits, OfTheJob, Early, Poisoned, Single, Counted,
             Probing, Rows, Same, Nowhere
    <3>2. Goes("poison_dlq", Do("flag_resumed"), p7, p7)
      BY Steps, OptionsAssumption
         DEF Phase, Goes, Ready, MayWrite, MayStart, MayRead, MayCheck, Counts, Lost, Learned,
             Starts, Writes, Produces, Submits, OfTheJob, Early, Poisoned, Single, Counted,
             Probing, Rows, Same, Nowhere
    <3>3. Goes("poison_dlq", Do("await_connector"), p7, p7)
      BY Steps, OptionsAssumption
         DEF Phase, Goes, Ready, MayWrite, MayStart, MayRead, MayCheck, Counts, Lost, Learned,
             Starts, Writes, Produces, Submits, OfTheJob, Early, Poisoned, Single, Counted,
             Probing, Rows, Same, Nowhere
    <3>4. Goes("poison_dlq", Do("insert_row"), p7, r4)
      BY Steps, OptionsAssumption
         DEF Phase, Goes, Ready, MayWrite, MayStart, MayRead, MayCheck, Counts, Lost, Learned,
             Starts, Writes, Produces, Submits, OfTheJob, Early, Poisoned, Single, Counted,
             Probing, Rows, Same, Nowhere
    <3>5. Goes("poison_dlq", DoN("await_rows", Events + 2), r4, p8)
      BY Steps, OptionsAssumption
         DEF Phase, Goes, Ready, MayWrite, MayStart, MayRead, MayCheck, Counts, Lost, Learned,
             Starts, Writes, Produces, Submits, OfTheJob, Early, Poisoned, Single, Counted,
             Probing, Rows, Same, Nowhere
    <3> QED BY <3>1, <3>2, <3>3, <3>4, <3>5
  <2> QED BY <2>1, Lead5
<1>9. Leads("poison_dlq", Linkage, p8, p9)
  BY LinkageLeads, OptionsAssumption DEF Phase, Nowhere, Same, Probing
<1>10. Leads("poison_dlq", Conclusion, p9, p10)
  <2>1. MayCheck("poison_dlq", Do("verdict"), p10)
    BY Steps DEF Phase, MayCheck, Early, Rows, Poisoned, Probing
  <2> QED BY <2>1, ConclusionLeads DEF Phase, Same
<1> HIDE DEF p0, p1, p2, p3, p4, p5, p6, p7, p8, p9, p10
<1> DEFINE q2 == Submit("submit") \o Insert
           q3 == q2 \o <<DoN("await_rows", Events)>>
           q4 == q3 \o Linkage
           q5 == q4 \o <<Do("require_checkpoint"), Do("remember_checkpoint"), Do("pause"),
            Do("flag_paused"), Do("await_paused"), Do("insert_row"), Do("produce_poison"),
            DoN("await_dlq", 1), Do("await_checkpoint_after"), Do("produce_repair"),
            DoN("await_rows", Events + 1)>>
           q6 == q5 \o Linkage
           q7 == q6 \o Reconciled
           q8 == q7 \o <<Do("resume"), Do("flag_resumed"), Do("await_connector"), Do("insert_row"),
            DoN("await_rows", Events + 2)>>
           q9 == q8 \o Linkage
           q10 == q9 \o Conclusion
<1>11. Leads("poison_dlq", q2, p0, p2)
  BY <1>1, <1>2, LeadJoin
<1> HIDE DEF q2
<1>12. Leads("poison_dlq", q3, p0, p3)
  BY <1>11, <1>3, LeadJoin
<1> HIDE DEF q3
<1>13. Leads("poison_dlq", q4, p0, p4)
  BY <1>12, <1>4, LeadJoin
<1> HIDE DEF q4
<1>14. Leads("poison_dlq", q5, p0, p5)
  BY <1>13, <1>5, LeadJoin
<1> HIDE DEF q5
<1>15. Leads("poison_dlq", q6, p0, p6)
  BY <1>14, <1>6, LeadJoin
<1> HIDE DEF q6
<1>16. Leads("poison_dlq", q7, p0, p7)
  BY <1>15, <1>7, LeadJoin
<1> HIDE DEF q7
<1>17. Leads("poison_dlq", q8, p0, p8)
  BY <1>16, <1>8, LeadJoin
<1> HIDE DEF q8
<1>18. Leads("poison_dlq", q9, p0, p9)
  BY <1>17, <1>9, LeadJoin
<1> HIDE DEF q9
<1>19. Leads("poison_dlq", q10, p0, p10)
  BY <1>18, <1>10, LeadJoin
<1> HIDE DEF q10
<1> QED BY <1>19 DEF PoisonDlq, q2, q3, q4, q5, q6, q7, q8, q9, q10, p0

\* the replays,
LEMMA ReplayLeads ==
  \E q : Leads("offset_replay", OffsetReplay, Nowhere, q)
<1> DEFINE p0 == Nowhere
           p1 == Phase(0, 1, 0, {})
           p2 == Phase(Events, 1, 0, {"idle"})
           p3 == Phase(Events, 1, 0, {"idle", "full"})
           p4 == Phase(Events, 1, 0, {"idle"})
           p5 == Phase(Events, 2, 0, {"idle", "full"})
           p6 == Phase(Events, 2, 0, {"idle", "full"})
           p7 == Phase(Events, 2, 0, {"idle", "src", "tab"})
           p8 == Phase(Events, 2, 0, {"idle", "src", "tab", "orig"})
           p9 == Phase(Events, 2, 0, {"idle", "gone", "src", "tab", "orig"})
           p10 == Phase(Events, 2, 0, {"idle", "gone", "blank", "src", "tab", "orig"})
           p11 == Phase(Events, 2, 0, {"idle", "src", "tab", "orig"})
           p12 == Phase(Events, 2, 0, {"idle", "full", "src", "tab", "orig"})
           p13 == Phase(Events, 2, 0, {"idle", "full", "src", "tab", "orig"})
           p14 == Phase(Events, 2, 0, {"idle", "src", "tab", "orig"})
           p15 == Phase(Events, 2, 0, {"idle", "gone", "src", "tab", "orig"})
           p16 == Phase(Events, 2, 0, {"idle", "gone", "blank", "src", "tab", "orig"})
           p17 == Phase(Events, 2, 0, {"idle", "src", "tab", "orig"})
           p18 == Phase(Events, 2, 0, {"idle", "full", "src", "tab", "orig"})
           p19 == Phase(Events, 2, 0, {"idle", "full", "src", "tab", "orig"})
           p20 == Phase(Events, 2, 0, {"idle", "full", "src", "tab", "orig", "aud"})
<1>1. Leads("offset_replay", Submit("submit"), p0, p1)
  <2>1. MayStart("offset_replay", Do("submit"), p0)
    BY Steps DEF Phase, Nowhere, MayStart, Submits, Single, Counted
  <2>2. \A f \in p1.facts :
          f \in p0.facts \ OfTheJob \/ f = "running" \/ Learned(Do("submit"), p0, f)
    BY Steps DEF Phase, Nowhere, Learned, Submits, OfTheJob
  <2> QED BY <2>1, <2>2, SubmitLeads DEF Phase, Nowhere, Same, Submits
<1>2. Leads("offset_replay", Insert, p1, p2)
  BY InsertLeads, OptionsAssumption DEF Phase, Nowhere, Same, Probing
<1>3. Leads("offset_replay", <<DoN("await_rows", Events)>>, p2, p3)
  <2>1. Goes("offset_replay", DoN("await_rows", Events), p2, p3)
    BY Steps, OptionsAssumption
       DEF Phase, Goes, Ready, MayWrite, MayStart, MayRead, MayCheck, Counts, Lost, Learned,
           Starts, Writes, Produces, Submits, OfTheJob, Early, Poisoned, Single, Counted,
           Probing, Rows, Same, Nowhere
  <2> QED BY <2>1, Lead1
<1>4. Leads("offset_replay", Linkage, p3, p4)
  BY LinkageLeads, OptionsAssumption DEF Phase, Nowhere, Same, Probing
<1>5. Leads("offset_replay", <<Do("choose_timestamp"), Do("update_sweep"),
                           Do("await_convergence")>>, p4, p5)
<2> DEFINE r2 == Phase(Events, 2, 0, {"idle"})
  <2>1. /\ Goes("offset_replay", Do("choose_timestamp"), p4, p4)
        /\ Goes("offset_replay", Do("update_sweep"), p4, r2)
        /\ Goes("offset_replay", Do("await_convergence"), r2, p5)
    BY Steps, OptionsAssumption
       DEF Phase, Goes, Ready, MayWrite, MayStart, MayRead, MayCheck, Counts, Lost, Learned,
           Starts, Writes, Produces, Submits, OfTheJob, Early, Poisoned, Single, Counted,
           Probing, Rows, Same, Nowhere
  <2> QED BY <2>1, Lead3
<1>6. Leads("offset_replay", Linkage, p5, p6)
  BY LinkageLeads, OptionsAssumption DEF Phase, Nowhere, Same, Probing
<1>7. Leads("offset_replay", Reconciliation, p6, p7)
  BY ReconciliationLeads, OptionsAssumption DEF Phase, Nowhere, Same, Probing
<1>8. Leads("offset_replay", <<Do("remember_original")>>, p7, p8)
  <2>1. Goes("offset_replay", Do("remember_original"), p7, p8)
    BY Steps, OptionsAssumption
       DEF Phase, Goes, Ready, MayWrite, MayStart, MayRead, MayCheck, Counts, Lost, Learned,
           Starts, Writes, Produces, Submits, OfTheJob, Early, Poisoned, Single, Counted,
           Probing, Rows, Same, Nowhere
  <2> QED BY <2>1, Lead1
<1>9. Leads("offset_replay", CancelAndWait, p8, p9)
  BY CancelLeads, OptionsAssumption DEF Phase, Nowhere, Same, Probing
<1>10. Leads("offset_replay", <<Do("reset_tables")>>, p9, p10)
  <2>1. Goes("offset_replay", Do("reset_tables"), p9, p10)
    BY Steps, OptionsAssumption
       DEF Phase, Goes, Ready, MayWrite, MayStart, MayRead, MayCheck, Counts, Lost, Learned,
           Starts, Writes, Produces, Submits, OfTheJob, Early, Poisoned, Single, Counted,
           Probing, Rows, Same, Nowhere
  <2> QED BY <2>1, Lead1
<1>11. Leads("offset_replay", Submit("replay_earliest"), p10, p11)
  <2>1. MayStart("offset_replay", Do("replay_earliest"), p10)
    BY Steps DEF Phase, Nowhere, MayStart, Submits, Single, Counted
  <2>2. \A f \in p11.facts :
          f \in p10.facts \ OfTheJob \/ f = "running" \/ Learned(Do("replay_earliest"), p10, f)
    BY Steps DEF Phase, Nowhere, Learned, Submits, OfTheJob
  <2> QED BY <2>1, <2>2, SubmitLeads DEF Phase, Nowhere, Same, Submits
<1>12. Leads("offset_replay", <<Do("await_convergence")>>, p11, p12)
  <2>1. Goes("offset_replay", Do("await_convergence"), p11, p12)
    BY Steps, OptionsAssumption
       DEF Phase, Goes, Ready, MayWrite, MayStart, MayRead, MayCheck, Counts, Lost, Learned,
           Starts, Writes, Produces, Submits, OfTheJob, Early, Poisoned, Single, Counted,
           Probing, Rows, Same, Nowhere
  <2> QED BY <2>1, Lead1
<1>13. Leads("offset_replay", Linkage, p12, p13)
  BY LinkageLeads, OptionsAssumption DEF Phase, Nowhere, Same, Probing
<1>14. Leads("offset_replay", <<Do("read_table"), Do("check_original")>>, p13, p14)
  <2>1. /\ Goes("offset_replay", Do("read_table"), p13, p14)
        /\ Goes("offset_replay", Do("check_original"), p14, p14)
    BY Steps, OptionsAssumption
       DEF Phase, Goes, Ready, MayWrite, MayStart, MayRead, MayCheck, Counts, Lost, Learned,
           Starts, Writes, Produces, Submits, OfTheJob, Early, Poisoned, Single, Counted,
           Probing, Rows, Same, Nowhere
  <2> QED BY <2>1, Lead2
<1>15. Leads("offset_replay", CancelAndWait, p14, p15)
  BY CancelLeads, OptionsAssumption DEF Phase, Nowhere, Same, Probing
<1>16. Leads("offset_replay", <<Do("reset_tables")>>, p15, p16)
  <2>1. Goes("offset_replay", Do("reset_tables"), p15, p16)
    BY Steps, OptionsAssumption
       DEF Phase, Goes, Ready, MayWrite, MayStart, MayRead, MayCheck, Counts, Lost, Learned,
           Starts, Writes, Produces, Submits, OfTheJob, Early, Poisoned, Single, Counted,
           Probing, Rows, Same, Nowhere
  <2> QED BY <2>1, Lead1
<1>17. Leads("offset_replay", Submit("replay_timestamp"), p16, p17)
  <2>1. MayStart("offset_replay", Do("replay_timestamp"), p16)
    BY Steps DEF Phase, Nowhere, MayStart, Submits, Single, Counted
  <2>2. \A f \in p17.facts :
          f \in p16.facts \ OfTheJob \/ f = "running" \/ Learned(Do("replay_timestamp"), p16, f)
    BY Steps DEF Phase, Nowhere, Learned, Submits, OfTheJob
  <2> QED BY <2>1, <2>2, SubmitLeads DEF Phase, Nowhere, Same, Submits
<1>18. Leads("offset_replay", <<Do("await_convergence")>>, p17, p18)
  <2>1. Goes("offset_replay", Do("await_convergence"), p17, p18)
    BY Steps, OptionsAssumption
       DEF Phase, Goes, Ready, MayWrite, MayStart, MayRead, MayCheck, Counts, Lost, Learned,
           Starts, Writes, Produces, Submits, OfTheJob, Early, Poisoned, Single, Counted,
           Probing, Rows, Same, Nowhere
  <2> QED BY <2>1, Lead1
<1>19. Leads("offset_replay", Linkage, p18, p19)
  BY LinkageLeads, OptionsAssumption DEF Phase, Nowhere, Same, Probing
<1>20. Leads("offset_replay", Conclusion, p19, p20)
  <2>1. MayCheck("offset_replay", Do("verdict"), p20)
    BY Steps DEF Phase, MayCheck, Early, Rows, Poisoned, Probing
  <2> QED BY <2>1, ConclusionLeads DEF Phase, Same
<1> HIDE DEF p0, p1, p2, p3, p4, p5, p6, p7, p8, p9, p10, p11, p12, p13, p14, p15, p16, p17, p18, p19,
            p20
<1> DEFINE q2 == Submit("submit") \o Insert
           q3 == q2 \o <<DoN("await_rows", Events)>>
           q4 == q3 \o Linkage
           q5 == q4 \o <<Do("choose_timestamp"), Do("update_sweep"), Do("await_convergence")>>
           q6 == q5 \o Linkage
           q7 == q6 \o Reconciliation
           q8 == q7 \o <<Do("remember_original")>>
           q9 == q8 \o CancelAndWait
           q10 == q9 \o <<Do("reset_tables")>>
           q11 == q10 \o Submit("replay_earliest")
           q12 == q11 \o <<Do("await_convergence")>>
           q13 == q12 \o Linkage
           q14 == q13 \o <<Do("read_table"), Do("check_original")>>
           q15 == q14 \o CancelAndWait
           q16 == q15 \o <<Do("reset_tables")>>
           q17 == q16 \o Submit("replay_timestamp")
           q18 == q17 \o <<Do("await_convergence")>>
           q19 == q18 \o Linkage
           q20 == q19 \o Conclusion
<1>21. Leads("offset_replay", q2, p0, p2)
  BY <1>1, <1>2, LeadJoin
<1> HIDE DEF q2
<1>22. Leads("offset_replay", q3, p0, p3)
  BY <1>21, <1>3, LeadJoin
<1> HIDE DEF q3
<1>23. Leads("offset_replay", q4, p0, p4)
  BY <1>22, <1>4, LeadJoin
<1> HIDE DEF q4
<1>24. Leads("offset_replay", q5, p0, p5)
  BY <1>23, <1>5, LeadJoin
<1> HIDE DEF q5
<1>25. Leads("offset_replay", q6, p0, p6)
  BY <1>24, <1>6, LeadJoin
<1> HIDE DEF q6
<1>26. Leads("offset_replay", q7, p0, p7)
  BY <1>25, <1>7, LeadJoin
<1> HIDE DEF q7
<1>27. Leads("offset_replay", q8, p0, p8)
  BY <1>26, <1>8, LeadJoin
<1> HIDE DEF q8
<1>28. Leads("offset_replay", q9, p0, p9)
  BY <1>27, <1>9, LeadJoin
<1> HIDE DEF q9
<1>29. Leads("offset_replay", q10, p0, p10)
  BY <1>28, <1>10, LeadJoin
<1> HIDE DEF q10
<1>30. Leads("offset_replay", q11, p0, p11)
  BY <1>29, <1>11, LeadJoin
<1> HIDE DEF q11
<1>31. Leads("offset_replay", q12, p0, p12)
  BY <1>30, <1>12, LeadJoin
<1> HIDE DEF q12
<1>32. Leads("offset_replay", q13, p0, p13)
  BY <1>31, <1>13, LeadJoin
<1> HIDE DEF q13
<1>33. Leads("offset_replay", q14, p0, p14)
  BY <1>32, <1>14, LeadJoin
<1> HIDE DEF q14
<1>34. Leads("offset_replay", q15, p0, p15)
  BY <1>33, <1>15, LeadJoin
<1> HIDE DEF q15
<1>35. Leads("offset_replay", q16, p0, p16)
  BY <1>34, <1>16, LeadJoin
<1> HIDE DEF q16
<1>36. Leads("offset_replay", q17, p0, p17)
  BY <1>35, <1>17, LeadJoin
<1> HIDE DEF q17
<1>37. Leads("offset_replay", q18, p0, p18)
  BY <1>36, <1>18, LeadJoin
<1> HIDE DEF q18
<1>38. Leads("offset_replay", q19, p0, p19)
  BY <1>37, <1>19, LeadJoin
<1> HIDE DEF q19
<1>39. Leads("offset_replay", q20, p0, p20)
  BY <1>38, <1>20, LeadJoin
<1> HIDE DEF q20
<1> QED BY <1>39 DEF OffsetReplay, q2, q3, q4, q5, q6, q7, q8, q9, q10, q11, q12, q13,
        q14, q15, q16, q17, q18, q19, q20, p0

\* The measurement of the restart,
LEMMA RestartMeasuredLeads ==
  Leads("broker_slo", RestartMeasured,
        Phase(0, 1, 0, {"clean"}),
        Phase(Events, 1, 0, {"idle", "clean", "full", "src", "tab"}))
<1> DEFINE p0 == Phase(0, 1, 0, {"clean"})
           p1 == Phase(Events, 1, 0, {"idle", "clean", "full"})
           p2 == Phase(Events, 1, 0, {"idle", "clean", "full"})
           p3 == Phase(Events, 1, 0, {"idle", "clean", "full", "src", "tab"})
<1>1. Leads("broker_slo", <<DoN("start_gated_producer", Events), Do("await_gate"),
                        Do("await_records"), Do("kill_kafka"), Do("release_gate"),
                        Do("start_kafka"), Do("join_producer"), Do("recover_delivery"),
                        DoN("await_rows", Events)>>, p0, p1)
<2> DEFINE r1 == Phase(Events, 1, 0, {"clean"})
           r7 == Phase(Events, 1, 0, {"idle", "clean"})
  <2>1. /\ Goes("broker_slo", DoN("start_gated_producer", Events), p0, r1)
        /\ Goes("broker_slo", Do("await_gate"), r1, r1)
        /\ Goes("broker_slo", Do("await_records"), r1, r1)
        /\ Goes("broker_slo", Do("kill_kafka"), r1, r1)
        /\ Goes("broker_slo", Do("release_gate"), r1, r1)
    BY Steps, OptionsAssumption
       DEF Phase, Goes, Ready, MayWrite, MayStart, MayRead, MayCheck, Counts, Lost, Learned,
           Starts, Writes, Produces, Submits, OfTheJob, Early, Poisoned, Single, Counted,
           Probing, Rows, Same, Nowhere
  <2>2. /\ Goes("broker_slo", Do("start_kafka"), r1, r1)
        /\ Goes("broker_slo", Do("join_producer"), r1, r7)
        /\ Goes("broker_slo", Do("recover_delivery"), r7, r7)
        /\ Goes("broker_slo", DoN("await_rows", Events), r7, p1)
    BY Steps, OptionsAssumption
       DEF Phase, Goes, Ready, MayWrite, MayStart, MayRead, MayCheck, Counts, Lost, Learned,
           Starts, Writes, Produces, Submits, OfTheJob, Early, Poisoned, Single, Counted,
           Probing, Rows, Same, Nowhere
  <2> HIDE DEF r1, r7, p0, p1
  <2>3. Leads("broker_slo", <<DoN("start_gated_producer", Events), Do("await_gate"),
                          Do("await_records"), Do("kill_kafka"), Do("release_gate")>>, p0, r1)
    BY <2>1, Lead5
  <2>4. Leads("broker_slo", <<Do("start_kafka"), Do("join_producer"), Do("recover_delivery"),
                          DoN("await_rows", Events)>>, r1, p1)
    BY <2>2, Lead4
  <2>5. <<DoN("start_gated_producer", Events), Do("await_gate"), Do("await_records"),
          Do("kill_kafka"), Do("release_gate"), Do("start_kafka"), Do("join_producer"),
          Do("recover_delivery"), DoN("await_rows", Events)>>
        = <<DoN("start_gated_producer", Events), Do("await_gate"), Do("await_records"),
            Do("kill_kafka"), Do("release_gate")>>
          \o <<Do("start_kafka"), Do("join_producer"), Do("recover_delivery"),
            DoN("await_rows", Events)>>
    OBVIOUS
  <2>6. Leads("broker_slo",
          <<DoN("start_gated_producer", Events), Do("await_gate"), Do("await_records"),
            Do("kill_kafka"), Do("release_gate")>>
          \o <<Do("start_kafka"), Do("join_producer"), Do("recover_delivery"),
            DoN("await_rows", Events)>>,
          p0, p1)
    BY <2>3, <2>4, LeadJoin
  <2> QED BY <2>6, <2>5
<1>2. Leads("broker_slo", Linkage, p1, p2)
  BY LinkageLeads, OptionsAssumption DEF Phase, Nowhere, Same, Probing
<1>3. Leads("broker_slo", Reconciled, p2, p3)
  BY ReconciliationLeads, OptionsAssumption DEF Phase, Nowhere, Same, Probing
<1> HIDE DEF p0, p1, p2, p3
<1> DEFINE q2 == <<DoN("start_gated_producer", Events), Do("await_gate"), Do("await_records"),
            Do("kill_kafka"), Do("release_gate"), Do("start_kafka"), Do("join_producer"),
            Do("recover_delivery"), DoN("await_rows", Events)>> \o Linkage
           q3 == q2 \o Reconciled
<1>4. Leads("broker_slo", q2, p0, p2)
  BY <1>1, <1>2, LeadJoin
<1> HIDE DEF q2
<1>5. Leads("broker_slo", q3, p0, p3)
  BY <1>4, <1>3, LeadJoin
<1> HIDE DEF q3
<1> QED BY <1>5 DEF RestartMeasured, q2, q3, p0, p3

\* that of the second delivery,
LEMMA DuplicateMeasuredLeads ==
  Leads("broker_slo", DuplicateMeasured,
        Phase(Events, 1, 0, {"idle", "clean", "full", "src", "tab"}),
        Phase(Events, 1, 0, {"idle", "clean", "full", "src", "tab"}))
<1> DEFINE p0 == Phase(Events, 1, 0, {"idle", "clean", "full", "src", "tab"})
           p1 == Phase(Events, 1, 0, {"idle", "clean", "full", "src", "tab"})
           p2 == Phase(Events, 1, 0, {"idle", "gone", "clean", "full", "src", "tab"})
           p3 == Phase(Events, 1, 0, {"idle", "clean", "full", "src", "tab"})
           p4 == Phase(Events, 1, 0, {"idle", "clean", "full", "src", "tab"})
           p5 == Phase(Events, 1, 0, {"idle", "clean", "full", "src", "tab"})
           p6 == Phase(Events, 1, 0, {"idle", "clean", "full", "src", "tab"})
<1>1. Leads("broker_slo", <<Do("disown"), Do("count_changelog"), Do("count_repeats"),
                        Do("count_topic")>>, p0, p1)
  <2>1. /\ Goes("broker_slo", Do("disown"), p0, p0)
        /\ Goes("broker_slo", Do("count_changelog"), p0, p0)
        /\ Goes("broker_slo", Do("count_repeats"), p0, p0)
        /\ Goes("broker_slo", Do("count_topic"), p0, p1)
    BY Steps, OptionsAssumption
       DEF Phase, Goes, Ready, MayWrite, MayStart, MayRead, MayCheck, Counts, Lost, Learned,
           Starts, Writes, Produces, Submits, OfTheJob, Early, Poisoned, Single, Counted,
           Probing, Rows, Same, Nowhere
  <2> QED BY <2>1, Lead4
<1>2. Leads("broker_slo", CancelAndWait, p1, p2)
  BY CancelLeads, OptionsAssumption DEF Phase, Nowhere, Same, Probing
<1>3. Leads("broker_slo", <<Do("rewind_group"), Do("submit_committed"), Do("await_job"),
                        Do("await_replayed")>>, p2, p3)
  <2>1. /\ Goes("broker_slo", Do("rewind_group"), p2, p2)
        /\ Goes("broker_slo", Do("submit_committed"), p2, p3)
        /\ Goes("broker_slo", Do("await_job"), p3, p3)
        /\ Goes("broker_slo", Do("await_replayed"), p3, p3)
    BY Steps, OptionsAssumption
       DEF Phase, Goes, Ready, MayWrite, MayStart, MayRead, MayCheck, Counts, Lost, Learned,
           Starts, Writes, Produces, Submits, OfTheJob, Early, Poisoned, Single, Counted,
           Probing, Rows, Same, Nowhere
  <2> QED BY <2>1, Lead4
<1>4. Leads("broker_slo", Linkage, p3, p4)
  BY LinkageLeads, OptionsAssumption DEF Phase, Nowhere, Same, Probing
<1>5. Leads("broker_slo", Reconciliation, p4, p5)
  BY ReconciliationLeads, OptionsAssumption DEF Phase, Nowhere, Same, Probing
<1>6. Leads("broker_slo", <<Do("check_replayed"), Do("own")>>, p5, p6)
  <2>1. /\ Goes("broker_slo", Do("check_replayed"), p5, p5)
        /\ Goes("broker_slo", Do("own"), p5, p6)
    BY Steps, OptionsAssumption
       DEF Phase, Goes, Ready, MayWrite, MayStart, MayRead, MayCheck, Counts, Lost, Learned,
           Starts, Writes, Produces, Submits, OfTheJob, Early, Poisoned, Single, Counted,
           Probing, Rows, Same, Nowhere
  <2> QED BY <2>1, Lead2
<1> HIDE DEF p0, p1, p2, p3, p4, p5, p6
<1> DEFINE q2 == <<Do("disown"), Do("count_changelog"), Do("count_repeats"), Do("count_topic")>> \o CancelAndWait
           q3 == q2 \o <<Do("rewind_group"), Do("submit_committed"), Do("await_job"),
            Do("await_replayed")>>
           q4 == q3 \o Linkage
           q5 == q4 \o Reconciliation
           q6 == q5 \o <<Do("check_replayed"), Do("own")>>
<1>7. Leads("broker_slo", q2, p0, p2)
  BY <1>1, <1>2, LeadJoin
<1> HIDE DEF q2
<1>8. Leads("broker_slo", q3, p0, p3)
  BY <1>7, <1>3, LeadJoin
<1> HIDE DEF q3
<1>9. Leads("broker_slo", q4, p0, p4)
  BY <1>8, <1>4, LeadJoin
<1> HIDE DEF q4
<1>10. Leads("broker_slo", q5, p0, p5)
  BY <1>9, <1>5, LeadJoin
<1> HIDE DEF q5
<1>11. Leads("broker_slo", q6, p0, p6)
  BY <1>10, <1>6, LeadJoin
<1> HIDE DEF q6
<1> QED BY <1>11 DEF DuplicateMeasured, q2, q3, q4, q5, q6, p0, p6

\* that of the probe,
LEMMA MiskeyMeasuredLeads ==
  Leads("broker_slo", MiskeyMeasured,
        Phase(Events, 1, 0, {"idle", "clean", "full", "src", "tab"}),
        Phase(Events, 1, 3, {"idle", "clean"}))
<1> DEFINE p0 == Phase(Events, 1, 0, {"idle", "clean", "full", "src", "tab"})
           p1 == Phase(Events, 1, 0, {"idle", "clean", "full", "src", "tab"})
           p2 == Phase(Events, 1, 3, {"idle", "clean", "full", "src", "tab"})
           p3 == Phase(Events, 1, 3, {"idle", "clean", "full", "src", "tab"})
           p4 == Phase(Events, 1, 3, {"idle", "clean"})
           p5 == Phase(Events, 1, 3, {"idle", "clean"})
<1>1. Leads("broker_slo", <<Do("check_unprobed")>>, p0, p1)
  <2>1. Goes("broker_slo", Do("check_unprobed"), p0, p1)
    BY Steps, OptionsAssumption
       DEF Phase, Goes, Ready, MayWrite, MayStart, MayRead, MayCheck, Counts, Lost, Learned,
           Starts, Writes, Produces, Submits, OfTheJob, Early, Poisoned, Single, Counted,
           Probing, Rows, Same, Nowhere
  <2> QED BY <2>1, Lead1
<1>2. Leads("broker_slo", Miskeyed, p1, p2)
  BY MiskeyedLeads, OptionsAssumption DEF Phase, Nowhere, Same, Probing
<1>3. Leads("broker_slo", <<DoN("await_probe", 3)>>, p2, p3)
  <2>1. Goes("broker_slo", DoN("await_probe", 3), p2, p3)
    BY Steps, OptionsAssumption
       DEF Phase, Goes, Ready, MayWrite, MayStart, MayRead, MayCheck, Counts, Lost, Learned,
           Starts, Writes, Produces, Submits, OfTheJob, Early, Poisoned, Single, Counted,
           Probing, Rows, Same, Nowhere
  <2> QED BY <2>1, Lead1
<1>4. Leads("broker_slo", Reconciled, p3, p4)
  BY ReconciliationLeads, OptionsAssumption DEF Phase, Nowhere, Same, Probing
<1>5. Leads("broker_slo", <<Do("check_probe")>>, p4, p5)
  <2>1. Goes("broker_slo", Do("check_probe"), p4, p5)
    BY Steps, OptionsAssumption
       DEF Phase, Goes, Ready, MayWrite, MayStart, MayRead, MayCheck, Counts, Lost, Learned,
           Starts, Writes, Produces, Submits, OfTheJob, Early, Poisoned, Single, Counted,
           Probing, Rows, Same, Nowhere
  <2> QED BY <2>1, Lead1
<1> HIDE DEF p0, p1, p2, p3, p4, p5
<1> DEFINE q2 == <<Do("check_unprobed")>> \o Miskeyed
           q3 == q2 \o <<DoN("await_probe", 3)>>
           q4 == q3 \o Reconciled
           q5 == q4 \o <<Do("check_probe")>>
<1>6. Leads("broker_slo", q2, p0, p2)
  BY <1>1, <1>2, LeadJoin
<1> HIDE DEF q2
<1>7. Leads("broker_slo", q3, p0, p3)
  BY <1>6, <1>3, LeadJoin
<1> HIDE DEF q3
<1>8. Leads("broker_slo", q4, p0, p4)
  BY <1>7, <1>4, LeadJoin
<1> HIDE DEF q4
<1>9. Leads("broker_slo", q5, p0, p5)
  BY <1>8, <1>5, LeadJoin
<1> HIDE DEF q5
<1> QED BY <1>9 DEF MiskeyMeasured, q2, q3, q4, q5, p0, p5

\* that of the poison record,
LEMMA PoisonMeasuredLeads ==
  Leads("broker_slo", PoisonMeasured,
        Phase(Events, 1, 3, {"idle", "clean"}),
        Phase(Events + 2, 1, 3, {"idle", "full", "src", "tab", "aud"}))
<1> DEFINE p0 == Phase(Events, 1, 3, {"idle", "clean"})
           p1 == Phase(Events + 1, 1, 3, {"idle", "full"})
           p2 == Phase(Events + 1, 1, 3, {"idle", "src", "tab"})
           p3 == Phase(Events + 2, 1, 3, {"idle", "full", "aud"})
           p4 == Phase(Events + 2, 1, 3, {"idle", "full", "aud"})
           p5 == Phase(Events + 2, 1, 3, {"idle", "full", "src", "tab", "aud"})
           p6 == Phase(Events + 2, 1, 3, {"idle", "full", "src", "tab", "aud"})
<1>1. Leads("broker_slo", <<Do("flag_paused"), Do("pause"), Do("await_paused"),
                        Do("insert_row"), Do("produce_poison"), DoN("await_dlq", 1),
                        Do("produce_repair"), DoN("await_rows", Events + 1)>>, p0, p1)
<2> DEFINE r4 == Phase(Events + 1, 1, 3, {"idle", "clean"})
           r5 == Phase(Events + 1, 1, 3, {"idle"})
  <2>1. /\ Goes("broker_slo", Do("flag_paused"), p0, p0)
        /\ Goes("broker_slo", Do("pause"), p0, p0)
        /\ Goes("broker_slo", Do("await_paused"), p0, p0)
        /\ Goes("broker_slo", Do("insert_row"), p0, r4)
    <3>1. Goes("broker_slo", Do("flag_paused"), p0, p0)
      BY Steps, OptionsAssumption
         DEF Phase, Goes, Ready, MayWrite, MayStart, MayRead, MayCheck, Counts, Lost, Learned,
             Starts, Writes, Produces, Submits, OfTheJob, Early, Poisoned, Single, Counted,
             Probing, Rows, Same, Nowhere
    <3>2. Goes("broker_slo", Do("pause"), p0, p0)
      BY Steps, OptionsAssumption
         DEF Phase, Goes, Ready, MayWrite, MayStart, MayRead, MayCheck, Counts, Lost, Learned,
             Starts, Writes, Produces, Submits, OfTheJob, Early, Poisoned, Single, Counted,
             Probing, Rows, Same, Nowhere
    <3>3. Goes("broker_slo", Do("await_paused"), p0, p0)
      BY Steps, OptionsAssumption
         DEF Phase, Goes, Ready, MayWrite, MayStart, MayRead, MayCheck, Counts, Lost, Learned,
             Starts, Writes, Produces, Submits, OfTheJob, Early, Poisoned, Single, Counted,
             Probing, Rows, Same, Nowhere
    <3>4. Goes("broker_slo", Do("insert_row"), p0, r4)
      BY Steps, OptionsAssumption
         DEF Phase, Goes, Ready, MayWrite, MayStart, MayRead, MayCheck, Counts, Lost, Learned,
             Starts, Writes, Produces, Submits, OfTheJob, Early, Poisoned, Single, Counted,
             Probing, Rows, Same, Nowhere
    <3> QED BY <3>1, <3>2, <3>3, <3>4
  <2>2. /\ Goes("broker_slo", Do("produce_poison"), r4, r5)
        /\ Goes("broker_slo", DoN("await_dlq", 1), r5, r5)
        /\ Goes("broker_slo", Do("produce_repair"), r5, r5)
        /\ Goes("broker_slo", DoN("await_rows", Events + 1), r5, p1)
    BY Steps, OptionsAssumption
       DEF Phase, Goes, Ready, MayWrite, MayStart, MayRead, MayCheck, Counts, Lost, Learned,
           Starts, Writes, Produces, Submits, OfTheJob, Early, Poisoned, Single, Counted,
           Probing, Rows, Same, Nowhere
  <2> HIDE DEF r4, r5, p0, p1
  <2>3. Leads("broker_slo", <<Do("flag_paused"), Do("pause"), Do("await_paused"),
                          Do("insert_row")>>, p0, r4)
    BY <2>1, Lead4
  <2>4. Leads("broker_slo", <<Do("produce_poison"), DoN("await_dlq", 1), Do("produce_repair"),
                          DoN("await_rows", Events + 1)>>, r4, p1)
    BY <2>2, Lead4
  <2>5. <<Do("flag_paused"), Do("pause"), Do("await_paused"), Do("insert_row"),
          Do("produce_poison"), DoN("await_dlq", 1), Do("produce_repair"),
          DoN("await_rows", Events + 1)>>
        = <<Do("flag_paused"), Do("pause"), Do("await_paused"), Do("insert_row")>>
          \o <<Do("produce_poison"), DoN("await_dlq", 1), Do("produce_repair"),
            DoN("await_rows", Events + 1)>>
    OBVIOUS
  <2>6. Leads("broker_slo",
          <<Do("flag_paused"), Do("pause"), Do("await_paused"), Do("insert_row")>>
          \o <<Do("produce_poison"), DoN("await_dlq", 1), Do("produce_repair"),
            DoN("await_rows", Events + 1)>>,
          p0, p1)
    BY <2>3, <2>4, LeadJoin
  <2> QED BY <2>6, <2>5
<1>2. Leads("broker_slo", Reconciliation, p1, p2)
  BY ReconciliationLeads, OptionsAssumption DEF Phase, Nowhere, Same, Probing
<1>3. Leads("broker_slo", <<Do("keep"), Do("resume"), Do("await_connector"), Do("insert_row"),
                        DoN("await_rows", Events + 2)>>, p2, p3)
<2> DEFINE r1 == Phase(Events + 1, 1, 3, {"idle", "aud"})
           r4 == Phase(Events + 2, 1, 3, {"idle", "aud"})
  <2>1. /\ Goes("broker_slo", Do("keep"), p2, r1)
        /\ Goes("broker_slo", Do("resume"), r1, r1)
        /\ Goes("broker_slo", Do("await_connector"), r1, r1)
        /\ Goes("broker_slo", Do("insert_row"), r1, r4)
        /\ Goes("broker_slo", DoN("await_rows", Events + 2), r4, p3)
    <3>1. Goes("broker_slo", Do("keep"), p2, r1)
      BY Steps, OptionsAssumption
         DEF Phase, Goes, Ready, MayWrite, MayStart, MayRead, MayCheck, Counts, Lost, Learned,
             Starts, Writes, Produces, Submits, OfTheJob, Early, Poisoned, Single, Counted,
             Probing, Rows, Same, Nowhere
    <3>2. Goes("broker_slo", Do("resume"), r1, r1)
      BY Steps, OptionsAssumption
         DEF Phase, Goes, Ready, MayWrite, MayStart, MayRead, MayCheck, Counts, Lost, Learned,
             Starts, Writes, Produces, Submits, OfTheJob, Early, Poisoned, Single, Counted,
             Probing, Rows, Same, Nowhere
    <3>3. Goes("broker_slo", Do("await_connector"), r1, r1)
      BY Steps, OptionsAssumption
         DEF Phase, Goes, Ready, MayWrite, MayStart, MayRead, MayCheck, Counts, Lost, Learned,
             Starts, Writes, Produces, Submits, OfTheJob, Early, Poisoned, Single, Counted,
             Probing, Rows, Same, Nowhere
    <3>4. Goes("broker_slo", Do("insert_row"), r1, r4)
      BY Steps, OptionsAssumption
         DEF Phase, Goes, Ready, MayWrite, MayStart, MayRead, MayCheck, Counts, Lost, Learned,
             Starts, Writes, Produces, Submits, OfTheJob, Early, Poisoned, Single, Counted,
             Probing, Rows, Same, Nowhere
    <3>5. Goes("broker_slo", DoN("await_rows", Events + 2), r4, p3)
      BY Steps, OptionsAssumption
         DEF Phase, Goes, Ready, MayWrite, MayStart, MayRead, MayCheck, Counts, Lost, Learned,
             Starts, Writes, Produces, Submits, OfTheJob, Early, Poisoned, Single, Counted,
             Probing, Rows, Same, Nowhere
    <3> QED BY <3>1, <3>2, <3>3, <3>4, <3>5
  <2> QED BY <2>1, Lead5
<1>4. Leads("broker_slo", Linkage, p3, p4)
  BY LinkageLeads, OptionsAssumption DEF Phase, Nowhere, Same, Probing
<1>5. Leads("broker_slo", Reconciled, p4, p5)
  BY ReconciliationLeads, OptionsAssumption DEF Phase, Nowhere, Same, Probing
<1>6. Leads("broker_slo", <<Do("check_kept"), Do("flag_resumed")>>, p5, p6)
  <2>1. /\ Goes("broker_slo", Do("check_kept"), p5, p5)
        /\ Goes("broker_slo", Do("flag_resumed"), p5, p6)
    BY Steps, OptionsAssumption
       DEF Phase, Goes, Ready, MayWrite, MayStart, MayRead, MayCheck, Counts, Lost, Learned,
           Starts, Writes, Produces, Submits, OfTheJob, Early, Poisoned, Single, Counted,
           Probing, Rows, Same, Nowhere
  <2> QED BY <2>1, Lead2
<1> HIDE DEF p0, p1, p2, p3, p4, p5, p6
<1> DEFINE q2 == <<Do("flag_paused"), Do("pause"), Do("await_paused"), Do("insert_row"),
            Do("produce_poison"), DoN("await_dlq", 1), Do("produce_repair"),
            DoN("await_rows", Events + 1)>> \o Reconciliation
           q3 == q2 \o <<Do("keep"), Do("resume"), Do("await_connector"), Do("insert_row"),
            DoN("await_rows", Events + 2)>>
           q4 == q3 \o Linkage
           q5 == q4 \o Reconciled
           q6 == q5 \o <<Do("check_kept"), Do("flag_resumed")>>
<1>7. Leads("broker_slo", q2, p0, p2)
  BY <1>1, <1>2, LeadJoin
<1> HIDE DEF q2
<1>8. Leads("broker_slo", q3, p0, p3)
  BY <1>7, <1>3, LeadJoin
<1> HIDE DEF q3
<1>9. Leads("broker_slo", q4, p0, p4)
  BY <1>8, <1>4, LeadJoin
<1> HIDE DEF q4
<1>10. Leads("broker_slo", q5, p0, p5)
  BY <1>9, <1>5, LeadJoin
<1> HIDE DEF q5
<1>11. Leads("broker_slo", q6, p0, p6)
  BY <1>10, <1>6, LeadJoin
<1> HIDE DEF q6
<1> QED BY <1>11 DEF PoisonMeasured, q2, q3, q4, q5, q6, p0, p6

\* and that of the replay.
LEMMA ReplayMeasuredLeads ==
  Leads("broker_slo", ReplayMeasured,
        Phase(Events + 2, 1, 3, {"idle", "full", "src", "tab", "aud"}),
        Phase(Events + 2, 1, 3, {"idle", "full", "src", "tab", "aud"}))
<1> DEFINE p0 == Phase(Events + 2, 1, 3, {"idle", "full", "src", "tab", "aud"})
           p1 == Phase(Events + 2, 1, 3, {"idle", "full", "src", "tab", "aud"})
           p2 == Phase(Events + 2, 1, 3, {"idle", "src", "tab", "aud"})
           p3 == Phase(Events + 2, 1, 3, {"idle", "src", "tab", "orig", "aud"})
           p4 == Phase(Events + 2, 1, 3, {"idle", "gone", "src", "tab", "orig", "aud"})
           p5 == Phase(Events + 2, 1, 3, {"idle", "full", "src", "tab", "orig", "aud"})
           p6 == Phase(Events + 2, 1, 3, {"idle", "full", "src", "tab", "orig", "aud"})
           p7 == Phase(Events + 2, 1, 3, {"idle", "full", "src", "tab", "orig", "aud"})
           p8 == Phase(Events + 2, 1, 3, {"idle", "full", "src", "tab", "aud"})
<1>1. Leads("broker_slo", <<Do("disown")>>, p0, p1)
  <2>1. Goes("broker_slo", Do("disown"), p0, p1)
    BY Steps, OptionsAssumption
       DEF Phase, Goes, Ready, MayWrite, MayStart, MayRead, MayCheck, Counts, Lost, Learned,
           Starts, Writes, Produces, Submits, OfTheJob, Early, Poisoned, Single, Counted,
           Probing, Rows, Same, Nowhere
  <2> QED BY <2>1, Lead1
<1>2. Leads("broker_slo", Reconciliation, p1, p2)
  BY ReconciliationLeads, OptionsAssumption DEF Phase, Nowhere, Same, Probing
<1>3. Leads("broker_slo", <<Do("remember_original")>>, p2, p3)
  <2>1. Goes("broker_slo", Do("remember_original"), p2, p3)
    BY Steps, OptionsAssumption
       DEF Phase, Goes, Ready, MayWrite, MayStart, MayRead, MayCheck, Counts, Lost, Learned,
           Starts, Writes, Produces, Submits, OfTheJob, Early, Poisoned, Single, Counted,
           Probing, Rows, Same, Nowhere
  <2> QED BY <2>1, Lead1
<1>4. Leads("broker_slo", CancelAndWait, p3, p4)
  BY CancelLeads, OptionsAssumption DEF Phase, Nowhere, Same, Probing
<1>5. Leads("broker_slo", <<Do("reset_tables"), Do("replay_earliest"), Do("await_job"),
                        DoN("await_rows", Events + 2)>>, p4, p5)
<2> DEFINE r2 == Phase(Events + 2, 1, 3, {"idle", "src", "tab", "orig", "aud"})
  <2>1. /\ Goes("broker_slo", Do("reset_tables"), p4, p4)
        /\ Goes("broker_slo", Do("replay_earliest"), p4, r2)
        /\ Goes("broker_slo", Do("await_job"), r2, r2)
        /\ Goes("broker_slo", DoN("await_rows", Events + 2), r2, p5)
    BY Steps, OptionsAssumption
       DEF Phase, Goes, Ready, MayWrite, MayStart, MayRead, MayCheck, Counts, Lost, Learned,
           Starts, Writes, Produces, Submits, OfTheJob, Early, Poisoned, Single, Counted,
           Probing, Rows, Same, Nowhere
  <2> QED BY <2>1, Lead4
<1>6. Leads("broker_slo", Linkage, p5, p6)
  BY LinkageLeads, OptionsAssumption DEF Phase, Nowhere, Same, Probing
<1>7. Leads("broker_slo", Reconciled, p6, p7)
  BY ReconciliationLeads, OptionsAssumption DEF Phase, Nowhere, Same, Probing
<1>8. Leads("broker_slo", <<Do("check_original"), Do("own")>>, p7, p8)
  <2>1. /\ Goes("broker_slo", Do("check_original"), p7, p8)
        /\ Goes("broker_slo", Do("own"), p8, p8)
    BY Steps, OptionsAssumption
       DEF Phase, Goes, Ready, MayWrite, MayStart, MayRead, MayCheck, Counts, Lost, Learned,
           Starts, Writes, Produces, Submits, OfTheJob, Early, Poisoned, Single, Counted,
           Probing, Rows, Same, Nowhere
  <2> QED BY <2>1, Lead2
<1> HIDE DEF p0, p1, p2, p3, p4, p5, p6, p7, p8
<1> DEFINE q2 == <<Do("disown")>> \o Reconciliation
           q3 == q2 \o <<Do("remember_original")>>
           q4 == q3 \o CancelAndWait
           q5 == q4 \o <<Do("reset_tables"), Do("replay_earliest"), Do("await_job"),
            DoN("await_rows", Events + 2)>>
           q6 == q5 \o Linkage
           q7 == q6 \o Reconciled
           q8 == q7 \o <<Do("check_original"), Do("own")>>
<1>9. Leads("broker_slo", q2, p0, p2)
  BY <1>1, <1>2, LeadJoin
<1> HIDE DEF q2
<1>10. Leads("broker_slo", q3, p0, p3)
  BY <1>9, <1>3, LeadJoin
<1> HIDE DEF q3
<1>11. Leads("broker_slo", q4, p0, p4)
  BY <1>10, <1>4, LeadJoin
<1> HIDE DEF q4
<1>12. Leads("broker_slo", q5, p0, p5)
  BY <1>11, <1>5, LeadJoin
<1> HIDE DEF q5
<1>13. Leads("broker_slo", q6, p0, p6)
  BY <1>12, <1>6, LeadJoin
<1> HIDE DEF q6
<1>14. Leads("broker_slo", q7, p0, p7)
  BY <1>13, <1>7, LeadJoin
<1> HIDE DEF q7
<1>15. Leads("broker_slo", q8, p0, p8)
  BY <1>14, <1>8, LeadJoin
<1> HIDE DEF q8
<1> QED BY <1>15 DEF ReplayMeasured, q2, q3, q4, q5, q6, q7, q8, p0, p8

\* The SLO run.
LEMMA SloLeads ==
  \E q : Leads("broker_slo", BrokerSlo, Nowhere, q)
<1> DEFINE p0 == Nowhere
           p1 == Phase(0, 1, 0, {"clean"})
           p2 == Phase(Events, 1, 0, {"idle", "clean", "full", "src", "tab"})
           p3 == Phase(Events, 1, 0, {"idle", "clean", "full", "src", "tab"})
           p4 == Phase(Events, 1, 3, {"idle", "clean"})
           p5 == Phase(Events + 2, 1, 3, {"idle", "full", "src", "tab", "aud"})
           p6 == Phase(Events + 2, 1, 3, {"idle", "full", "src", "tab", "aud"})
           p7 == Phase(Events + 2, 1, 3, {"idle", "full", "src", "tab", "aud"})
           p8 == Phase(Events + 2, 1, 3, {"idle", "full", "src", "tab", "aud"})
<1>1. Leads("broker_slo", Submit("submit"), p0, p1)
  <2>1. MayStart("broker_slo", Do("submit"), p0)
    BY Steps DEF Phase, Nowhere, MayStart, Submits, Single, Counted
  <2>2. \A f \in p1.facts :
          f \in p0.facts \ OfTheJob \/ f = "running" \/ Learned(Do("submit"), p0, f)
    BY Steps DEF Phase, Nowhere, Learned, Submits, OfTheJob
  <2> QED BY <2>1, <2>2, SubmitLeads DEF Phase, Nowhere, Same, Submits
<1>2. Leads("broker_slo", RestartMeasured, p1, p2)
  BY RestartMeasuredLeads
<1>3. Leads("broker_slo", DuplicateMeasured, p2, p3)
  BY DuplicateMeasuredLeads
<1>4. Leads("broker_slo", MiskeyMeasured, p3, p4)
  BY MiskeyMeasuredLeads
<1>5. Leads("broker_slo", PoisonMeasured, p4, p5)
  BY PoisonMeasuredLeads
<1>6. Leads("broker_slo", ReplayMeasured, p5, p6)
  BY ReplayMeasuredLeads
<1>7. Leads("broker_slo", Reconciliation, p6, p7)
  BY ReconciliationLeads, OptionsAssumption DEF Phase, Nowhere, Same, Probing
<1>8. Leads("broker_slo", <<Do("verdict")>>, p7, p8)
  <2>1. Goes("broker_slo", Do("verdict"), p7, p8)
    BY Steps, OptionsAssumption
       DEF Phase, Goes, Ready, MayWrite, MayStart, MayRead, MayCheck, Counts, Lost, Learned,
           Starts, Writes, Produces, Submits, OfTheJob, Early, Poisoned, Single, Counted,
           Probing, Rows, Same, Nowhere
  <2> QED BY <2>1, Lead1
<1> HIDE DEF p0, p1, p2, p3, p4, p5, p6, p7, p8
<1> DEFINE q2 == Submit("submit") \o RestartMeasured
           q3 == q2 \o DuplicateMeasured
           q4 == q3 \o MiskeyMeasured
           q5 == q4 \o PoisonMeasured
           q6 == q5 \o ReplayMeasured
           q7 == q6 \o Reconciliation
           q8 == q7 \o <<Do("verdict")>>
<1>9. Leads("broker_slo", q2, p0, p2)
  BY <1>1, <1>2, LeadJoin
<1> HIDE DEF q2
<1>10. Leads("broker_slo", q3, p0, p3)
  BY <1>9, <1>3, LeadJoin
<1> HIDE DEF q3
<1>11. Leads("broker_slo", q4, p0, p4)
  BY <1>10, <1>4, LeadJoin
<1> HIDE DEF q4
<1>12. Leads("broker_slo", q5, p0, p5)
  BY <1>11, <1>5, LeadJoin
<1> HIDE DEF q5
<1>13. Leads("broker_slo", q6, p0, p6)
  BY <1>12, <1>6, LeadJoin
<1> HIDE DEF q6
<1>14. Leads("broker_slo", q7, p0, p7)
  BY <1>13, <1>7, LeadJoin
<1> HIDE DEF q7
<1>15. Leads("broker_slo", q8, p0, p8)
  BY <1>14, <1>8, LeadJoin
<1> HIDE DEF q8
<1> QED BY <1>15 DEF BrokerSlo, q2, q3, q4, q5, q6, q7, q8, p0

-----------------------------------------------------------------------------
(* The phase a drill is in, and what a step does to the pipeline. *)

Plan(d) == CHOOSE f : f[1] = Nowhere /\ Through(d, Script[d], f)
P == Plan(drill)[pc]
F == P.facts

\* Every script has a plan.
LEMMA Planned == \A d \in Drills : Plan(d)[1] = Nowhere /\ Through(d, Script[d], Plan(d))
<1>1. ASSUME NEW d, NEW s, \E q : Leads(d, s, Nowhere, q)
      PROVE  \E f : f[1] = Nowhere /\ Through(d, s, f)
  BY <1>1 DEF Leads
<1>2. ASSUME NEW d \in DOMAIN Script PROVE \E q : Leads(d, Script[d], Nowhere, q)
  BY ParityLeads, SchemaLeads, RestartLeads, DuplicateLeads, OrderingLeads, PoisonLeads,
     ReplayLeads, SloLeads DEF Script
<1>3. \A d \in Drills : \E f : f[1] = Nowhere /\ Through(d, Script[d], f)
  BY <1>1, <1>2, DrillsAssumption
<1> QED BY <1>3 DEF Plan

\* A drill is ready for its step,
LEMMA StepReady ==
  ASSUME ScriptInv PROVE Ready(drill, Step, P) /\ Allowed(drill, Step)
<1>1. Goes(drill, Step, P, Plan(drill)[pc + 1])
  BY Planned DEF ScriptInv, Through, Step, P
<1>2. Allowed(drill, Step)
  BY ScriptsLegal DEF ScriptInv, Legal, EachAllowed, Step
<1> QED BY <1>1, <1>2 DEF Goes

\* which leads to the phase of the next one.
LEMMA PhaseGoes ==
  ASSUME ScriptInv, Go
  PROVE  /\ Counts(Step, P, P')
         /\ \A f \in F' : (f \in F /\ f \notin Lost(Step.do)) \/ Learned(Step, P, f)
<1>1. Goes(drill, Step, P, Plan(drill)[pc + 1])
  BY Planned DEF ScriptInv, Through, Step, P
<1>2. P' = Plan(drill)[pc + 1]
  BY DEF Go, P
<1> QED BY <1>1, <1>2 DEF Goes, F

\* The drills that leave the topic to Debezium.
Untouched == {"broker_parity", "schema_contract", "duplicate_redelivery", "ordering_miskey",
              "offset_replay"}

\* The pipeline is left alone, but for the states of its services.
Rest == <<script, binlog, toInsert, captured, versions, topic, dlq, group, probe, start, mode,
          polled, done, held, shown, current, changelog, seen, link>>

\* A step of the drill, variable by variable: the source and the topic,
TopicGoes ==
  LET op == Step.do IN
  /\ toInsert' = IF op \in Starts THEN Step.n ELSE toInsert
  /\ op = "insert_row" => binlog' = Append(binlog, NextRow)
  /\ op = "update_sweep" =>
       binlog' = binlog \o
         [r \in 1 .. Cardinality(Present(SourceTable)) |-> [row |-> r, version |-> 2]]
  /\ op \notin {"insert_row", "update_sweep"} => binlog' = binlog
  /\ op # "start_kafka" => captured' = captured
  /\ captured' = captured \/ (captured # 0 /\ captured' = captured - 1)
  /\ op = "produce_poison" => topic' = Append(topic, Poison)
  /\ op = "produce_repair" => topic' = Append(topic, binlog[Len(binlog)])
  /\ op \notin {"produce_poison", "produce_repair"} => topic' = topic
  /\ op # "register" => versions' = versions
  /\ op = "register" =>
       versions' = IF Backward("event_id_as_string") THEN versions \cup {"event_id_as_string"}
                   ELSE versions
  /\ op = "produce_keyed" =>
       probe' = Append(probe, [keyed |-> TRUE, event |-> Step.n, partition |-> 1])
  /\ op = "produce_miskeyed" =>
       probe' = Append(probe, [keyed |-> FALSE, event |-> Arrival[Step.n],
                               partition |-> Step.n])
  /\ op \notin Produces => probe' = probe
  /\ dlq' = dlq

\* the job and its tables,
JobGoes ==
  LET op == Step.do IN
  /\ op \notin Submits => UNCHANGED <<start, mode, polled, done, notify, held, shown>>
  /\ op \notin Submits => group' = IF op = "rewind_group" THEN 0 ELSE group
  /\ op \in Submits =>
       /\ start' = CASE op = "submit_committed" -> group
                     [] op = "replay_timestamp" -> seen.timestamp
                     [] OTHER -> 0
       /\ mode' = CASE op = "submit_cdc" -> "cdc"
                    [] op \in {"submit", "submit_committed"} -> "kafka"
                    [] OTHER -> "replay"
       /\ polled' = start' /\ done' = [id |-> 0, pos |-> start']
       /\ notify' = {} /\ held' = {} /\ shown' = [s \in Sink |-> start']
       /\ group' \in {0, group}
  /\ current' = IF op = "reset_tables" THEN NoRows ELSE current
  /\ changelog' = IF op = "reset_tables" THEN <<>> ELSE changelog
  /\ job' = IF op \in Submits THEN "STARTING"
            ELSE IF op = "cancel" THEN "CANCELING" ELSE job

\* what the drill has read,
SeenGoes ==
  LET op == Step.do IN
  /\ op = "require_checkpoint" => done.id > 0 /\ seen' = [seen EXCEPT !.checkpoint = done]
  /\ op = "remember_checkpoint" => seen' = [seen EXCEPT !.before = seen.checkpoint]
  /\ op = "await_checkpoint_after" =>
       done.id > seen.before.id /\ seen' = [seen EXCEPT !.after = done]
  /\ op = "await_zero_lag" => seen' = [seen EXCEPT !.offsets = group]
  /\ op = "read_offsets" => seen' = [seen EXCEPT !.offsetsBefore = group]
  /\ op = "choose_timestamp" => seen' = [seen EXCEPT !.timestamp = Len(topic)]
  /\ op = "read_source" => seen' = [seen EXCEPT !.source = SourceTable]
  /\ op = "read_table" => seen' = [seen EXCEPT !.table = current]
  /\ op = "remember_original" => seen' = [seen EXCEPT !.original = seen.table]
  /\ op = "audit" => seen' = [seen EXCEPT !.audited = (current = SourceTable)]
  /\ op = "keep" => seen' = [seen EXCEPT !.audited = (seen.table = seen.source)]
  /\ op = "count_changelog" => seen' = [seen EXCEPT !.rows = LogRows]
  /\ op = "count_repeats" => seen' = [seen EXCEPT !.repeats = Repeats]
  /\ op = "count_topic" => seen' = [seen EXCEPT !.records = Len(topic)]
  /\ op = "register" => seen' = [seen EXCEPT !.accepted = Backward("event_id_as_string")]
  /\ op = "cancel" => seen' = [seen EXCEPT !.checkpoint = NoCheckpoint, !.offsets = 0]
  /\ link' = IF op = "read_snapshots"
             THEN [checkpoint |-> seen.checkpoint, offsets |-> seen.offsets, table |-> current]
             ELSE IF op = "cancel" THEN NoLink ELSE link

\* the rest of which it leaves alone,
Notes == {"require_checkpoint", "remember_checkpoint", "await_checkpoint_after",
          "await_zero_lag", "read_offsets", "choose_timestamp", "read_source", "read_table",
          "remember_original", "audit", "keep", "count_changelog", "count_repeats",
          "count_topic", "register", "cancel"}

\* and what it waited for.
WaitGoes ==
  LET op == Step.do IN
  /\ op = "join_producer" => toInsert = 0
  /\ op = "await_rows" => Cardinality(Present(current)) = Step.n
  /\ op = "await_convergence" => current = SourceTable
  /\ op = "await_original" => current = seen.original
  /\ op = "await_changelog" => LogRows = Step.n
  /\ op = "check_changelog" => LogRows = Step.n
  /\ op = "await_absent" => job = "absent"
  /\ op = "await_job" => job = "RUNNING"
  /\ op = "await_subject" => versions # {}
  /\ op = "await_dlq" => dlq = Step.n

Moves ==
  /\ DrillGoes /\ TopicGoes /\ JobGoes /\ SeenGoes /\ WaitGoes
  /\ Step.do \notin Notes => seen' = seen

LEMMA DrillMoves ==
  ASSUME ScriptInv, DrillStep, ~Finally, Go PROVE Moves
<1> USE DEF source, debezium, flink, tables, kafka, pipeline, harness, script, still, At, Starts,
        Submits, Produces, Notes
<1>1. DrillGoes
  <2>1. ~(DrillEnds \/ SystemMoves)
    BY DEF Go, DrillEnds, SystemMoves, ScriptInv
  <2> QED BY <2>1, DrillSteps
<1>2. ASSUME Flag PROVE Moves
  BY <1>1, <1>2 DEF Moves, TopicGoes, JobGoes, SeenGoes, WaitGoes, Flag
<1>3. ASSUME SubmitJob PROVE Moves
  BY <1>1, <1>3 DEF Moves, TopicGoes, JobGoes, SeenGoes, WaitGoes, SubmitJob
<1>4. ASSUME StartProducer \/ ReleaseGate \/ InsertSourceRow \/ UpdateSweep PROVE Moves
  BY <1>1, <1>4 DEF Moves, TopicGoes, JobGoes, SeenGoes, WaitGoes, StartProducer, ReleaseGate,
     InsertSourceRow, UpdateSweep
<1>5. ASSUME ProduceBinary \/ ProduceProbe \/ RegisterSchema PROVE Moves
  BY <1>1, <1>5 DEF Moves, TopicGoes, JobGoes, SeenGoes, WaitGoes, ProduceBinary, ProduceProbe,
     RegisterSchema
<1>6. ASSUME KillKafka \/ StartKafka \/ SetConnectorState PROVE Moves
  BY <1>1, <1>6 DEF Moves, TopicGoes, JobGoes, SeenGoes, WaitGoes, KillKafka, StartKafka,
     SetConnectorState
<1>7. ASSUME RestartFailedTask PROVE Moves
  BY <1>1, <1>7 DEF RestartFailedTask, Go, ScriptInv
<1>8. ASSUME CancelJob \/ RewindGroup \/ ResetTables PROVE Moves
  BY <1>1, <1>8 DEF Moves, TopicGoes, JobGoes, SeenGoes, WaitGoes, CancelJob, RewindGroup,
     ResetTables
<1>9. ASSUME Await PROVE Moves
  BY <1>1, <1>9 DEF Moves, TopicGoes, JobGoes, SeenGoes, WaitGoes, Await, Arrived, RowsArrived,
     Converged, JobAbsent
<1>10. ASSUME Read \/ ReadSnapshots PROVE Moves
  BY <1>1, <1>10 DEF Moves, TopicGoes, JobGoes, SeenGoes, WaitGoes, Read, ReadSnapshots
<1>11. ASSUME Check PROVE Moves
  BY <1>1, <1>11 DEF Moves, TopicGoes, JobGoes, SeenGoes, WaitGoes, Check, Checks, Raise, Holds,
     Go, ScriptInv
<1>12. ~Conclude
  BY <1>1 DEF Conclude, Go, Raise, ScriptInv
<1> QED BY <1>2, <1>3, <1>4, <1>5, <1>6, <1>7, <1>8, <1>9, <1>10, <1>11, <1>12 DEF DrillStep

\* The pipeline writes nothing: a service changes its state, or the drill ends.
Idles ==
  /\ UNCHANGED Rest /\ notify' \in {notify, {}} /\ (cleaned => cleaned')
  /\ \/ job' = job
     \/ job = "STARTING" /\ job' = "RUNNING"
     \/ job = "CANCELING" /\ job' = "absent"
     \/ job \in {"STARTING", "RUNNING"} /\ job' = "CANCELING" /\ cleaned'

\* It writes, and the drill looks on.
Flows ==
  /\ UNCHANGED harness
  /\ InsertRow \/ Capture \/ Poll \/ CompleteCheckpoint \/ CommitGroup
     \/ CommitChangelog \/ CommitCurrent

LEMMA NextCases ==
  ASSUME ScriptInv, [Next]_vars PROVE Idles \/ Flows \/ (Go /\ Moves)
<1> USE DEF source, debezium, flink, tables, kafka, pipeline, harness, script, still, vars, Rest
<1>1. CASE UNCHANGED vars
  BY <1>1 DEF Idles
<1>2. CASE Followed /\ (PipelineStep \/ TaskFails)
  <2>1. ASSUME TaskFails \/ PauseTakesEffect \/ JobStarts \/ JobEnds PROVE Idles
    BY <2>1 DEF TaskFails, PauseTakesEffect, JobStarts, JobEnds, Idles
  <2>2. ASSUME InsertRow \/ Capture \/ Poll \/ CompleteCheckpoint \/ CommitGroup
               \/ CommitChangelog \/ CommitCurrent
        PROVE  Flows
    <3>1. UNCHANGED harness
      BY <2>2 DEF InsertRow, Capture, Poll, CompleteCheckpoint, CommitGroup, CommitChangelog,
                  CommitCurrent
    <3> QED BY <2>2, <3>1 DEF Flows
  <2> QED BY <1>2, <2>1, <2>2 DEF PipelineStep
<1>3. CASE DrillStep
  <2>1. ASSUME Finally PROVE Idles
    BY <2>1 DEF Finally, Idles
  <2>2. ASSUME RestartFailedTask \/ Conclude PROVE Idles
    BY <2>2 DEF RestartFailedTask, Conclude, Raise, Idles
  <2>3. ASSUME Check, ~Go PROVE Idles
    BY <2>3 DEF Check, Raise, Idles
  <2>4. ASSUME ~RestartFailedTask, ~Conclude, ~Finally, ~Check PROVE Go
    BY <1>3, <2>4 DEF DrillStep, Flag, SubmitJob, StartProducer, ReleaseGate, InsertSourceRow,
       UpdateSweep, ProduceBinary, ProduceProbe, RegisterSchema, KillKafka, StartKafka,
       SetConnectorState, CancelJob, RewindGroup, ResetTables, Await, Read, ReadSnapshots
  <2> QED BY <1>3, <2>1, <2>2, <2>3, <2>4, DrillMoves
<1>4. CASE StepRaises \/ AnswerLost
  BY <1>4 DEF StepRaises, AnswerLost, Raise, Idles
<1> QED BY <1>1, <1>2, <1>3, <1>4 DEF Next

\* When the drill does not go on, the phase stays the same.
LEMMA PhaseStays ==
  /\ Idles => P' = P /\ F' = F /\ drill' = drill /\ pc' = pc /\ Step' = Step
  /\ Flows => P' = P /\ F' = F /\ drill' = drill /\ pc' = pc /\ Step' = Step
BY DEF Idles, Flows, Rest, harness, script, P, F, Step

-----------------------------------------------------------------------------
(* The inductive invariant, part by part. *)

\* The rows in MySQL, and the binlog and the tables they make: rows 1 to n, inserted
\* in this order and then, perhaps, updated.
R == P.due - toInsert
BinlogOf(n, v) ==
  [i \in 1 .. (IF v = 2 THEN n + n ELSE n) |->
     IF i <= n THEN [row |-> i, version |-> 1] ELSE [row |-> i - n, version |-> 2]]
RowsOf(n, v) == [r \in Row |-> IF r <= n THEN v ELSE 0]

\* The source has what the phase says, but for what the producer has yet to insert.
SourceInv ==
  /\ P.due \in {0} \cup (Events .. Rows(drill)) /\ P.ver \in {1, 2}
  /\ toInsert \in 0 .. Events /\ toInsert <= P.due
  /\ P.ver = 2 => toInsert = 0 /\ drill = "offset_replay"
  /\ "idle" \in F => toInsert = 0
  /\ binlog = BinlogOf(R, P.ver)

\* The topic has records of these rows and at most one that is malformed; where
\* nobody else writes to it, it is the binlog as far as Debezium got.
TopicInv ==
  /\ topic \in Seq(Record \cup {Poison}) /\ captured \in 0 .. Len(binlog)
  /\ drill \in Untouched =>
       Len(topic) = captured /\ \A i \in 1 .. captured : topic[i] = binlog[i]
  /\ drill \notin Untouched =>
       \A i \in 1 .. Len(topic) :
         topic[i] # Poison => topic[i].row \in 1 .. R /\ topic[i].version = 1
  /\ "clean" \in F \/ drill \notin Poisoned => \A i \in 1 .. Len(topic) : topic[i] # Poison
  /\ \A i, j \in 1 .. Len(topic) : topic[i] = Poison /\ topic[j] = Poison => i = j

\* A job reads on from where it started, and its tables follow its checkpoints.
FlowInv ==
  /\ mode \in {"cdc", "kafka", "replay"} /\ (mode = "cdc" => drill = "broker_parity")
  /\ start \in Nat /\ polled \in Nat /\ polled <= Len(Input)
  /\ done \in Checkpoint /\ done.pos <= polled
  /\ shown \in [Sink -> Nat] /\ \A s \in Sink : start <= shown[s] /\ shown[s] <= done.pos
  /\ notify \subseteq Sink \cup {"group"} /\ ("group" \in notify => mode # "cdc")
  /\ group \in 0 .. Len(topic)
  /\ seen.timestamp \in 0 .. Len(topic)
  /\ drill = "offset_replay" => start <= Events /\ seen.timestamp <= Events
  /\ drill \in Single \cup Counted => start = 0

\* What is known of the job.
StateInv ==
  /\ "gone" \in F => job = "absent"
  /\ "running" \in F /\ ~cleaned => job = "RUNNING"
  /\ "fresh" \in F => job = "absent" /\ current = NoRows /\ dlq = 0
  /\ "blank" \in F => job = "absent" /\ current = NoRows /\ changelog = <<>>

\* The current table has rows of the source, none newer; how far its job got says
\* which it may have; and once it is full it stays so until the source is written.
TableInv ==
  /\ current \in Table /\ held \subseteq Row
  /\ \A r \in Row : current[r] # 0 => r <= R /\ current[r] <= P.ver
  /\ drill = "offset_replay" =>
       \A r \in Row : current[r] = 2 => R + r <= shown["current"]
  /\ drill \in Single /\ current # NoRows => shown["current"] > 0
  /\ drill = "schema_contract" => \A r \in Row : current[r] # 0 => r <= shown["current"]
  /\ "full" \in F => toInsert = 0 /\ current = SourceTable

\* What the drill has read of the tables is what they should be,
ReadInv ==
  /\ "src" \in F => toInsert = 0 /\ seen.source = SourceTable
  /\ "tab" \in F => toInsert = 0 /\ seen.table = SourceTable
  /\ "orig" \in F => toInsert = 0 /\ seen.original = SourceTable
  /\ "aud" \in F => seen.audited

\* what it has read of the checkpoints is of the same job, and in order,
Known(checkpoint) ==
  /\ checkpoint.id <= done.id /\ checkpoint.pos <= done.pos
  /\ checkpoint.id = done.id => checkpoint = done
SeenInv ==
  /\ "checked" \in F => Known(seen.checkpoint)
  /\ "before" \in F => Known(seen.before)
  /\ drill = "broker_restart" =>
       /\ "zero" \in F => seen.before.pos = 0
       /\ {"advanced", "linked"} \cap F # {} =>
            Known(seen.checkpoint) /\ seen.checkpoint.id > seen.before.id
       /\ "linked" \in F => link.checkpoint.id > seen.before.id
  /\ "after" \in F => seen.after.id > seen.before.id
  /\ "covered" \in F /\ drill = "schema_contract" =>
       toInsert = 0 /\ captured = Len(binlog) /\ seen.after.pos = Len(topic)

\* and what it has read of the offsets is covered by the tables it linked them with.
LinkInv ==
  /\ seen.offsets \in 0 .. Len(topic) /\ link.offsets \in 0 .. Len(topic)
  /\ LinkageCoversOffsets

\* The incompatible schema was not accepted.
SchemaInv ==
  /\ ~seen.accepted /\ versions \subseteq {"registered"}
  /\ "subject" \in F => versions # {}

\* The changelog of a drill that counts it is the workload as far as it is shown,
\* after c rows of an earlier delivery.
Log(c) ==
  /\ Len(changelog) = c + shown["changelog"]
  /\ \A i \in 1 .. Len(changelog) :
       changelog[i] = [row |-> IF i <= c THEN i ELSE i - c, version |-> 1]
LogInv ==
  /\ changelog \in Seq(Record \cup {Poison})
  /\ drill \in Counted =>
       /\ "first" \in F => Log(0)
       /\ "again" \in F => Log(Events)
       /\ "all" \in F => shown["changelog"] = Events

\* The probe is as it was sent, and the poison record is a dead letter once read.
ProbeRecord(i) ==
  IF drill = "broker_slo" THEN [keyed |-> FALSE, event |-> Arrival[i], partition |-> i]
  ELSE IF i <= 3 THEN [keyed |-> TRUE, event |-> i, partition |-> 1]
  ELSE [keyed |-> FALSE, event |-> Arrival[i - 3], partition |-> i - 3]
ProbeInv ==
  /\ probe \in Seq(Probe) /\ Len(probe) = P.probed
  /\ drill \in Probing => \A i \in 1 .. Len(probe) : probe[i] = ProbeRecord(i)
  /\ drill \in Probing => P.probed <= IF drill = "broker_slo" THEN 3 ELSE 6
DlqInv ==
  /\ dlq \in Nat
  /\ drill = "poison_dlq" =>
       /\ dlq = 0 => \A i \in 1 .. polled : topic[i] # Poison
       /\ dlq # 0 => dlq = 1 /\ \E i \in 1 .. polled : topic[i] = Poison
       /\ "quarantined" \in F => dlq = 1

-----------------------------------------------------------------------------
(* The rows of a source that is written as the scripts do. *)

\* Where a row changes last says what it is.
LEMMA LatestAt ==
  ASSUME NEW records, NEW a \in Nat, NEW b \in Nat, NEW r, NEW before, NEW k \in a .. b,
         records[k].row = r, \A j \in a .. b : records[j].row = r => j <= k
  PROVE  Latest(records, a .. b, r, before) = records[k].version
<1> DEFINE of == {i \in a .. b : records[i].row = r}
<1>1. k \in of /\ \A j \in of : j <= k
  OBVIOUS
<1>2. ASSUME NEW i \in of, \A j \in of : j <= i PROVE i = k
  BY <1>1, <1>2
<1>3. (CHOOSE i \in of : \A j \in of : j <= i) = k
  <2> HIDE DEF of
  <2> QED BY <1>1, <1>2
<1> QED BY <1>1, <1>3 DEF Latest

LEMMA LatestIn ==
  \A m \in Nat : \A r : \A k \in 1 .. m :
    binlog[k].row = r /\ (\A j \in 1 .. m : binlog[j].row = r => j <= k)
      => Latest(binlog, 1 .. m, r, 0) = binlog[k].version
BY LatestAt

\* A row that never changes is what it was.
LEMMA LatestNone ==
  ASSUME NEW records, NEW S, NEW r, NEW before, \A j \in S : records[j].row # r
  PROVE  Latest(records, S, r, before) = before
BY DEF Latest

\* The last change of a row of such a binlog, of m entries.
Sweeps(n, v, m) ==
  /\ (v = 1 => m = n) /\ (v = 2 => m = n + n)
  /\ \A i \in 1 .. m : (i <= n => binlog[i].row = i /\ binlog[i].version = 1)
                       /\ (~(i <= n) => binlog[i].row = i - n /\ binlog[i].version = 2)
LEMMA BinlogLatest ==
  ASSUME NEW n \in Nat, NEW v \in {1, 2}, NEW m \in Nat, Sweeps(n, v, m)
  PROVE  \A r \in Nat \ {0} : Latest(binlog, 1 .. m, r, 0) = IF r <= n THEN v ELSE 0
<1>0. /\ (v = 1 => m = n) /\ (v = 2 => m = n + n)
      /\ \A i \in 1 .. m : (i <= n => binlog[i].row = i /\ binlog[i].version = 1)
                           /\ (~(i <= n) => binlog[i].row = i - n /\ binlog[i].version = 2)
  BY DEF Sweeps
<1>1. ASSUME NEW r \in Nat \ {0}, r <= n PROVE Latest(binlog, 1 .. m, r, 0) = v
  <2>0. r \in Nat /\ r >= 1
    OBVIOUS
  <2>1. CASE v = 1
    <3>1. r \in 1 .. m /\ binlog[r].row = r /\ binlog[r].version = 1
      BY <1>0, <1>1, <2>0, <2>1
    <3>2. \A j \in 1 .. m : binlog[j].row = r => j <= r
      BY <1>0, <2>1
    <3>3. Latest(binlog, 1 .. m, r, 0) = binlog[r].version
      BY <3>1, <3>2, LatestIn
    <3> QED BY <2>1, <3>1, <3>3
  <2>2. CASE v = 2
    <3>1. n + r \in 1 .. m /\ ~(n + r <= n) /\ (n + r) - n = r
      BY <1>0, <1>1, <2>0, <2>2
    <3>2. binlog[n + r].row = r /\ binlog[n + r].version = 2
      BY <1>0, <3>1
    <3>3. ASSUME NEW j \in 1 .. m, binlog[j].row = r PROVE j <= n + r
      <4>1. CASE j <= n
        BY <1>0, <2>0, <4>1
      <4>2. CASE ~(j <= n)
        <5>1. r = j - n
          BY <1>0, <3>3, <4>2
        <5> QED BY <5>1
      <4> QED BY <4>1, <4>2
    <3>4. \A j \in 1 .. m : binlog[j].row = r => j <= n + r
      BY <3>3
    <3>5. PICK k \in 1 .. m : k = n + r
      BY <3>1
    <3>6. binlog[k].row = r /\ binlog[k].version = 2
      BY <3>2, <3>5
    <3>7. \A j \in 1 .. m : binlog[j].row = r => j <= k
      BY <3>4, <3>5
    <3>8. Latest(binlog, 1 .. m, r, 0) = binlog[k].version
      BY <3>6, <3>7, LatestIn
    <3> QED BY <2>2, <3>6, <3>8
  <2> QED BY <2>1, <2>2
<1>2. ASSUME NEW r \in Nat \ {0}, ~(r <= n) PROVE Latest(binlog, 1 .. m, r, 0) = 0
  <2>1. ASSUME NEW j \in 1 .. m PROVE binlog[j].row # r
    <3>1. CASE j <= n
      BY <1>0, <1>2, <3>1
    <3>2. CASE ~(j <= n)
      <4>1. binlog[j].row = j - n /\ j - n <= n
        BY <1>0, <3>2
      <4> QED BY <1>2, <4>1
    <3> QED BY <3>1, <3>2
  <2>2. \A j \in 1 .. m : binlog[j].row # r
    BY <2>1
  <2> QED BY <2>2, LatestNone
<1> QED BY <1>1, <1>2

\* The table and the next row of a source with a known binlog.
LEMMA SourceRows ==
  ASSUME NEW n \in 0 .. Events + 2, NEW v \in {1, 2}, binlog = BinlogOf(n, v)
  PROVE  /\ SourceTable = RowsOf(n, v) /\ Present(SourceTable) = 1 .. n
         /\ Cardinality(Present(SourceTable)) = n
         /\ NextRow = [row |-> n + 1, version |-> 1]
         /\ binlog \in Seq(Record) /\ Len(binlog) = (IF v = 2 THEN n + n ELSE n)
         /\ \A i \in 1 .. Len(binlog) :
              binlog[i] = IF i <= n THEN [row |-> i, version |-> 1]
                          ELSE [row |-> i - n, version |-> 2]
<1> USE OptionsAssumption
<1>0. PICK m \in Nat : m = IF v = 2 THEN n + n ELSE n
  OBVIOUS
<1>1. /\ n \in Nat /\ n <= Events + 2 /\ Events \in Nat /\ m \in Nat /\ n <= m
      /\ (v = 1 => m = n) /\ (v = 2 => m = n + n)
  BY <1>0
<1>2. ASSUME NEW i \in 1 .. m
      PROVE  (IF i <= n THEN [row |-> i, version |-> 1] ELSE [row |-> i - n, version |-> 2])
               \in Record
  BY <1>1 DEF Record, Row, Version
<1>3. binlog \in Seq(Record) /\ Len(binlog) = m /\ DOMAIN binlog = 1 .. m
  BY <1>0, <1>1, <1>2 DEF BinlogOf
<1>4. \A i \in 1 .. m :
        binlog[i] = IF i <= n THEN [row |-> i, version |-> 1]
                    ELSE [row |-> i - n, version |-> 2]
  BY <1>0 DEF BinlogOf
<1>12. ASSUME NEW i \in 1 .. m, i <= n PROVE binlog[i].row = i /\ binlog[i].version = 1
  <2>1. binlog[i] = [row |-> i, version |-> 1]
    BY <1>4, <1>12
  <2> QED BY <2>1
<1>13. ASSUME NEW i \in 1 .. m, ~(i <= n) PROVE binlog[i].row = i - n /\ binlog[i].version = 2
  <2>1. binlog[i] = [row |-> i - n, version |-> 2]
    BY <1>4, <1>13
  <2> QED BY <2>1
<1>5. Sweeps(n, v, m)
  BY <1>1, <1>12, <1>13 DEF Sweeps
<1>6. \A r \in Nat \ {0} : Latest(binlog, 1 .. m, r, 0) = IF r <= n THEN v ELSE 0
  BY <1>1, <1>5, BinlogLatest
<1>7. SourceTable = RowsOf(n, v)
  BY <1>3, <1>6 DEF SourceTable, RowsOf, Row
<1>8. Present(SourceTable) = 1 .. n
  BY <1>1, <1>7 DEF Present, RowsOf, Row
<1>9. Cardinality(1 .. n) = n
  BY <1>1, FS_Interval
<1> QED BY <1>0, <1>3, <1>4, <1>7, <1>8, <1>9 DEF NextRow

\* Sequences with the same elements are the same, and what is in two put together.
LEMMA SameSeq ==
  ASSUME NEW S, NEW s \in Seq(S), NEW t \in Seq(S), Len(s) = Len(t),
         \A i \in 1 .. Len(s) : s[i] = t[i]
  PROVE  s = t
OBVIOUS

LEMMA JoinedSeq ==
  ASSUME NEW S, NEW s \in Seq(S), NEW t \in Seq(S)
  PROVE  /\ s \o t \in Seq(S) /\ Len(s \o t) = Len(s) + Len(t)
         /\ \A i \in 1 .. Len(s) : (s \o t)[i] = s[i]
         /\ \A i \in 1 .. Len(s) + Len(t) : i > Len(s) =>
              i - Len(s) \in 1 .. Len(t) /\ (s \o t)[i] = t[i - Len(s)]
OBVIOUS

LEMMA Appended ==
  ASSUME NEW S, NEW s \in Seq(S), NEW x \in S
  PROVE  /\ Append(s, x) \in Seq(S) /\ Len(Append(s, x)) = Len(s) + 1
         /\ \A i \in 1 .. Len(s) : Append(s, x)[i] = s[i]
         /\ Append(s, x)[Len(s) + 1] = x
OBVIOUS

\* One more row, and the update of all rows.
LEMMA BinlogGrows ==
  ASSUME NEW n \in Nat
  PROVE  /\ Append(BinlogOf(n, 1), [row |-> n + 1, version |-> 1]) = BinlogOf(n + 1, 1)
         /\ BinlogOf(n, 1) \o [r \in 1 .. n |-> [row |-> r, version |-> 2]] = BinlogOf(n, 2)
<1> DEFINE one == [row |-> n + 1, version |-> 1]
           sweep == [r \in 1 .. n |-> [row |-> r, version |-> 2]]
           S == [row : Nat, version : Nat]
<1>1. BinlogOf(n, 1) \in Seq(S) /\ Len(BinlogOf(n, 1)) = n /\ DOMAIN BinlogOf(n, 1) = 1 .. n
      /\ \A i \in 1 .. n : BinlogOf(n, 1)[i] = [row |-> i, version |-> 1]
  BY DEF BinlogOf
<1>2. BinlogOf(n + 1, 1) \in Seq(S) /\ Len(BinlogOf(n + 1, 1)) = n + 1
      /\ \A i \in 1 .. n + 1 : BinlogOf(n + 1, 1)[i] = [row |-> i, version |-> 1]
  BY DEF BinlogOf
<1>3. one \in S /\ one.row = n + 1
  OBVIOUS
<1> HIDE DEF one, S
<1>4. Append(BinlogOf(n, 1), one) = BinlogOf(n + 1, 1)
  <2> DEFINE s == Append(BinlogOf(n, 1), one)
  <2>1. /\ s \in Seq(S) /\ Len(s) = n + 1 /\ s[n + 1] = one
        /\ \A i \in 1 .. n : s[i] = [row |-> i, version |-> 1]
    BY <1>1, <1>3, Appended
  <2> HIDE DEF s
  <2>2. \A i \in 1 .. n + 1 : s[i] = BinlogOf(n + 1, 1)[i]
    <3>1. BinlogOf(n + 1, 1)[n + 1] = one
      BY <1>2 DEF one
    <3>2. \A i \in 1 .. n + 1 : i = n + 1 \/ i \in 1 .. n
      OBVIOUS
    <3> QED BY <1>2, <2>1, <3>1, <3>2
  <2>3. s = BinlogOf(n + 1, 1)
    BY <1>2, <2>1, <2>2, SameSeq
  <2> QED BY <2>3 DEF s
<1>5. BinlogOf(n, 2) \in Seq(S) /\ Len(BinlogOf(n, 2)) = n + n
      /\ \A i \in 1 .. n + n :
           BinlogOf(n, 2)[i] = IF i <= n THEN [row |-> i, version |-> 1]
                               ELSE [row |-> i - n, version |-> 2]
  BY DEF BinlogOf, S
<1>6. sweep \in Seq(S) /\ Len(sweep) = n
      /\ \A i \in 1 .. n : sweep[i] = [row |-> i, version |-> 2]
  BY DEF S
<1> HIDE DEF sweep
<1> DEFINE b == BinlogOf(n, 1)
           c == b \o sweep
<1>7. /\ b \in Seq(S) /\ Len(b) = n /\ \A i \in 1 .. n : b[i] = [row |-> i, version |-> 1]
  BY <1>1
<1> HIDE DEF b
<1>8. /\ c \in Seq(S) /\ Len(c) = Len(b) + Len(sweep)
      /\ \A i \in 1 .. Len(b) : c[i] = b[i]
      /\ \A i \in 1 .. Len(b) + Len(sweep) : i > Len(b) =>
           i - Len(b) \in 1 .. Len(sweep) /\ c[i] = sweep[i - Len(b)]
  BY <1>6, <1>7, JoinedSeq
<1> HIDE DEF c
<1>10. Len(c) = n + n
  BY <1>6, <1>7, <1>8
<1>11. ASSUME NEW i \in 1 .. n + n PROVE c[i] = BinlogOf(n, 2)[i]
  <2>1. CASE i <= n
    <3>1. c[i] = [row |-> i, version |-> 1]
      BY <1>7, <1>8, <2>1
    <3> QED BY <1>5, <2>1, <3>1
  <2>2. CASE ~(i <= n)
    <3>1. i - n \in 1 .. n /\ c[i] = sweep[i - n]
      BY <1>6, <1>7, <1>8, <2>2
    <3> QED BY <1>5, <1>6, <2>2, <3>1
  <2> QED BY <2>1, <2>2
<1>12. c = BinlogOf(n, 2)
  BY <1>5, <1>8, <1>10, <1>11, SameSeq
<1>9. BinlogOf(n, 1) \o sweep = BinlogOf(n, 2)
  BY <1>12 DEF c, b
<1> QED BY <1>4, <1>9 DEF sweep, one

\* What follows of the source.
SourceFacts ==
  /\ R \in 0 .. Events + 2 /\ R \in Nat /\ P.due \in Nat /\ toInsert \in Nat
  /\ P.due <= Rows(drill) /\ Events \in Nat /\ R <= P.due /\ Rows(drill) <= Events + 2
  /\ P.ver \in {1, 2} /\ binlog = BinlogOf(R, P.ver) /\ Len(binlog) \in Nat
  /\ R = P.due - toInsert
  /\ P.ver = 1 => Len(binlog) = R
  /\ P.ver = 2 => Len(binlog) = R + R
  /\ SourceTable = RowsOf(R, P.ver) /\ Present(SourceTable) = 1 .. R
  /\ Cardinality(Present(SourceTable)) = R
  /\ NextRow = [row |-> R + 1, version |-> 1]
  /\ binlog \in Seq(Record)
  /\ \A i \in 1 .. Len(binlog) : i <= R => binlog[i] = [row |-> i, version |-> 1]
  /\ \A i \in 1 .. Len(binlog) : i > R =>
       binlog[i] = [row |-> i - R, version |-> 2] /\ i - R \in 1 .. R /\ P.ver = 2

LEMMA SourceType == ScriptInv /\ SourceInv => SourceFacts
<1> SUFFICES ASSUME ScriptInv, SourceInv PROVE SourceFacts
  OBVIOUS
<1>1. /\ Events \in Nat /\ Rows(drill) \in Nat /\ Rows(drill) >= Events
      /\ Rows(drill) <= Events + 2
  BY OptionsAssumption DEF Rows
<1>2. /\ P.due \in Nat /\ P.due <= Rows(drill) /\ toInsert \in Nat /\ toInsert <= P.due
  BY <1>1 DEF SourceInv
<1>3. R \in 0 .. Events + 2 /\ R \in Nat /\ R <= P.due /\ R = P.due - toInsert
  BY <1>1, <1>2 DEF R
<1>4. P.ver \in {1, 2} /\ binlog = BinlogOf(R, P.ver)
  BY DEF SourceInv
<1>5. /\ Len(binlog) = (IF P.ver = 2 THEN R + R ELSE R)
      /\ SourceTable = RowsOf(R, P.ver) /\ Present(SourceTable) = 1 .. R
      /\ Cardinality(Present(SourceTable)) = R
      /\ NextRow = [row |-> R + 1, version |-> 1]
      /\ binlog \in Seq(Record)
      /\ \A i \in 1 .. Len(binlog) :
              binlog[i] = IF i <= R THEN [row |-> i, version |-> 1]
                          ELSE [row |-> i - R, version |-> 2]
  BY <1>3, <1>4, SourceRows
<1>6. ASSUME NEW i \in 1 .. Len(binlog), i > R
      PROVE  binlog[i] = [row |-> i - R, version |-> 2] /\ i - R \in 1 .. R /\ P.ver = 2
  <2>1. i \in Nat /\ ~(i <= R)
    BY <1>3, <1>6
  <2>2. P.ver = 2 /\ i <= R + R
    BY <1>3, <1>4, <1>5, <2>1
  <2>3. i - R \in 1 .. R
    BY <1>3, <2>1, <2>2
  <2> QED BY <1>5, <2>1, <2>2, <2>3
<1>7. \A i \in 1 .. Len(binlog) : i <= R => binlog[i] = [row |-> i, version |-> 1]
  BY <1>5
<1>8. (P.ver = 1 => Len(binlog) = R) /\ (P.ver = 2 => Len(binlog) = R + R) /\ Len(binlog) \in Nat
  BY <1>3, <1>4, <1>5
<1> QED BY <1>1, <1>2, <1>3, <1>4, <1>5, <1>6, <1>7, <1>8 DEF SourceFacts

\* The source is as the script says, whatever the step.
LEMMA SourceKeeps ==
  ASSUME ScriptInv, SourceInv, [Next]_vars PROVE SourceInv'
<1> USE OptionsAssumption
<1>1. /\ R \in Nat /\ P.due \in Nat /\ toInsert \in Nat /\ Events \in Nat
      /\ P.ver \in {1, 2} /\ binlog = BinlogOf(R, P.ver) /\ R = P.due - toInsert
      /\ Cardinality(Present(SourceTable)) = R /\ NextRow = [row |-> R + 1, version |-> 1]
  BY SourceType DEF SourceFacts
<1>2. CASE Idles
  BY <1>2, PhaseStays DEF SourceInv, R, Idles, Rest, script
<1>3. CASE Flows
  <2>1. P' = P /\ F' = F /\ drill' = drill
    BY <1>3, PhaseStays
  <2>2. CASE InsertRow
    <3>1. toInsert > 0 /\ toInsert' = toInsert - 1 /\ binlog' = Append(binlog, NextRow)
      BY <2>2 DEF InsertRow
    <3>2. P.ver = 1 /\ "idle" \notin F
      BY <1>1, <3>1 DEF SourceInv
    <3>3. R' = R + 1
      BY <1>1, <2>1, <3>1 DEF R
    <3>4. binlog' = BinlogOf(R', 1)
      BY <1>1, <3>1, <3>2, <3>3, BinlogGrows
    <3> QED BY <1>1, <2>1, <3>1, <3>2, <3>4 DEF SourceInv
  <2>3. CASE ~InsertRow
    <3>1. toInsert' = toInsert /\ binlog' = binlog
      BY <1>3, <2>3 DEF Flows, Capture, Poll, CompleteCheckpoint, CommitGroup, CommitChangelog,
                       CommitCurrent, source
    <3> QED BY <2>1, <3>1 DEF SourceInv, R
  <2> QED BY <2>2, <2>3
<1>4. CASE Go /\ Moves
  <2> DEFINE op == Step.do
  <2>1. /\ Counts(Step, P, P') /\ drill' = drill
        /\ \A f \in F' : (f \in F /\ f \notin Lost(op)) \/ Learned(Step, P, f)
    BY <1>4, PhaseGoes DEF Go
  <2>2. Ready(drill, Step, P)
    BY StepReady
  <2>3. TopicGoes /\ WaitGoes
    BY <1>4 DEF Moves
  <2>4. "idle" \in F' => (op \notin Starts /\ "idle" \in F) \/ op = "join_producer"
    BY <2>1 DEF Lost, Learned, Submits
  <2>5. CASE op \in Starts
    <3>1. P.due = 0 /\ Step.n = Events /\ P.ver = 1
      BY <2>2, <2>5 DEF Ready, MayWrite, F
    <3>2. P'.due = Events /\ P'.ver = 1 /\ toInsert' = Events /\ binlog' = binlog
      BY <1>1, <2>1, <2>3, <2>5, <3>1 DEF Counts, TopicGoes, Starts
    <3>3. R = 0 /\ R' = 0
      BY <1>1, <3>1, <3>2 DEF SourceInv, R
    <3>4. Events <= Rows(drill) /\ Rows(drill) \in Nat
      BY DEF Rows
    <3> QED BY <1>1, <2>1, <2>4, <2>5, <3>1, <3>2, <3>3, <3>4 DEF SourceInv, Starts
  <2>6. CASE op = "insert_row"
    <3>1. P.due \in Events .. Rows(drill) - 1 /\ P.ver = 1 /\ "idle" \in F
      BY <2>2, <2>6 DEF Ready, MayWrite, F
    <3>2. P'.due = P.due + 1 /\ P'.ver = 1 /\ toInsert' = toInsert
          /\ binlog' = Append(binlog, NextRow)
      BY <2>1, <2>3, <2>6, <3>1 DEF Counts, TopicGoes, Starts
    <3>3. toInsert = 0 /\ R' = R + 1
      BY <1>1, <3>1, <3>2 DEF SourceInv, R
    <3>4. binlog' = BinlogOf(R', 1)
      BY <1>1, <3>1, <3>2, <3>3, BinlogGrows
    <3>5. Rows(drill) \in Nat
      BY DEF Rows
    <3>6. P'.due \in Events .. Rows(drill)
      BY <1>1, <3>1, <3>2, <3>5
    <3> QED BY <1>1, <2>1, <3>2, <3>3, <3>4, <3>6 DEF SourceInv
  <2>7. CASE op = "update_sweep"
    <3>1. drill = "offset_replay" /\ P.ver = 1 /\ "idle" \in F
      BY <2>2, <2>7 DEF Ready, MayWrite, F
    <3>2. P'.due = P.due /\ P'.ver = 2 /\ toInsert' = toInsert
          /\ binlog' = binlog \o
               [r \in 1 .. Cardinality(Present(SourceTable)) |-> [row |-> r, version |-> 2]]
      BY <2>1, <2>3, <2>7 DEF Counts, TopicGoes, Starts
    <3>3. toInsert = 0 /\ R' = R
      BY <1>1, <3>1, <3>2 DEF SourceInv, R
    <3>4. binlog' = BinlogOf(R', 2)
      BY <1>1, <3>1, <3>2, <3>3, BinlogGrows
    <3> QED BY <2>1, <3>1, <3>2, <3>3, <3>4 DEF SourceInv
  <2>8. CASE op \notin Starts \cup {"insert_row", "update_sweep"}
    <3>1. P'.due = P.due /\ P'.ver = P.ver /\ toInsert' = toInsert /\ binlog' = binlog
      BY <2>1, <2>3, <2>8 DEF Counts, TopicGoes, Starts
    <3>2. "idle" \in F' => toInsert' = 0
      BY <2>3, <2>4, <3>1 DEF SourceInv, WaitGoes
    <3> QED BY <2>1, <3>1, <3>2 DEF SourceInv, R
  <2> QED BY <2>5, <2>6, <2>7, <2>8
<1> QED BY <1>2, <1>3, <1>4, NextCases

\* A source that is not written to stays the same.
LEMMA SourceSame ==
  ASSUME ScriptInv, SourceInv, toInsert = 0,
         Idles \/ Flows \/ (Go /\ Moves /\ Step.do \notin Writes)
  PROVE  /\ binlog' = binlog /\ toInsert' = 0 /\ SourceTable' = SourceTable
         /\ R' = R /\ P'.ver = P.ver /\ P'.due = P.due
<1>1. CASE Idles
  <2>1. P' = P /\ binlog' = binlog /\ toInsert' = toInsert
    BY <1>1, PhaseStays DEF Idles, Rest
  <2> QED BY <2>1 DEF R, SourceTable
<1>2. CASE Flows
  <2>1. P' = P
    BY <1>2, PhaseStays
  <2>2. binlog' = binlog /\ toInsert' = toInsert
    BY <1>2 DEF Flows, InsertRow, Capture, Poll, CompleteCheckpoint, CommitGroup,
                CommitChangelog, CommitCurrent, source
  <2> QED BY <2>1, <2>2 DEF R, SourceTable
<1>3. CASE Go /\ Moves /\ Step.do \notin Writes
  <2>1. Counts(Step, P, P') /\ TopicGoes
    BY <1>3, PhaseGoes DEF Moves
  <2>2. binlog' = binlog /\ toInsert' = toInsert /\ P'.ver = P.ver /\ P'.due = P.due
    BY <1>3, <2>1 DEF Counts, TopicGoes, Writes, Starts
  <2> QED BY <2>2 DEF R, SourceTable
<1> QED BY <1>1, <1>2, <1>3

\* It is only ever added to.
LEMMA SourceGrows ==
  ASSUME ScriptInv, SourceInv, SourceInv', ScriptInv', [Next]_vars
  PROVE  /\ R <= R' /\ P.ver <= P'.ver /\ drill' = drill /\ (P.ver = 2 => R' = R)
         /\ P'.ver # P.ver => Step.do = "update_sweep" /\ Go /\ R' = R
         /\ Len(binlog) <= Len(binlog') /\ \A i \in 1 .. Len(binlog) : binlog'[i] = binlog[i]
<1>1. /\ R \in Nat /\ P.ver \in {1, 2} /\ Len(binlog) \in Nat
      /\ (P.ver = 1 => Len(binlog) = R) /\ (P.ver = 2 => Len(binlog) = R + R)
      /\ P.due \in Nat /\ toInsert \in Nat /\ R = P.due - toInsert
  BY SourceType DEF SourceFacts
<1>2. SourceFacts'
  <2>1. (ScriptInv /\ SourceInv => SourceFacts)'
    BY SourceType, PTL
  <2> QED BY <2>1
<1>20. /\ R' \in Nat /\ P'.ver \in {1, 2} /\ Len(binlog') \in Nat
       /\ (P'.ver = 1 => Len(binlog') = R') /\ (P'.ver = 2 => Len(binlog') = R' + R')
       /\ P'.due \in Nat /\ toInsert' \in Nat /\ R' = P'.due - toInsert'
  BY <1>2 DEF SourceFacts
<1>3. /\ R <= R' /\ P.ver <= P'.ver /\ drill' = drill /\ (P.ver = 2 => R' = R)
      /\ P'.ver # P.ver => Step.do = "update_sweep" /\ Go /\ R' = R
  <2>1. CASE Idles
    BY <1>1, <2>1, PhaseStays DEF Idles, Rest, R, script
  <2>2. CASE Flows
    <3>1. P' = P /\ drill' = drill
      BY <2>2, PhaseStays
    <3>2. toInsert' = toInsert \/ (toInsert > 0 /\ toInsert' = toInsert - 1)
      BY <2>2 DEF Flows, InsertRow, Capture, Poll, CompleteCheckpoint, CommitGroup,
                  CommitChangelog, CommitCurrent, source
    <3> QED BY <1>1, <1>20, <3>1, <3>2 DEF SourceInv
  <2>3. CASE Go /\ Moves
    <3>1. Counts(Step, P, P') /\ TopicGoes /\ Ready(drill, Step, P) /\ drill' = drill
      BY <2>3, PhaseGoes, StepReady DEF Moves, Go
    <3>2. CASE Step.do \in Starts
      <4>1. P.due = 0 /\ P'.ver = P.ver /\ P.ver = 1
        BY <3>1, <3>2 DEF Ready, MayWrite, Counts, Starts
      <4> QED BY <1>1, <1>20, <3>1, <4>1
    <3>3. CASE Step.do \notin Starts
      <4>1. toInsert' = toInsert /\ P'.due >= P.due /\ (Step.do # "insert_row" => P'.due = P.due)
        BY <1>1, <3>1, <3>3 DEF Counts, TopicGoes
      <4>2. /\ P'.ver = IF Step.do = "update_sweep" THEN 2 ELSE P.ver
            /\ Step.do = "insert_row" => P.ver = 1
        BY <3>1 DEF Ready, MayWrite, Counts
      <4>3. CASE Step.do = "insert_row"
        <5>1. P.ver = 1 /\ P'.ver = 1
          BY <4>2, <4>3
        <5> QED BY <1>1, <1>20, <3>1, <4>1, <5>1
      <4>4. CASE Step.do # "insert_row"
        <5>1. R' = R
          BY <1>1, <1>20, <4>1, <4>4
        <5>2. P.ver <= P'.ver /\ (P'.ver # P.ver => Step.do = "update_sweep")
          BY <1>1, <4>2
        <5>3. R <= R'
          BY <1>1, <5>1
        <5> QED BY <2>3, <3>1, <5>1, <5>2, <5>3
      <4> QED BY <4>3, <4>4
    <3> QED BY <3>2, <3>3
  <2> QED BY <2>1, <2>2, <2>3, NextCases
<1>4. Len(binlog) <= Len(binlog')
  <2>1. CASE P.ver = 1
    <3>1. Len(binlog) = R
      BY <1>1, <2>1
    <3>2. CASE P'.ver = 1
      BY <1>1, <1>20, <1>3, <3>1, <3>2
    <3>3. CASE P'.ver = 2
      <4>1. Len(binlog') = R' + R'
        BY <1>20, <3>3
      <4> QED BY <1>1, <1>20, <1>3, <3>1, <4>1
    <3> QED BY <1>20, <3>2, <3>3
  <2>2. CASE P.ver = 2
    <3>1. R' = R /\ P'.ver = 2
      BY <1>1, <1>20, <1>3, <2>2
    <3> QED BY <1>1, <1>20, <2>2, <3>1
  <2> QED BY <1>1, <2>1, <2>2
<1>5. ASSUME NEW i \in 1 .. Len(binlog) PROVE binlog'[i] = binlog[i]
  <2>1. i \in 1 .. Len(binlog') /\ i \in Nat
    BY <1>1, <1>20, <1>4
  <2>2. CASE i <= R
    <3>1. i <= R'
      BY <1>1, <1>20, <1>3, <2>1, <2>2
    <3>2. binlog'[i] = [row |-> i, version |-> 1]
      BY <1>2, <2>1, <3>1 DEF SourceFacts
    <3>3. binlog[i] = [row |-> i, version |-> 1]
      BY <2>2, SourceType DEF SourceFacts
    <3> QED BY <3>2, <3>3
  <2>3. CASE i > R
    <3>1. P.ver = 2 /\ binlog[i] = [row |-> i - R, version |-> 2]
      BY <2>3, SourceType DEF SourceFacts
    <3>2. R' = R
      BY <1>3, <3>1
    <3>3. i > R'
      BY <2>3, <3>2
    <3>4. binlog'[i] = [row |-> i - R', version |-> 2]
      BY <1>2, <2>1, <3>3 DEF SourceFacts
    <3> QED BY <3>1, <3>2, <3>4
  <2> QED BY <1>1, <2>1, <2>2, <2>3
<1> QED BY <1>3, <1>4, <1>5

\* Its records are of its rows.
LEMMA BinlogRows ==
  ASSUME ScriptInv, SourceInv, NEW i \in 1 .. Len(binlog)
  PROVE  binlog[i].row \in 1 .. R /\ binlog[i].version \in 1 .. P.ver
<1>1. R \in Nat /\ P.ver \in {1, 2} /\ Len(binlog) \in Nat
  BY SourceType DEF SourceFacts
<1>2. CASE i <= R
  <2>1. binlog[i] = [row |-> i, version |-> 1]
    BY <1>2, SourceType DEF SourceFacts
  <2> QED BY <1>1, <1>2, <2>1
<1>3. CASE i > R
  <2>1. binlog[i] = [row |-> i - R, version |-> 2] /\ i - R \in 1 .. R /\ P.ver = 2
    BY <1>3, SourceType DEF SourceFacts
  <2> QED BY <2>1
<1> QED BY <1>1, <1>2, <1>3

\* So are the records of the topic,
LEMMA TopicRows ==
  ASSUME ScriptInv, SourceInv, TopicInv
  PROVE  \A i \in 1 .. Len(topic) :
           \/ topic[i] = Poison
           \/ topic[i].row \in 1 .. R /\ topic[i].version \in 1 .. P.ver
<1>1. R \in Nat /\ P.ver \in {1, 2} /\ Len(binlog) \in Nat
  BY SourceType DEF SourceFacts
<1>2. ASSUME NEW i \in 1 .. Len(topic), topic[i] # Poison
      PROVE  topic[i].row \in 1 .. R /\ topic[i].version \in 1 .. P.ver
  <2>1. CASE drill \notin Untouched
    BY <1>1, <1>2, <2>1 DEF TopicInv
  <2>2. CASE drill \in Untouched
    <3>1. topic[i] = binlog[i] /\ i \in 1 .. Len(binlog)
      BY <1>1, <2>2 DEF TopicInv
    <3> QED BY <3>1, BinlogRows
  <2> QED BY <2>1, <2>2
<1> QED BY <1>2

\* and what the job reads.
InputFacts ==
  /\ Input \in Seq(Record \cup {Poison}) /\ Len(Input) \in Nat
  /\ \A i \in 1 .. Len(Input) :
       \/ Input[i] = Poison
       \/ Input[i].row \in 1 .. R /\ Input[i].version \in 1 .. P.ver
LEMMA InputRows == ScriptInv /\ SourceInv /\ TopicInv => InputFacts
<1> SUFFICES ASSUME ScriptInv, SourceInv, TopicInv PROVE InputFacts
  OBVIOUS
<1>1. CASE mode = "cdc"
  <2>1. binlog \in Seq(Record) /\ Len(binlog) \in Nat
    BY SourceType DEF SourceFacts
  <2>2. binlog \in Seq(Record \cup {Poison})
    BY <2>1
  <2>3. \A i \in 1 .. Len(binlog) : binlog[i].row \in 1 .. R /\ binlog[i].version \in 1 .. P.ver
    BY BinlogRows
  <2> QED BY <1>1, <2>1, <2>2, <2>3 DEF Input, InputFacts
<1>2. CASE mode # "cdc"
  BY <1>2, TopicRows DEF Input, TopicInv, InputFacts
<1> QED BY <1>1, <1>2

\* A topic only grows, by a record of the source or the one that is malformed.
TopicSteps ==
  \/ topic' = topic /\ (captured' = captured \/ (drill \notin Untouched /\ captured' \in 0 .. captured))
  \/ /\ captured < Len(binlog) /\ captured' = captured + 1 /\ UNCHANGED F
     /\ topic' = Append(topic, binlog[captured + 1])
  \/ /\ captured' = captured /\ drill \in Poisoned /\ "clean" \in F /\ "clean" \notin F'
     /\ topic' = Append(topic, Poison)
  \/ /\ captured' = captured /\ drill \in Poisoned /\ Len(binlog) > 0
     /\ topic' = Append(topic, binlog[Len(binlog)])

LEMMA TopicMoves ==
  ASSUME ScriptInv, SourceInv, TopicInv, [Next]_vars
  PROVE  TopicSteps /\ ("clean" \in F' => "clean" \in F)
<1>1. CASE Idles
  BY <1>1, PhaseStays DEF Idles, Rest, TopicSteps
<1>2. CASE Flows
  <2>1. F' = F
    BY <1>2, PhaseStays
  <2>2. CASE Capture
    BY <2>1, <2>2 DEF Capture, TopicSteps
  <2>3. CASE ~Capture
    <3>1. topic' = topic /\ captured' = captured
      BY <1>2, <2>3 DEF Flows, InsertRow, Poll, CompleteCheckpoint, CommitGroup, CommitChangelog,
                        CommitCurrent, debezium, kafka
    <3> QED BY <2>1, <3>1 DEF TopicSteps
  <2> QED BY <2>2, <2>3
<1>3. CASE Go /\ Moves
  <2>1. /\ Ready(drill, Step, P) /\ TopicGoes
        /\ \A f \in F' : (f \in F /\ f \notin Lost(Step.do)) \/ Learned(Step, P, f)
    BY <1>3, PhaseGoes, StepReady DEF Moves
  <2>2. "clean" \in F' => "clean" \in F /\ Step.do # "produce_poison"
    BY <2>1 DEF Lost, Learned
  <2>3. captured \in Nat
    BY DEF TopicInv
  <2>4. CASE Step.do = "produce_poison"
    <3>1. drill \in Poisoned /\ "clean" \in F
      BY <2>1, <2>4 DEF Ready, MayWrite, F
    <3> QED BY <2>1, <2>2, <2>4, <3>1 DEF TopicGoes, TopicSteps
  <2>5. CASE Step.do = "produce_repair"
    <3>1. drill \in Poisoned /\ P.due > 0 /\ "idle" \in F
      BY <2>1, <2>5 DEF Ready, MayWrite, F
    <3>2. toInsert = 0 /\ P.ver = 1
      BY <3>1 DEF SourceInv, Poisoned
    <3>3. Len(binlog) > 0
      BY <3>1, <3>2, SourceType DEF SourceFacts
    <3> QED BY <2>1, <2>2, <2>5, <3>1, <3>3 DEF TopicGoes, TopicSteps
  <2>6. CASE Step.do = "start_kafka"
    <3>1. drill \notin Untouched
      BY <2>1, <2>6 DEF Ready, MayWrite, Untouched
    <3> QED BY <2>1, <2>2, <2>3, <2>6, <3>1 DEF TopicGoes, TopicSteps
  <2>7. CASE Step.do \notin {"produce_poison", "produce_repair", "start_kafka"}
    BY <2>1, <2>2, <2>7 DEF TopicGoes, TopicSteps
  <2> QED BY <2>4, <2>5, <2>6, <2>7
<1> QED BY <1>1, <1>2, <1>3, NextCases

LEMMA TopicGrows ==
  ASSUME ScriptInv, SourceInv, TopicInv, [Next]_vars
  PROVE  /\ topic' \in Seq(Record \cup {Poison}) /\ Len(topic) \in Nat /\ Len(topic') \in Nat
         /\ Len(topic) <= Len(topic') /\ Len(topic') <= Len(topic) + 1
         /\ \A i \in 1 .. Len(topic) : topic'[i] = topic[i]
<1>1. topic \in Seq(Record \cup {Poison})
  BY DEF TopicInv
<1>2. ASSUME NEW x \in Record \cup {Poison}, topic' = Append(topic, x)
      PROVE  /\ topic' \in Seq(Record \cup {Poison}) /\ Len(topic') = Len(topic) + 1
             /\ \A i \in 1 .. Len(topic) : topic'[i] = topic[i]
  BY <1>1, <1>2, Appended
<1>3. \A i \in 1 .. Len(binlog) : binlog[i] \in Record
  BY SourceType DEF SourceFacts
<1>4. captured \in 0 .. Len(binlog) /\ Len(binlog) \in Nat
  BY SourceType DEF SourceFacts, TopicInv
<1>5. topic' = topic \/ \E x \in Record \cup {Poison} : topic' = Append(topic, x)
  <2>1. TopicSteps
    BY TopicMoves
  <2>2. captured < Len(binlog) => binlog[captured + 1] \in Record
    BY <1>3, <1>4
  <2>3. Len(binlog) > 0 => binlog[Len(binlog)] \in Record
    BY <1>3, <1>4
  <2> QED BY <2>1, <2>2, <2>3 DEF TopicSteps
<1>6. CASE topic' = topic
  BY <1>1, <1>6
<1>7. CASE topic' # topic
  <2>1. PICK x \in Record \cup {Poison} : topic' = Append(topic, x)
    BY <1>5, <1>7
  <2>2. /\ topic' \in Seq(Record \cup {Poison}) /\ Len(topic') = Len(topic) + 1
        /\ \A i \in 1 .. Len(topic) : topic'[i] = topic[i]
    BY <1>2, <2>1
  <2> QED BY <1>1, <2>2
<1> QED BY <1>6, <1>7

LEMMA TopicKeeps ==
  ASSUME ScriptInv, SourceInv, TopicInv, ScriptInv', SourceInv', [Next]_vars
  PROVE  TopicInv'
<1>1. /\ R <= R' /\ drill' = drill /\ R \in Nat /\ Len(binlog) \in Nat
      /\ Len(binlog) <= Len(binlog') /\ \A i \in 1 .. Len(binlog) : binlog'[i] = binlog[i]
  BY SourceGrows, SourceType DEF SourceFacts
<1>2. SourceFacts'
  <2>1. (ScriptInv /\ SourceInv => SourceFacts)'
    BY SourceType, PTL
  <2> QED BY <2>1
<1>3. /\ topic' \in Seq(Record \cup {Poison}) /\ Len(topic) \in Nat /\ Len(topic') \in Nat
      /\ Len(topic) <= Len(topic') /\ Len(topic') <= Len(topic) + 1
      /\ \A i \in 1 .. Len(topic) : topic'[i] = topic[i]
  BY TopicGrows
<1>4. TopicSteps /\ ("clean" \in F' => "clean" \in F)
  BY TopicMoves
<1>5. captured \in 0 .. Len(binlog) /\ captured \in Nat
  BY <1>1 DEF TopicInv
<1>6. captured' \in 0 .. Len(binlog')
  <2>1. captured' \in Nat /\ captured' <= Len(binlog)
    BY <1>1, <1>4, <1>5 DEF TopicSteps
  <2>2. Len(binlog') \in Nat
    BY <1>2 DEF SourceFacts
  <2> QED BY <1>1, <2>1, <2>2
<1>7. ASSUME NEW x, topic' = Append(topic, x) PROVE topic'[Len(topic) + 1] = x /\ Len(topic') = Len(topic) + 1
  BY <1>7 DEF TopicInv
<1>8. ASSUME NEW i \in 1 .. Len(topic')
      PROVE  \/ i \in 1 .. Len(topic) /\ topic'[i] = topic[i]
             \/ /\ i = Len(topic) + 1
                /\ \/ /\ captured < Len(binlog) /\ captured' = captured + 1 /\ F' = F
                      /\ topic'[i] = binlog[captured + 1]
                   \/ drill \in Poisoned /\ "clean" \in F /\ "clean" \notin F' /\ topic'[i] = Poison
                   \/ drill \in Poisoned /\ Len(binlog) > 0 /\ topic'[i] = binlog[Len(binlog)]
  <2>1. CASE i \in 1 .. Len(topic)
    BY <1>3, <2>1
  <2>2. CASE i \notin 1 .. Len(topic)
    <3>1. i = Len(topic) + 1 /\ topic' # topic
      BY <1>3, <2>2
    <3> QED BY <1>4, <1>7, <3>1 DEF TopicSteps
  <2> QED BY <2>1, <2>2
<1>9. \A i \in 1 .. Len(binlog) :
        binlog[i] # Poison /\ binlog[i].row \in 1 .. R /\ (P.ver = 1 => binlog[i].version = 1)
  <2>1. \A i \in 1 .. Len(binlog) : binlog[i].row \in 1 .. R /\ binlog[i].version \in 1 .. P.ver
    BY BinlogRows
  <2> QED BY <2>1 DEF Poison
<1>10. captured < Len(binlog) => captured + 1 \in 1 .. Len(binlog)
  BY <1>1, <1>5
<1>11. Len(binlog) > 0 => Len(binlog) \in 1 .. Len(binlog)
  BY <1>1
<1>12. ASSUME drill' \in Untouched
       PROVE  Len(topic') = captured' /\ \A i \in 1 .. captured' : topic'[i] = binlog'[i]
  <2>1. /\ drill \in Untouched /\ drill \notin Poisoned /\ Len(topic) = captured
        /\ \A i \in 1 .. captured : topic[i] = binlog[i]
    BY <1>1, <1>12 DEF TopicInv, Untouched, Poisoned
  <2>2. CASE topic' = topic /\ captured' = captured
    BY <1>1, <1>5, <2>1, <2>2
  <2>3. CASE /\ captured < Len(binlog) /\ captured' = captured + 1
             /\ topic' = Append(topic, binlog[captured + 1])
    <3>1. Len(topic') = captured' /\ topic'[captured + 1] = binlog[captured + 1]
      BY <1>7, <2>1, <2>3
    <3>2. ASSUME NEW i \in 1 .. captured' PROVE topic'[i] = binlog'[i]
      <4>1. CASE i = captured + 1
        BY <1>1, <1>10, <2>3, <3>1, <4>1
      <4>2. CASE i # captured + 1
        <5>1. i \in 1 .. captured
          BY <1>5, <2>3, <4>2
        <5> QED BY <1>1, <1>3, <1>5, <2>1, <5>1
      <4> QED BY <4>1, <4>2
    <3> QED BY <3>1, <3>2
  <2> QED BY <1>4, <2>1, <2>2, <2>3 DEF TopicSteps
<1>13. ASSUME drill' \notin Untouched, NEW i \in 1 .. Len(topic'), topic'[i] # Poison
       PROVE  topic'[i].row \in 1 .. R' /\ topic'[i].version = 1
  <2>1. P.ver = 1
    BY <1>1, <1>13 DEF SourceInv, Untouched
  <2>5. R' \in Nat
    BY <1>2 DEF SourceFacts
  <2>2. CASE i \in 1 .. Len(topic) /\ topic'[i] = topic[i]
    <3>1. topic[i].row \in 1 .. R /\ topic[i].version = 1
      BY <1>1, <1>13, <2>2 DEF TopicInv
    <3> QED BY <1>1, <1>2, <2>2, <3>1 DEF SourceFacts
  <2>3. CASE captured < Len(binlog) /\ topic'[i] = binlog[captured + 1]
    <3>1. binlog[captured + 1].row \in 1 .. R /\ binlog[captured + 1].version = 1
      BY <1>9, <1>10, <2>1, <2>3
    <3> QED BY <1>1, <2>3, <2>5, <3>1
  <2>4. CASE Len(binlog) > 0 /\ topic'[i] = binlog[Len(binlog)]
    <3>1. binlog[Len(binlog)].row \in 1 .. R /\ binlog[Len(binlog)].version = 1
      BY <1>9, <1>11, <2>1, <2>4
    <3> QED BY <1>1, <2>4, <2>5, <3>1
  <2> QED BY <1>8, <1>13, <2>2, <2>3, <2>4
<1>14. ASSUME "clean" \in F' \/ drill' \notin Poisoned, NEW i \in 1 .. Len(topic')
       PROVE  topic'[i] # Poison
  <2>1. \A j \in 1 .. Len(topic) : topic[j] # Poison
    BY <1>1, <1>4, <1>14 DEF TopicInv
  <2> QED BY <1>1, <1>8, <1>9, <1>10, <1>11, <1>14, <2>1
<1>15. ASSUME NEW i \in 1 .. Len(topic'), NEW j \in 1 .. Len(topic'),
              topic'[i] = Poison, topic'[j] = Poison
       PROVE  i = j
  <2>1. ASSUME NEW k \in 1 .. Len(topic'), topic'[k] = Poison, k \notin 1 .. Len(topic)
        PROVE  k = Len(topic) + 1 /\ "clean" \in F
    BY <1>8, <1>9, <1>10, <1>11, <2>1
  <2>2. "clean" \in F => \A k \in 1 .. Len(topic) : topic[k] # Poison
    BY DEF TopicInv
  <2>3. \A k \in 1 .. Len(topic) : topic'[k] = topic[k]
    BY <1>3
  <2>4. CASE i \in 1 .. Len(topic) /\ j \in 1 .. Len(topic)
    BY <1>15, <2>3, <2>4 DEF TopicInv
  <2> QED BY <1>15, <2>1, <2>2, <2>3, <2>4
<1> QED BY <1>3, <1>6, <1>12, <1>13, <1>14, <1>15 DEF TopicInv

\* What a job reads only grows.
LEMMA InputGrows ==
  ASSUME ScriptInv, SourceInv, TopicInv, ScriptInv', SourceInv', [Next]_vars, mode' = mode
  PROVE  /\ Len(Input) \in Nat /\ Len(Input') \in Nat /\ Len(Input) <= Len(Input')
         /\ \A i \in 1 .. Len(Input) : Input'[i] = Input[i]
<1>1. /\ Len(binlog) <= Len(binlog') /\ \A i \in 1 .. Len(binlog) : binlog'[i] = binlog[i]
  BY SourceGrows
<1>2. /\ Len(topic) \in Nat /\ Len(topic') \in Nat /\ Len(topic) <= Len(topic')
      /\ \A i \in 1 .. Len(topic) : topic'[i] = topic[i]
  BY TopicGrows
<1>3. Len(binlog) \in Nat
  BY SourceType DEF SourceFacts
<1>4. Len(binlog') \in Nat
  <2>1. (ScriptInv /\ SourceInv => SourceFacts)'
    BY SourceType, PTL
  <2> QED BY <2>1 DEF SourceFacts
<1>5. CASE mode = "cdc"
  <2>1. Input = binlog /\ Input' = binlog'
    BY <1>5 DEF Input
  <2> QED BY <1>1, <1>3, <1>4, <2>1
<1>6. CASE mode # "cdc"
  <2>1. Input = topic /\ Input' = topic'
    BY <1>6 DEF Input
  <2> QED BY <1>2, <2>1
<1> QED BY <1>5, <1>6

\* A drill that replays offsets has no more of them than events while it writes none twice.
LEMMA TopicOfReplay ==
  ASSUME ScriptInv, SourceInv, TopicInv, drill = "offset_replay", P.ver = 1
  PROVE  Len(topic) <= Events
<1>1. /\ R \in Nat /\ Events \in Nat /\ P.due <= Rows(drill) /\ R <= P.due /\ P.due \in Nat
      /\ Len(binlog) = R
  BY SourceType DEF SourceFacts
<1>2. Len(topic) = captured /\ captured \in 0 .. Len(binlog)
  BY DEF TopicInv, Untouched
<1>3. Rows(drill) = Events
  BY DEF Rows, Poisoned
<1> QED BY <1>1, <1>2, <1>3

\* How a job gets on: it does nothing, or what one of its steps does.
FlowSteps ==
  \/ UNCHANGED <<start, mode, polled, done, shown, held, group>> /\ notify' \in {notify, {}}
  \/ Poll /\ UNCHANGED <<start, mode, done, notify, shown, held, group>>
  \/ CompleteCheckpoint /\ UNCHANGED <<start, mode, polled, shown, held, group>>
  \/ CommitGroup /\ UNCHANGED <<start, mode, polled, done, shown, held>>
  \/ CommitChangelog /\ UNCHANGED <<start, mode, polled, done, held, group>>
  \/ CommitCurrent /\ UNCHANGED <<start, mode, polled, done, group>>
LEMMA JobFlows ==
  ASSUME Idles \/ Flows PROVE FlowSteps /\ seen' = seen /\ link' = link
<1>1. CASE Idles
  BY <1>1 DEF Idles, Rest, FlowSteps
<1>2. CASE Flows
  <2> USE <1>2 DEF Flows, FlowSteps, harness, still, script
  <2>1. CASE InsertRow \/ Capture
    BY <2>1 DEF InsertRow, Capture, flink, tables, kafka
  <2>2. CASE Poll
    BY <2>2 DEF Poll, tables, kafka
  <2>3. CASE CompleteCheckpoint
    BY <2>3 DEF CompleteCheckpoint, tables, kafka
  <2>4. CASE CommitGroup
    BY <2>4 DEF CommitGroup, tables
  <2>5. CASE CommitChangelog
    BY <2>5 DEF CommitChangelog, kafka
  <2>6. CASE CommitCurrent
    BY <2>6 DEF CommitCurrent, kafka
  <2> QED BY <1>2, <2>1, <2>2, <2>3, <2>4, <2>5, <2>6
<1> QED BY <1>1, <1>2

\* What a drill has noted is a record of these fields, of which a step changes its own.
Noted == {"checkpoint", "before", "after", "offsets", "offsetsBefore", "timestamp", "source",
          "table", "original", "audited", "rows", "repeats", "records", "accepted"}
SeenShape == seen = [note \in Noted |-> seen[note]]

LEMMA ShapeExcept ==
  ASSUME SeenShape, NEW f \in Noted, NEW e, NEW s, s = [seen EXCEPT ![f] = e]
  PROVE  /\ s = [note \in Noted |-> s[note]] /\ s[f] = e
         /\ \A g \in Noted : g # f => s[g] = seen[g]
BY DEF SeenShape

NotesGo ==
  LET op == Step.do IN
  /\ seen'.checkpoint = IF op = "require_checkpoint" THEN done
                        ELSE IF op = "cancel" THEN NoCheckpoint ELSE seen.checkpoint
  /\ seen'.before = IF op = "remember_checkpoint" THEN seen.checkpoint ELSE seen.before
  /\ seen'.after = IF op = "await_checkpoint_after" THEN done ELSE seen.after
  /\ seen'.offsets = IF op = "await_zero_lag" THEN group
                     ELSE IF op = "cancel" THEN 0 ELSE seen.offsets
  /\ seen'.offsetsBefore = IF op = "read_offsets" THEN group ELSE seen.offsetsBefore
  /\ seen'.timestamp = IF op = "choose_timestamp" THEN Len(topic) ELSE seen.timestamp
  /\ seen'.source = IF op = "read_source" THEN SourceTable ELSE seen.source
  /\ seen'.table = IF op = "read_table" THEN current ELSE seen.table
  /\ seen'.original = IF op = "remember_original" THEN seen.table ELSE seen.original
  /\ seen'.audited = IF op = "audit" THEN (current = SourceTable)
                     ELSE IF op = "keep" THEN (seen.table = seen.source) ELSE seen.audited
  /\ seen'.rows = IF op = "count_changelog" THEN LogRows ELSE seen.rows
  /\ seen'.repeats = IF op = "count_repeats" THEN Repeats ELSE seen.repeats
  /\ seen'.records = IF op = "count_topic" THEN Len(topic) ELSE seen.records
  /\ seen'.accepted = IF op = "register" THEN Backward("event_id_as_string") ELSE seen.accepted

LEMMA NotesMove ==
  ASSUME SeenShape, Moves PROVE SeenShape' /\ NotesGo
<1> DEFINE op == Step.do
<1>1. SeenGoes /\ (op \notin Notes => seen' = seen)
  BY DEF Moves
<1>2. seen = [note \in Noted |-> seen[note]]
  BY DEF SeenShape
<1>3. CASE op = "require_checkpoint"
  <2>1. PICK e : e = done
    OBVIOUS
  <2>2. seen' = [seen EXCEPT !["checkpoint"] = e]
    BY <1>1, <1>3, <2>1 DEF SeenGoes
  <2>3. SeenShape' /\ seen'["checkpoint"] = e /\ \A g \in Noted : g # "checkpoint" => seen'[g] = seen[g]
    BY <2>2, ShapeExcept DEF SeenShape, Noted
  <2> QED BY <1>3, <2>1, <2>3 DEF NotesGo, Noted
<1>4. CASE op = "remember_checkpoint"
  <2>1. PICK e : e = seen.checkpoint
    OBVIOUS
  <2>2. seen' = [seen EXCEPT !["before"] = e]
    BY <1>1, <1>4, <2>1 DEF SeenGoes
  <2>3. SeenShape' /\ seen'["before"] = e /\ \A g \in Noted : g # "before" => seen'[g] = seen[g]
    BY <2>2, ShapeExcept DEF SeenShape, Noted
  <2> QED BY <1>4, <2>1, <2>3 DEF NotesGo, Noted
<1>5. CASE op = "await_checkpoint_after"
  <2>1. PICK e : e = done
    OBVIOUS
  <2>2. seen' = [seen EXCEPT !["after"] = e]
    BY <1>1, <1>5, <2>1 DEF SeenGoes
  <2>3. SeenShape' /\ seen'["after"] = e /\ \A g \in Noted : g # "after" => seen'[g] = seen[g]
    BY <2>2, ShapeExcept DEF SeenShape, Noted
  <2> QED BY <1>5, <2>1, <2>3 DEF NotesGo, Noted
<1>6. CASE op = "await_zero_lag"
  <2>1. PICK e : e = group
    OBVIOUS
  <2>2. seen' = [seen EXCEPT !["offsets"] = e]
    BY <1>1, <1>6, <2>1 DEF SeenGoes
  <2>3. SeenShape' /\ seen'["offsets"] = e /\ \A g \in Noted : g # "offsets" => seen'[g] = seen[g]
    BY <2>2, ShapeExcept DEF SeenShape, Noted
  <2> QED BY <1>6, <2>1, <2>3 DEF NotesGo, Noted
<1>7. CASE op = "read_offsets"
  <2>1. PICK e : e = group
    OBVIOUS
  <2>2. seen' = [seen EXCEPT !["offsetsBefore"] = e]
    BY <1>1, <1>7, <2>1 DEF SeenGoes
  <2>3. SeenShape' /\ seen'["offsetsBefore"] = e /\ \A g \in Noted : g # "offsetsBefore" => seen'[g] = seen[g]
    BY <2>2, ShapeExcept DEF SeenShape, Noted
  <2> QED BY <1>7, <2>1, <2>3 DEF NotesGo, Noted
<1>8. CASE op = "choose_timestamp"
  <2>1. PICK e : e = Len(topic)
    OBVIOUS
  <2>2. seen' = [seen EXCEPT !["timestamp"] = e]
    BY <1>1, <1>8, <2>1 DEF SeenGoes
  <2>3. SeenShape' /\ seen'["timestamp"] = e /\ \A g \in Noted : g # "timestamp" => seen'[g] = seen[g]
    BY <2>2, ShapeExcept DEF SeenShape, Noted
  <2> QED BY <1>8, <2>1, <2>3 DEF NotesGo, Noted
<1>9. CASE op = "read_source"
  <2>1. PICK e : e = SourceTable
    OBVIOUS
  <2>2. seen' = [seen EXCEPT !["source"] = e]
    BY <1>1, <1>9, <2>1 DEF SeenGoes
  <2>3. SeenShape' /\ seen'["source"] = e /\ \A g \in Noted : g # "source" => seen'[g] = seen[g]
    BY <2>2, ShapeExcept DEF SeenShape, Noted
  <2> QED BY <1>9, <2>1, <2>3 DEF NotesGo, Noted
<1>10. CASE op = "read_table"
  <2>1. PICK e : e = current
    OBVIOUS
  <2>2. seen' = [seen EXCEPT !["table"] = e]
    BY <1>1, <1>10, <2>1 DEF SeenGoes
  <2>3. SeenShape' /\ seen'["table"] = e /\ \A g \in Noted : g # "table" => seen'[g] = seen[g]
    BY <2>2, ShapeExcept DEF SeenShape, Noted
  <2> QED BY <1>10, <2>1, <2>3 DEF NotesGo, Noted
<1>11. CASE op = "remember_original"
  <2>1. PICK e : e = seen.table
    OBVIOUS
  <2>2. seen' = [seen EXCEPT !["original"] = e]
    BY <1>1, <1>11, <2>1 DEF SeenGoes
  <2>3. SeenShape' /\ seen'["original"] = e /\ \A g \in Noted : g # "original" => seen'[g] = seen[g]
    BY <2>2, ShapeExcept DEF SeenShape, Noted
  <2> QED BY <1>11, <2>1, <2>3 DEF NotesGo, Noted
<1>12. CASE op = "audit"
  <2>1. PICK e : e = (current = SourceTable)
    OBVIOUS
  <2>2. seen' = [seen EXCEPT !["audited"] = e]
    BY <1>1, <1>12, <2>1 DEF SeenGoes
  <2>3. SeenShape' /\ seen'["audited"] = e /\ \A g \in Noted : g # "audited" => seen'[g] = seen[g]
    BY <2>2, ShapeExcept DEF SeenShape, Noted
  <2> QED BY <1>12, <2>1, <2>3 DEF NotesGo, Noted
<1>13. CASE op = "keep"
  <2>1. PICK e : e = (seen.table = seen.source)
    OBVIOUS
  <2>2. seen' = [seen EXCEPT !["audited"] = e]
    BY <1>1, <1>13, <2>1 DEF SeenGoes
  <2>3. SeenShape' /\ seen'["audited"] = e /\ \A g \in Noted : g # "audited" => seen'[g] = seen[g]
    BY <2>2, ShapeExcept DEF SeenShape, Noted
  <2> QED BY <1>13, <2>1, <2>3 DEF NotesGo, Noted
<1>14. CASE op = "count_changelog"
  <2>1. PICK e : e = LogRows
    OBVIOUS
  <2>2. seen' = [seen EXCEPT !["rows"] = e]
    BY <1>1, <1>14, <2>1 DEF SeenGoes
  <2>3. SeenShape' /\ seen'["rows"] = e /\ \A g \in Noted : g # "rows" => seen'[g] = seen[g]
    BY <2>2, ShapeExcept DEF SeenShape, Noted
  <2> QED BY <1>14, <2>1, <2>3 DEF NotesGo, Noted
<1>15. CASE op = "count_repeats"
  <2>1. PICK e : e = Repeats
    OBVIOUS
  <2>2. seen' = [seen EXCEPT !["repeats"] = e]
    BY <1>1, <1>15, <2>1 DEF SeenGoes
  <2>3. SeenShape' /\ seen'["repeats"] = e /\ \A g \in Noted : g # "repeats" => seen'[g] = seen[g]
    BY <2>2, ShapeExcept DEF SeenShape, Noted
  <2> QED BY <1>15, <2>1, <2>3 DEF NotesGo, Noted
<1>16. CASE op = "count_topic"
  <2>1. PICK e : e = Len(topic)
    OBVIOUS
  <2>2. seen' = [seen EXCEPT !["records"] = e]
    BY <1>1, <1>16, <2>1 DEF SeenGoes
  <2>3. SeenShape' /\ seen'["records"] = e /\ \A g \in Noted : g # "records" => seen'[g] = seen[g]
    BY <2>2, ShapeExcept DEF SeenShape, Noted
  <2> QED BY <1>16, <2>1, <2>3 DEF NotesGo, Noted
<1>17. CASE op = "register"
  <2>1. PICK e : e = Backward("event_id_as_string")
    OBVIOUS
  <2>2. seen' = [seen EXCEPT !["accepted"] = e]
    BY <1>1, <1>17, <2>1 DEF SeenGoes
  <2>3. SeenShape' /\ seen'["accepted"] = e /\ \A g \in Noted : g # "accepted" => seen'[g] = seen[g]
    BY <2>2, ShapeExcept DEF SeenShape, Noted
  <2> QED BY <1>17, <2>1, <2>3 DEF NotesGo, Noted
<1>18. CASE op = "cancel"
  <2>1. seen' = [seen EXCEPT !["checkpoint"] = NoCheckpoint, !["offsets"] = 0]
    BY <1>1, <1>18 DEF SeenGoes
  <2>2. /\ SeenShape' /\ seen'["checkpoint"] = NoCheckpoint /\ seen'["offsets"] = 0
        /\ \A g \in Noted \ {"checkpoint", "offsets"} : seen'[g] = seen[g]
    BY <1>2, <2>1 DEF SeenShape, Noted
  <2> QED BY <1>18, <2>2 DEF NotesGo, Noted
<1>19. CASE op \notin Notes
  BY <1>1, <1>19 DEF NotesGo, Notes, SeenShape
<1> QED BY <1>3, <1>4, <1>5, <1>6, <1>7, <1>8, <1>9, <1>10, <1>11, <1>12, <1>13, <1>14, <1>15, <1>16, <1>17, <1>18, <1>19 DEF Notes

LEMMA FlowKeeps ==
  ASSUME ScriptInv, SourceInv, TopicInv, FlowInv, SeenShape, GroupInv, ScriptInv', SourceInv', TopicInv',
         [Next]_vars
  PROVE  FlowInv'
<1>1. /\ Len(topic) \in Nat /\ Len(topic') \in Nat /\ Len(topic) <= Len(topic')
  BY TopicGrows
<1>2. drill' = drill /\ Events \in Nat
  BY SourceGrows, OptionsAssumption
<1>3. /\ start \in Nat /\ polled \in Nat /\ done \in Checkpoint /\ done.pos \in Nat
      /\ done.id \in Nat /\ shown \in [Sink -> Nat] /\ group \in Nat /\ seen.timestamp \in Nat
      /\ polled <= Len(Input) /\ done.pos <= polled
      /\ \A s \in Sink : start <= shown[s] /\ shown[s] <= done.pos
  BY DEF FlowInv, Checkpoint
<1>4. CASE Idles \/ Flows
  <2>1. FlowSteps /\ seen' = seen /\ mode' = mode /\ start' = start
    BY <1>4, JobFlows DEF FlowSteps
  <2>2. Len(Input) \in Nat /\ Len(Input') \in Nat /\ Len(Input) <= Len(Input')
    BY <2>1, InputGrows
  <2>3. /\ seen'.timestamp \in 0 .. Len(topic')
        /\ mode' \in {"cdc", "kafka", "replay"} /\ (mode' = "cdc" => drill' = "broker_parity")
        /\ start' \in Nat
        /\ drill' = "offset_replay" => start' <= Events /\ seen'.timestamp <= Events
        /\ drill' \in Single \cup Counted => start' = 0
    BY <1>1, <1>2, <2>1 DEF FlowInv
  <2>4. group \in 0 .. Len(topic')
    BY <1>1 DEF FlowInv
  <2>5. CASE UNCHANGED <<start, mode, polled, done, shown, group>> /\ notify' \in {notify, {}}
    <3>1. polled' <= Len(Input')
      BY <1>3, <2>2, <2>5
    <3> QED BY <2>3, <2>4, <2>5, <3>1 DEF FlowInv
  <2>6. CASE Poll /\ UNCHANGED <<start, mode, done, notify, shown, group>>
    <3>1. polled' = Len(Input) /\ polled <= polled'
      BY <1>3, <2>6 DEF Poll
    <3>2. polled' \in Nat /\ polled' <= Len(Input') /\ done.pos <= polled'
      BY <1>3, <2>2, <3>1
    <3> QED BY <2>3, <2>4, <2>6, <3>2 DEF FlowInv
  <2>7. CASE CompleteCheckpoint /\ UNCHANGED <<start, mode, polled, shown, group>>
    <3>1. PICK p \in done.pos .. polled : done' = [id |-> done.id + 1, pos |-> p]
      BY <2>7 DEF CompleteCheckpoint
    <3>2. /\ done' \in Checkpoint /\ done'.pos = p /\ p \in Nat /\ done.pos <= p /\ p <= polled
      BY <1>3, <3>1 DEF Checkpoint
    <3>3. \A s \in Sink : start <= shown[s] /\ shown[s] <= done'.pos
      BY <1>3, <3>2
    <3>4. notify' \subseteq Sink \cup {"group"} /\ ("group" \in notify' => mode # "cdc")
      BY <2>7 DEF CompleteCheckpoint, Sink
    <3>5. polled <= Len(Input')
      BY <1>3, <2>2
    <3> QED BY <2>3, <2>4, <2>7, <3>2, <3>3, <3>4, <3>5 DEF FlowInv
  <2>8. CASE CommitGroup /\ UNCHANGED <<start, mode, polled, done, shown>>
    <3>1. group' = done.pos /\ notify' = notify \ {"group"} /\ mode # "cdc"
      BY <2>8 DEF CommitGroup, Told, FlowInv
    <3>2. group' <= Len(topic)
      BY <1>3, <3>1 DEF Input
    <3>3. group' \in 0 .. Len(topic') /\ polled <= Len(Input')
      BY <1>1, <1>3, <2>2, <3>1, <3>2
    <3> QED BY <2>3, <2>8, <3>1, <3>3 DEF FlowInv
  <2>9. CASE CommitChangelog \/ CommitCurrent
    <3>1. PICK s \in Sink : shown' = [shown EXCEPT ![s] = done.pos] /\ notify' = notify \ {s}
      BY <2>9 DEF CommitChangelog, CommitCurrent, Sink
    <3>2. UNCHANGED <<polled, done, group>>
      BY <2>9 DEF CommitChangelog, CommitCurrent, kafka
    <3>3. start <= done.pos
      BY <1>3, <3>1
    <3>4. shown' \in [Sink -> Nat] /\ \A t \in Sink : start <= shown'[t] /\ shown'[t] <= done.pos
      BY <1>3, <3>1, <3>3
    <3>5. polled <= Len(Input')
      BY <1>3, <2>2
    <3> QED BY <2>1, <2>3, <2>4, <3>1, <3>2, <3>4, <3>5 DEF FlowInv
  <2> QED BY <2>1, <2>5, <2>6, <2>7, <2>8, <2>9 DEF FlowSteps
<1>5. CASE Go /\ Moves
  <2> DEFINE op == Step.do
  <2>1. /\ Ready(drill, Step, P) /\ Allowed(drill, Step) /\ JobGoes /\ SeenGoes
        /\ (op \notin Notes => seen' = seen)
    BY <1>5, StepReady DEF Moves
  <2>2. seen'.timestamp = IF op = "choose_timestamp" THEN Len(topic) ELSE seen.timestamp
    BY <1>5, NotesMove DEF NotesGo
  <2>3. /\ seen'.timestamp \in 0 .. Len(topic')
        /\ drill = "offset_replay" => seen'.timestamp <= Events
    <3>1. CASE op = "choose_timestamp"
      <4>1. P.ver = 1
        BY <2>1, <3>1 DEF Ready, MayRead
      <4> QED BY <1>1, <2>2, <3>1, <4>1, TopicOfReplay
    <3>2. CASE op # "choose_timestamp"
      BY <1>1, <1>3, <2>2, <3>2 DEF FlowInv
    <3> QED BY <3>1, <3>2
  <2>4. CASE op \notin Submits
    <3>1. /\ UNCHANGED <<start, mode, polled, done, notify, held, shown>>
          /\ group' = IF op = "rewind_group" THEN 0 ELSE group
      BY <2>1, <2>4 DEF JobGoes
    <3>2. Len(Input) \in Nat /\ Len(Input') \in Nat /\ Len(Input) <= Len(Input')
      BY <3>1, InputGrows
    <3>3. polled <= Len(Input') /\ group' \in 0 .. Len(topic')
      BY <1>1, <1>3, <3>1, <3>2 DEF FlowInv
    <3> QED BY <1>2, <2>3, <3>1, <3>3 DEF FlowInv
  <2>5. CASE op \in Submits
    <3>1. /\ start' = CASE op = "submit_committed" -> group
                        [] op = "replay_timestamp" -> seen.timestamp
                        [] OTHER -> 0
          /\ mode' = CASE op = "submit_cdc" -> "cdc"
                       [] op \in {"submit", "submit_committed"} -> "kafka"
                       [] OTHER -> "replay"
          /\ polled' = start' /\ done' = [id |-> 0, pos |-> start']
          /\ notify' = {} /\ shown' = [s \in Sink |-> start'] /\ group' \in {0, group}
      BY <2>1, <2>5 DEF JobGoes
    <3>2. /\ op = "submit_cdc" => drill = "broker_parity"
          /\ op = "submit_committed" => drill \in {"duplicate_redelivery", "broker_slo"}
          /\ op = "replay_timestamp" => drill = "offset_replay"
      BY <2>1 DEF Ready, MayStart, Allowed
    <3>3. op = "submit_committed" => group = 0
      BY DEF GroupInv
    <3>4. /\ start' \in {0, group, seen.timestamp} /\ start' \in Nat
          /\ start' # 0 => op = "replay_timestamp" /\ start' = seen.timestamp
      BY <1>3, <3>1, <3>3
    <3>5. start' <= Len(topic)
      BY <1>1, <1>3, <3>4 DEF FlowInv
    <3>6. op = "submit_cdc" => start' = 0
      BY <3>1
    <3>7. mode' \in {"cdc", "kafka", "replay"} /\ (mode' = "cdc" => op = "submit_cdc")
      BY <3>1, <2>5 DEF Submits
    <3>8. Len(binlog') \in Nat
      <4>1. (ScriptInv /\ SourceInv => SourceFacts)'
        BY SourceType, PTL
      <4> QED BY <4>1 DEF SourceFacts
    <3>9. start' <= Len(Input')
      <4>1. CASE mode' = "cdc"
        BY <3>6, <3>7, <3>8, <4>1 DEF Input
      <4>2. CASE mode' # "cdc"
        BY <1>1, <3>4, <3>5, <4>2 DEF Input
      <4> QED BY <4>1, <4>2
    <3>10. done' \in Checkpoint /\ done'.pos = start'
      BY <3>1, <3>4 DEF Checkpoint
    <3>11. shown' \in [Sink -> Nat] /\ \A s \in Sink : start' <= shown'[s] /\ shown'[s] <= done'.pos
      BY <3>1, <3>4, <3>10
    <3>12. group' \in 0 .. Len(topic')
      BY <1>1, <1>3, <3>1 DEF FlowInv
    <3>13. /\ drill = "offset_replay" => start' <= Events
           /\ drill \in Single \cup Counted => start' = 0
      BY <1>2, <3>2, <3>4 DEF FlowInv, Single, Counted
    <3>14. start' <= start' /\ polled' \in Nat /\ notify' \subseteq Sink \cup {"group"}
           /\ "group" \notin notify' /\ done'.pos <= polled'
      BY <3>1, <3>4, <3>10
    <3>15. mode' = "cdc" => drill = "broker_parity"
      BY <3>2, <3>7
    <3>16. polled' <= Len(Input')
      BY <3>1, <3>9
    <3> QED BY <1>2, <2>3, <3>4, <3>7, <3>10, <3>11, <3>12, <3>13, <3>14, <3>15, <3>16
            DEF FlowInv
  <2> QED BY <2>4, <2>5
<1> QED BY <1>4, <1>5, NextCases

\* While no job runs, its tables and its dead letters stay what they are.
LEMMA Silent ==
  ASSUME Idles \/ Flows, job = "absent"
  PROVE  job' = "absent" /\ current' = current /\ changelog' = changelog /\ dlq' = dlq
<1>1. CASE Idles
  BY <1>1 DEF Idles, Rest
<1>2. CASE Flows
  BY <1>2 DEF Flows, InsertRow, Capture, Poll, CompleteCheckpoint, CommitGroup, CommitChangelog,
              CommitCurrent, Told, flink, tables, kafka
<1> QED BY <1>1, <1>2

LEMMA StateKeeps ==
  ASSUME ScriptInv, StateInv, [Next]_vars
  PROVE  StateInv'
<1>1. CASE Idles \/ Flows
  <2>1. F' = F
    BY <1>1, PhaseStays
  <2>2. job = "absent" =>
          job' = "absent" /\ current' = current /\ changelog' = changelog /\ dlq' = dlq
    BY <1>1, Silent
  <2>3. job = "RUNNING" => job' = "RUNNING" \/ cleaned'
    BY <1>1 DEF Idles, Flows, InsertRow, Capture, Poll, CompleteCheckpoint, CommitGroup,
                CommitChangelog, CommitCurrent, flink
  <2>4. cleaned => cleaned'
    BY <1>1 DEF Idles, Flows, harness
  <2> QED BY <2>1, <2>2, <2>3, <2>4 DEF StateInv
<1>2. CASE Go /\ Moves
  <2> DEFINE op == Step.do
  <2>1. /\ Ready(drill, Step, P) /\ JobGoes /\ WaitGoes /\ dlq' = dlq /\ cleaned' = cleaned
        /\ \A f \in F' : (f \in F /\ f \notin Lost(op)) \/ Learned(Step, P, f)
    BY <1>2, PhaseGoes, StepReady DEF Moves, TopicGoes, Go
  <2>2. /\ job' = IF op \in Submits THEN "STARTING" ELSE IF op = "cancel" THEN "CANCELING" ELSE job
        /\ current' = IF op = "reset_tables" THEN NoRows ELSE current
        /\ changelog' = IF op = "reset_tables" THEN <<>> ELSE changelog
    BY <2>1 DEF JobGoes
  <2>3. "gone" \in F' => job' = "absent"
    <3>1. "gone" \in F' => op \notin Submits /\ op # "cancel" /\ ("gone" \in F \/ op = "await_absent")
      BY <2>1 DEF Lost, Learned, OfTheJob, Submits
    <3> QED BY <2>1, <2>2, <3>1 DEF StateInv, WaitGoes
  <2>4. "running" \in F' /\ ~cleaned' => job' = "RUNNING"
    <3>1. "running" \in F' => op # "cancel" /\ ("running" \in F \/ op = "await_job")
      BY <2>1 DEF Lost, Learned
    <3>2. op \in Submits => "gone" \in F
      BY <2>1 DEF Ready, MayStart, F
    <3> QED BY <2>1, <2>2, <3>1, <3>2 DEF StateInv, WaitGoes, Submits
  <2>5. "fresh" \in F' => job' = "absent" /\ current' = NoRows /\ dlq' = 0
    <3>1. "fresh" \in F' => op \notin Submits /\ op # "cancel" /\ "fresh" \in F
      BY <2>1 DEF Lost, Learned, OfTheJob, Submits
    <3> QED BY <2>1, <2>2, <3>1 DEF StateInv
  <2>6. "blank" \in F' => job' = "absent" /\ current' = NoRows /\ changelog' = <<>>
    <3>1. "blank" \in F' => op \notin Submits /\ op # "cancel" /\ ("blank" \in F \/ op = "reset_tables")
      BY <2>1 DEF Lost, Learned, OfTheJob, Submits
    <3>2. op = "reset_tables" => "gone" \in F
      BY <2>1 DEF Ready, MayStart, F
    <3> QED BY <2>2, <3>1, <3>2 DEF StateInv
  <2> QED BY <2>3, <2>4, <2>5, <2>6 DEF StateInv
<1> QED BY <1>1, <1>2, NextCases

\* A non-empty set of numbers up to n has a greatest element: the last of several
\* changes is one of them.  It is where the distance to n is least.
LEMMA Greatest ==
  ASSUME NEW n \in Nat, NEW T, T \subseteq 0 .. n, T # {}
  PROVE  \E x \in T : \A y \in T : y <= x
<1> DEFINE mirror == {m \in Nat : \E x \in T : m + x = n}
<1>1. mirror # {} /\ mirror \subseteq Nat
  <2>1. PICK x \in T : TRUE
    OBVIOUS
  <2>2. n - x \in mirror
    BY <2>1
  <2> QED BY <2>2
<1>2. PICK m \in mirror : \A l \in mirror : <<l, m>> \notin OpToRel(<, Nat)
  <2> HIDE DEF mirror
  <2> QED BY <1>1, NatLessThanWellFounded, WFMin
<1>3. \A l \in mirror : ~(l < m)
  BY <1>2 DEF OpToRel
<1>4. PICK x \in T : m + x = n
  OBVIOUS
<1>5. ASSUME NEW y \in T PROVE y <= x
  <2>1. n - y \in mirror
    OBVIOUS
  <2> QED BY <1>3, <1>4, <2>1
<1> QED BY <1>5

\* A row is what it was, or what one of the records says.
LEMMA LatestOneOf ==
  ASSUME NEW records, NEW a \in Nat, NEW b \in Nat, NEW r, NEW before
  PROVE  \/ Latest(records, a .. b, r, before) = before
         \/ \E i \in a .. b : records[i].row = r
                              /\ Latest(records, a .. b, r, before) = records[i].version
<1> DEFINE of == {i \in a .. b : records[i].row = r}
<1>1. CASE of = {}
  BY <1>1 DEF Latest
<1>2. CASE of # {}
  <2>1. of \subseteq 0 .. b
    OBVIOUS
  <2>2. \E k \in of : \A j \in of : j <= k
    <3> HIDE DEF of
    <3> QED BY <1>2, <2>1, Greatest
  <2>3. PICK k \in of : \A j \in of : j <= k
    BY <2>2
  <2>4. PICK l \in a .. b : l = k
    BY <2>3
  <2>5. records[l].row = r
    BY <2>3, <2>4
  <2>6. \A j \in a .. b : records[j].row = r => j <= l
    BY <2>3, <2>4
  <2> HIDE DEF of
  <2>7. Latest(records, a .. b, r, before) = records[l].version
    BY <2>5, <2>6, LatestAt
  <2> QED BY <2>5, <2>7
<1> QED BY <1>1, <1>2

LastOf(records, a, b, r, k) ==
  records[k].row = r /\ \A j \in a .. b : records[j].row = r => j <= k
LEMMA LatestLast ==
  ASSUME NEW records, NEW a \in Nat, NEW b \in Nat, NEW r, NEW before, NEW k \in a .. b,
         LastOf(records, a, b, r, k)
  PROVE  Latest(records, a .. b, r, before) = records[k].version
<1>1. records[k].row = r
  BY DEF LastOf
<1>2. \A j \in a .. b : records[j].row = r => j <= k
  BY DEF LastOf
<1> QED BY <1>1, <1>2, LatestAt

\* Where nobody else writes to the topic, a job reads the binlog.
LEMMA PlainInput ==
  ASSUME ScriptInv, SourceInv, TopicInv, drill \in Untouched
  PROVE  Len(Input) <= Len(binlog) /\ \A i \in 1 .. Len(Input) : Input[i] = binlog[i]
<1>1. Len(binlog) \in Nat
  BY SourceType DEF SourceFacts
<1>2. /\ Len(topic) = captured /\ captured \in 0 .. Len(binlog)
      /\ \A i \in 1 .. captured : topic[i] = binlog[i]
  BY DEF TopicInv
<1> QED BY <1>1, <1>2 DEF Input

\* What a commit of the current table makes of a row.
CurrentGoes ==
  /\ held' \subseteq Row /\ (shown["current"] + 1 .. done.pos = {} => held' = {})
  /\ current' = [r \in Row |-> current'[r]]
  /\ \A r \in Row :
       \/ current'[r] = current[r]
       \/ \E i \in start + 1 .. done.pos : Input[i].row = r /\ current'[r] = Input[i].version
  /\ \A r \in Row :
       r \in held' \/ current'[r] = Latest(Input, start + 1 .. done.pos, r, current[r])

LEMMA CurrentMoves ==
  ASSUME FlowInv, CommitCurrent PROVE CurrentGoes
<1> DEFINE range == shown["current"] + 1 .. done.pos
           changed == {r \in Row : \E i \in range : Input[i].row = r}
           earlier(r) == {current[r]} \cup
                           {Input[i].version : i \in {j \in range : Input[j].row = r}}
           latest(r) == Latest(Input, start + 1 .. done.pos, r, current[r])
<1>1. /\ start \in Nat /\ done.pos \in Nat /\ shown["current"] \in Nat
      /\ start <= shown["current"]
  BY DEF FlowInv, Checkpoint, Sink
<1>2. PICK h \in SUBSET (IF mode = "replay" THEN changed \ held ELSE {}) :
        \E stale \in [h -> Version] :
          /\ \A r \in h : stale[r] \in earlier(r)
          /\ held' = h
          /\ current' = [r \in Row |-> IF r \in h THEN stale[r] ELSE latest(r)]
  BY DEF CommitCurrent
<1>3. PICK stale \in [h -> Version] :
          /\ \A r \in h : stale[r] \in earlier(r)
          /\ held' = h
          /\ current' = [r \in Row |-> IF r \in h THEN stale[r] ELSE latest(r)]
  BY <1>2
<1>4. h \subseteq changed /\ h \subseteq Row
  BY <1>2
<1>5. range = {} => h = {}
  BY <1>4
<1>6. current' = [r \in Row |-> current'[r]]
  BY <1>3
<1>7. range \subseteq start + 1 .. done.pos
  BY <1>1
<1>8. ASSUME NEW r \in Row
      PROVE  \/ current'[r] = current[r]
             \/ \E i \in start + 1 .. done.pos :
                  Input[i].row = r /\ current'[r] = Input[i].version
  <2>1. CASE r \in h
    <3>1. current'[r] \in earlier(r)
      BY <1>3, <2>1
    <3> QED BY <1>7, <3>1
  <2>2. CASE r \notin h
    <3>1. current'[r] = latest(r)
      BY <1>3, <2>2
    <3>2. start + 1 \in Nat
      BY <1>1
    <3>3. \/ latest(r) = current[r]
          \/ \E i \in start + 1 .. done.pos : Input[i].row = r /\ latest(r) = Input[i].version
      BY <1>1, <3>2, LatestOneOf
    <3> QED BY <3>1, <3>3
  <2> QED BY <2>1, <2>2
<1>9. \A r \in Row : r \in held' \/ current'[r] = latest(r)
  BY <1>3
<1> QED BY <1>3, <1>4, <1>5, <1>6, <1>8, <1>9 DEF CurrentGoes

\* The records a commit publishes.
LEMMA Published ==
  ASSUME ScriptInv, SourceInv, TopicInv, FlowInv, NEW i \in start + 1 .. done.pos
  PROVE  /\ i \in Nat /\ i > 0 /\ i \in 1 .. Len(Input)
         /\ Input[i].row # 0 =>
              Input[i].row \in 1 .. R /\ Input[i].version \in 1 .. P.ver
<1>1. /\ start \in Nat /\ done.pos \in Nat /\ polled \in Nat /\ done.pos <= polled
      /\ polled <= Len(Input)
  BY DEF FlowInv, Checkpoint
<1>2. InputFacts
  BY InputRows
<1>3. i \in 1 .. Len(Input)
  BY <1>1, <1>2 DEF InputFacts
<1> QED BY <1>1, <1>2, <1>3 DEF InputFacts, Poison

\* Of a source that was updated, a table that is full was shown all of it.
LEMMA StaysFull ==
  ASSUME ScriptInv, SourceInv, TopicInv, FlowInv, TableInv, "full" \in F, CurrentGoes
  PROVE  current' = current
<1>1. /\ R \in Nat /\ P.ver \in {1, 2} /\ SourceTable = RowsOf(R, P.ver) /\ Events \in Nat
      /\ R = P.due - toInsert /\ P.due \in Nat /\ Len(binlog) \in Nat
  BY SourceType DEF SourceFacts
<1>2. toInsert = 0 /\ current = RowsOf(R, P.ver)
  BY <1>1 DEF TableInv
<1>3. \A r \in Row : r \in Nat /\ r > 0 /\ current[r] = IF r <= R THEN P.ver ELSE 0
  BY <1>2 DEF RowsOf, Row
<1>4. ASSUME NEW r \in Row, current'[r] # current[r] PROVE FALSE
  <2>1. PICK i \in start + 1 .. done.pos : Input[i].row = r /\ current'[r] = Input[i].version
    BY <1>4 DEF CurrentGoes
  <2>2. i \in 1 .. Len(Input) /\ r \in 1 .. R /\ Input[i].version \in 1 .. P.ver
    BY <1>3, <2>1, Published
  <2>3. r <= R /\ current[r] = P.ver
    BY <1>3, <2>2
  <2>4. CASE P.ver = 1
    BY <1>4, <2>1, <2>2, <2>3, <2>4
  <2>5. CASE P.ver = 2
    <3>1. drill = "offset_replay"
      BY <2>5 DEF SourceInv
    <3>2. Len(Input) <= Len(binlog) /\ \A j \in 1 .. Len(Input) : Input[j] = binlog[j]
      BY <3>1, PlainInput DEF Untouched
    <3>3. Len(binlog) = R + R /\ InputFacts
      BY <2>5, SourceType, InputRows DEF SourceFacts
    <3>4. /\ start \in Nat /\ done.pos \in Nat /\ polled \in Nat /\ done.pos <= polled
          /\ polled <= Len(Input) /\ shown["current"] \in Nat /\ shown["current"] <= done.pos
          /\ start <= Events /\ Len(Input) \in Nat
      BY <3>1, <3>3 DEF FlowInv, Checkpoint, Sink, InputFacts
    <3>5. R \in Row /\ R >= 1
      <4>1. R >= 1 /\ R <= Events + 2
        BY <1>1, <2>2, SourceType DEF SourceFacts
      <4> QED BY <1>1, <4>1 DEF Row
    <3>6. current[R] = 2
      BY <1>3, <2>5, <3>5
    <3>7. R + R <= shown["current"]
      BY <3>1, <3>5, <3>6 DEF TableInv
    <3>8. done.pos = R + R
      BY <1>1, <3>2, <3>3, <3>4, <3>7
    <3>9. shown["current"] + 1 .. done.pos = {}
      BY <1>1, <3>4, <3>7, <3>8
    <3>10. held' = {}
      BY <3>9 DEF CurrentGoes
    <3>11. current'[r] = Latest(Input, start + 1 .. done.pos, r, current[r])
      BY <3>10 DEF CurrentGoes
    <3>12. PICK k \in Nat : k = R + r
      BY <1>1, <1>3
    <3>13. P.due >= Events
      BY <1>1, <1>2, <3>5 DEF SourceInv
    <3>20. r \in Nat /\ r > 0 /\ r <= R /\ start <= R
      BY <1>1, <1>2, <1>3, <2>3, <3>4, <3>13
    <3>26. start + 1 \in Nat /\ k > R /\ k - R = r /\ k <= R + R
      BY <1>1, <3>4, <3>12, <3>20
    <3>27. start + 1 <= k
      BY <1>1, <3>4, <3>12, <3>20
    <3>28. k \in start + 1 .. done.pos
      BY <3>4, <3>8, <3>12, <3>26, <3>27
    <3>14. start + 1 \in Nat /\ k \in start + 1 .. done.pos /\ k > R /\ k - R = r /\ k <= R + R
      BY <3>26, <3>28
    <3>15. k \in 1 .. Len(Input) /\ k \in 1 .. Len(binlog)
      BY <3>3, <3>14, Published
    <3>16. binlog[k] = [row |-> k - R, version |-> 2]
      BY <3>14, <3>15, SourceType DEF SourceFacts
    <3>17. Input[k].row = r /\ Input[k].version = 2
      BY <3>2, <3>14, <3>15, <3>16
    <3>18. ASSUME NEW j \in start + 1 .. done.pos PROVE j <= k \/ Input[j].row # r
      <4>1. j \in 1 .. Len(Input) /\ j \in 1 .. Len(binlog) /\ j \in Nat
        <5>1. j \in 1 .. Len(Input) /\ j \in Nat
          BY Published
        <5> QED BY <1>1, <3>2, <3>4, <5>1
      <4>2. CASE j <= R
        BY <1>1, <3>14, <4>1, <4>2
      <4>3. CASE j > R
        <5>1. binlog[j] = [row |-> j - R, version |-> 2]
          BY <4>1, <4>3, SourceType DEF SourceFacts
        <5>2. Input[j].row = j - R
          BY <3>2, <4>1, <5>1
        <5> QED BY <1>1, <3>12, <4>1, <5>2
      <4> QED BY <1>1, <4>1, <4>2, <4>3
    <3>21. PICK a \in Nat : a = start + 1
      BY <3>14
    <3>22. PICK l \in a .. done.pos : l = k
      BY <3>14, <3>21
    <3>23. \A j \in a .. done.pos : Input[j].row = r => j <= l
      BY <3>18, <3>21, <3>22
    <3>24. Input[l].row = r
      BY <3>17, <3>22
    <3>29. done.pos \in Nat
      BY <3>4
    <3>30. LastOf(Input, a, done.pos, r, l)
      BY <3>23, <3>24 DEF LastOf
    <3>25. Latest(Input, a .. done.pos, r, current[r]) = Input[l].version
      BY <3>29, <3>30, LatestLast
    <3>19. Latest(Input, start + 1 .. done.pos, r, current[r]) = Input[k].version
      BY <3>21, <3>22, <3>25
    <3> QED BY <1>4, <2>3, <2>5, <3>11, <3>17, <3>19
  <2> QED BY <1>1, <2>4, <2>5
<1>5. current = [r \in Row |-> current[r]]
  BY DEF TableInv, Table
<1> QED BY <1>4, <1>5 DEF CurrentGoes

\* A table that has as many rows as the source, none of them new, has all of them.
LEMMA AllArrived ==
  ASSUME ScriptInv, SourceInv, TableInv, toInsert = 0, P.ver = 1,
         Cardinality(Present(current)) = P.due
  PROVE  current = SourceTable
<1>1. /\ R \in Nat /\ R = P.due - toInsert /\ P.due \in Nat /\ SourceTable = RowsOf(R, P.ver)
  BY SourceType DEF SourceFacts
<1>2. \A r \in Row : r \in Nat /\ r > 0 /\ current[r] \in Nat
                     /\ (current[r] # 0 => r <= R /\ current[r] <= 1)
  BY DEF TableInv, Table, Version, Row
<1>3. Present(current) \subseteq 1 .. R
  BY <1>1, <1>2 DEF Present
<1>4. IsFiniteSet(1 .. R) /\ Cardinality(1 .. R) = R
  BY <1>1, FS_Interval
<1>5. Cardinality(Present(current)) = Cardinality(1 .. R)
  BY <1>1, <1>4
<1>6. Present(current) = 1 .. R
  BY <1>3, <1>4, <1>5, FS_Subset
<1>7. \A r \in Row : current[r] = IF r <= R THEN 1 ELSE 0
  BY <1>1, <1>2, <1>6 DEF Present
<1>8. current = [r \in Row |-> IF r <= R THEN 1 ELSE 0]
  BY <1>7 DEF TableInv, Table
<1> QED BY <1>1, <1>8 DEF RowsOf

LEMMA TableKeeps ==
  ASSUME ScriptInv, SourceInv, TopicInv, FlowInv, StateInv, TableInv, ReadInv,
         ScriptInv', SourceInv', [Next]_vars
  PROVE  TableInv'
<1>1. /\ R \in Nat /\ R' \in Nat /\ R <= R' /\ P.ver \in {1, 2} /\ P'.ver \in {1, 2}
      /\ P.ver <= P'.ver /\ drill' = drill /\ (P.ver = 2 => R' = R)
  <2>1. (ScriptInv /\ SourceInv => SourceFacts)'
    BY SourceType, PTL
  <2> QED BY <2>1, SourceGrows, SourceType DEF SourceFacts
<1>2. \A r \in Row : r \in Nat /\ r > 0 /\ current[r] \in {0, 1, 2}
  BY DEF TableInv, Table, Version, Row
<1>3. ASSUME NEW r \in Row, current[r] # 0 PROVE r <= R' /\ current[r] <= P'.ver
  <2>1. r <= R /\ current[r] <= P.ver
    BY <1>3 DEF TableInv
  <2> QED BY <1>1, <1>2, <2>1
<1>4. ASSUME drill = "offset_replay", NEW r \in Row, current[r] = 2
      PROVE  R' + r <= shown["current"]
  <2>1. current[r] <= P.ver /\ R + r <= shown["current"]
    BY <1>4 DEF TableInv
  <2>2. R' = R
    BY <1>1, <1>4, <2>1
  <2> QED BY <2>1, <2>2
<1>5. /\ start \in Nat /\ done.pos \in Nat /\ shown["current"] \in Nat
      /\ start <= shown["current"] /\ shown["current"] <= done.pos
  BY DEF FlowInv, Checkpoint, Sink
<1>6. ASSUME current' = current, held' \subseteq Row,
             shown["current"] <= shown'["current"], shown'["current"] \in Nat,
             "full" \in F' => toInsert' = 0 /\ current' = SourceTable'
      PROVE  TableInv'
  <2>1. drill = "offset_replay" =>
          \A r \in Row : current[r] = 2 => R' + r <= shown'["current"]
    BY <1>1, <1>2, <1>4, <1>5, <1>6
  <2>2. drill \in Single /\ current # NoRows => shown'["current"] > 0
    BY <1>5, <1>6 DEF TableInv
  <2>3. drill = "schema_contract" => \A r \in Row : current[r] # 0 => r <= shown'["current"]
    BY <1>2, <1>5, <1>6 DEF TableInv
  <2> QED BY <1>1, <1>3, <1>6, <2>1, <2>2, <2>3 DEF TableInv
<1>7. ASSUME current' = NoRows, held' \subseteq Row,
             "full" \in F' => toInsert' = 0 /\ current' = SourceTable'
      PROVE  TableInv'
  <2>1. NoRows \in Table /\ \A r \in Row : NoRows[r] = 0
    BY DEF NoRows, Table, Version
  <2> QED BY <1>7, <2>1 DEF TableInv
<1>8. CASE Idles
  <2>1. /\ current' = current /\ held' = held /\ shown' = shown /\ F' = F
    BY <1>8, PhaseStays DEF Idles, Rest
  <2>2. "full" \in F' => toInsert' = 0 /\ current' = SourceTable'
    BY <1>8, <2>1, SourceSame DEF TableInv
  <2>3. held' \subseteq Row
    BY <2>1 DEF TableInv
  <2> QED BY <1>5, <1>6, <2>1, <2>2, <2>3
<1>9. CASE Flows /\ ~CommitCurrent
  <2>1. /\ current' = current /\ held' = held /\ F' = F
        /\ shown'["current"] = shown["current"]
    <3>1. F' = F
      BY <1>9, PhaseStays
    <3>2. ASSUME CommitChangelog
          PROVE  current' = current /\ held' = held /\ shown'["current"] = shown["current"]
      BY <3>2 DEF CommitChangelog, FlowInv, Sink
    <3>3. ASSUME InsertRow \/ Capture \/ Poll \/ CompleteCheckpoint \/ CommitGroup
          PROVE  current' = current /\ held' = held /\ shown' = shown
      BY <3>3 DEF InsertRow, Capture, Poll, CompleteCheckpoint, CommitGroup, flink, tables
    <3> QED BY <1>9, <3>1, <3>2, <3>3 DEF Flows
  <2>2. "full" \in F' => toInsert' = 0 /\ current' = SourceTable'
    BY <1>9, <2>1, SourceSame DEF TableInv
  <2>3. held' \subseteq Row
    BY <2>1 DEF TableInv
  <2> QED BY <1>5, <1>6, <2>1, <2>2, <2>3
<1>10. CASE Flows /\ CommitCurrent
  <2>1. CurrentGoes
    BY <1>10, CurrentMoves
  <2>2. F' = F /\ P' = P /\ shown'["current"] = done.pos
    <3>1. F' = F /\ P' = P
      BY <1>10, PhaseStays
    <3>2. shown'["current"] = done.pos
      BY <1>10 DEF CommitCurrent, FlowInv, Sink
    <3> QED BY <3>1, <3>2
  <2>3. R' = R
    BY <1>10, <2>2 DEF CommitCurrent, source, R
  <2>4. \A r \in Row :
          \/ current'[r] = current[r]
          \/ \E i \in start + 1 .. done.pos : Input[i].row = r /\ current'[r] = Input[i].version
    BY <2>1 DEF CurrentGoes
  <2>5. ASSUME NEW i \in start + 1 .. done.pos, Input[i].row \in Row
        PROVE  /\ i \in Nat /\ i > 0 /\ i <= done.pos /\ i \in 1 .. Len(Input)
               /\ Input[i].row <= R /\ Input[i].version \in 1 .. P.ver
    <3>1. Input[i].row # 0
      BY <1>2, <2>5
    <3>2. i \in Nat /\ i > 0 /\ i <= done.pos
      BY <1>5
    <3> QED BY <1>1, <3>1, <3>2, Published
  <2>6. ASSUME NEW r \in Row
        PROVE  /\ current'[r] \in {0, 1, 2}
               /\ current'[r] # 0 => r <= R /\ current'[r] <= P.ver
    <3>1. CASE current'[r] = current[r]
      BY <1>2, <3>1 DEF TableInv
    <3>2. CASE current'[r] # current[r]
      <4>1. PICK i \in start + 1 .. done.pos : Input[i].row = r /\ current'[r] = Input[i].version
        BY <2>4, <3>2
      <4>2. r <= R /\ current'[r] \in 1 .. P.ver
        BY <2>5, <4>1
      <4> QED BY <1>1, <4>2
    <3> QED BY <3>1, <3>2
  <2>7. ASSUME drill = "offset_replay", NEW r \in Row, current'[r] = 2
        PROVE  R + r <= done.pos
    <3>1. CASE current'[r] = current[r]
      <4>1. R + r <= shown["current"]
        BY <2>7, <3>1 DEF TableInv
      <4> QED BY <1>1, <1>2, <1>5, <4>1
    <3>2. CASE current'[r] # current[r]
      <4>1. PICK i \in start + 1 .. done.pos : Input[i].row = r /\ current'[r] = Input[i].version
        BY <2>4, <3>2
      <4>2. i \in Nat /\ i > 0 /\ i <= done.pos /\ i \in 1 .. Len(Input)
        BY <2>5, <4>1
      <4>3. Len(Input) <= Len(binlog) /\ Input[i] = binlog[i]
        BY <2>7, <4>2, PlainInput DEF Untouched
      <4>4. i \in 1 .. Len(binlog)
        <5>1. Len(Input) \in Nat /\ Len(binlog) \in Nat
          BY InputRows, SourceType DEF InputFacts, SourceFacts
        <5> QED BY <4>2, <4>3, <5>1
      <4>5. i > R /\ binlog[i] = [row |-> i - R, version |-> 2]
        <5>1. i <= R => binlog[i] = [row |-> i, version |-> 1]
          BY <4>4, SourceType DEF SourceFacts
        <5>2. i > R
          <6>1. CASE i <= R
            BY <2>7, <4>1, <4>3, <5>1, <6>1
          <6> QED BY <1>1, <4>2, <6>1
        <5>3. binlog[i] = [row |-> i - R, version |-> 2]
          BY <4>4, <5>2, SourceType DEF SourceFacts
        <5> QED BY <5>2, <5>3
      <4>6. r = i - R
        BY <4>1, <4>3, <4>5
      <4> QED BY <1>1, <4>2, <4>6
    <3> QED BY <3>1, <3>2
  <2>8. ASSUME drill \in Single, current' # NoRows PROVE done.pos > 0
    <3>1. PICK r \in Row : current'[r] # 0
      BY <2>1, <2>8 DEF CurrentGoes, NoRows
    <3>2. CASE current'[r] = current[r]
      <4>1. current # NoRows
        BY <3>1, <3>2 DEF NoRows
      <4> QED BY <1>5, <2>8, <4>1 DEF TableInv
    <3>3. CASE current'[r] # current[r]
      <4>1. PICK i \in start + 1 .. done.pos : Input[i].row = r
        BY <2>4, <3>3
      <4> QED BY <1>5, <4>1
    <3> QED BY <3>2, <3>3
  <2>9. ASSUME drill = "schema_contract", NEW r \in Row, current'[r] # 0 PROVE r <= done.pos
    <3>1. CASE current'[r] = current[r]
      <4>1. r <= shown["current"]
        BY <2>9, <3>1 DEF TableInv
      <4> QED BY <1>2, <1>5, <4>1
    <3>2. CASE current'[r] # current[r]
      <4>1. PICK i \in start + 1 .. done.pos : Input[i].row = r /\ current'[r] = Input[i].version
        BY <2>4, <3>2
      <4>2. i \in Nat /\ i > 0 /\ i <= done.pos /\ i \in 1 .. Len(Input)
        BY <2>5, <4>1
      <4>3. Len(Input) <= Len(binlog) /\ Input[i] = binlog[i]
        BY <2>9, <4>2, PlainInput DEF Untouched
      <4>4. i \in 1 .. Len(binlog)
        <5>1. Len(Input) \in Nat /\ Len(binlog) \in Nat
          BY InputRows, SourceType DEF InputFacts, SourceFacts
        <5> QED BY <4>2, <4>3, <5>1
      <4>5. P.ver = 1
        BY <1>1, <2>9 DEF SourceInv
      <4>6. i <= R
        BY <1>1, <4>4, <4>5, SourceType DEF SourceFacts
      <4>7. binlog[i] = [row |-> i, version |-> 1]
        BY <4>4, <4>6, SourceType DEF SourceFacts
      <4>8. r = i
        BY <4>1, <4>3, <4>7
      <4> QED BY <4>2, <4>8
    <3> QED BY <3>1, <3>2
  <2>10. "full" \in F' => toInsert' = 0 /\ current' = SourceTable'
    <3>1. SUFFICES ASSUME "full" \in F PROVE toInsert' = 0 /\ current' = SourceTable'
      BY <2>2
    <3>2. current' = current
      BY <2>1, <3>1, StaysFull
    <3> QED BY <1>10, <3>1, <3>2, SourceSame DEF TableInv
  <2>11. held' \subseteq Row /\ current' \in Table
    BY <2>1, <2>6 DEF CurrentGoes, Table, Version
  <2> QED BY <1>1, <2>2, <2>3, <2>6, <2>7, <2>8, <2>9, <2>10, <2>11 DEF TableInv
<1>11. CASE Go /\ Moves
  <2> DEFINE op == Step.do
  <2>1. /\ Ready(drill, Step, P) /\ JobGoes /\ WaitGoes
        /\ \A f \in F' : (f \in F /\ f \notin Lost(op)) \/ Learned(Step, P, f)
    BY <1>11, PhaseGoes, StepReady DEF Moves
  <2>2. current' = IF op = "reset_tables" THEN NoRows ELSE current
    BY <2>1 DEF JobGoes
  <2>3. op # "reset_tables" /\ toInsert = 0 /\ current = SourceTable /\ op \notin Writes
          => toInsert' = 0 /\ current' = SourceTable'
    BY <1>11, <2>2, SourceSame
  <2>4. "full" \in F' => toInsert' = 0 /\ current' = SourceTable'
    <3>1. CASE "full" \in F /\ "full" \notin Lost(op)
      <4>1. op # "reset_tables" /\ op \notin Writes
        BY <3>1 DEF Lost
      <4> QED BY <2>3, <3>1, <4>1 DEF TableInv
    <3>2. CASE Learned(Step, P, "full")
      <4>1. op \in {"await_rows", "await_convergence", "await_original"}
        BY <3>2 DEF Learned
      <4>2. /\ "idle" \in F
            /\ op = "await_rows" => Step.n = P.due /\ P.ver = 1
            /\ op = "await_original" => "orig" \in F
        BY <2>1, <4>1 DEF Ready, MayRead, F
      <4>3. toInsert = 0
        BY <4>2 DEF SourceInv
      <4>4. current = SourceTable
        <5>1. CASE op = "await_rows"
          <6>1. Cardinality(Present(current)) = P.due
            BY <2>1, <4>2, <5>1 DEF WaitGoes
          <6> QED BY <4>2, <4>3, <5>1, <6>1, AllArrived
        <5>2. CASE op = "await_convergence"
          BY <2>1, <5>2 DEF WaitGoes
        <5>3. CASE op = "await_original"
          BY <2>1, <4>2, <5>3 DEF WaitGoes, ReadInv
        <5> QED BY <4>1, <5>1, <5>2, <5>3
      <4> QED BY <2>3, <4>1, <4>3, <4>4 DEF Writes, Starts
    <3>3. CASE "full" \notin F'
      BY <3>3
    <3> QED BY <2>1, <3>1, <3>2, <3>3
  <2>5. CASE op = "reset_tables"
    <3>1. held' = held
      BY <2>1, <2>5 DEF JobGoes, Submits
    <3>2. held' \subseteq Row
      BY <3>1 DEF TableInv
    <3> QED BY <1>7, <2>2, <2>4, <2>5, <3>2
  <2>6. CASE op \in Submits
    <3>1. held' \subseteq Row /\ current' = current
      BY <2>1, <2>2, <2>6 DEF JobGoes, Submits
    <3>2. drill \in Single \cup {"offset_replay"} => current = NoRows
      <4>1. /\ drill = "offset_replay" => "blank" \in F
            /\ drill \in Single => "fresh" \in F
        BY <2>1, <2>6 DEF Ready, MayStart, F
      <4> QED BY <4>1 DEF StateInv
    <3>3. CASE drill \in Single \cup {"offset_replay"}
      BY <1>7, <2>4, <3>1, <3>2, <3>3
    <3>4. CASE drill \notin Single \cup {"offset_replay"}
      BY <1>1, <1>3, <2>4, <3>1, <3>4 DEF TableInv, Single
    <3> QED BY <3>3, <3>4
  <2>7. CASE op \notin Submits \cup {"reset_tables"}
    <3>1. held' = held /\ shown' = shown
      BY <2>1, <2>7 DEF JobGoes
    <3>2. held' \subseteq Row
      BY <3>1 DEF TableInv
    <3> QED BY <1>5, <1>6, <2>2, <2>4, <2>7, <3>1, <3>2
  <2> QED BY <2>5, <2>6, <2>7
<1> QED BY <1>8, <1>9, <1>10, <1>11, NextCases

-----------------------------------------------------------------------------
(* What the drill has read. *)

NotesInv == seen \in Seen /\ link \in Link

LEMMA SeenIsShaped == seen \in Seen => SeenShape
BY DEF Seen, SeenShape, Noted

\* The counts of a changelog are numbers.
LEMMA LogCounts ==
  ASSUME changelog \in Seq(Record \cup {Poison})
  PROVE  LogRows \in Nat /\ Repeats \in Nat
<1> DEFINE image == {changelog[i] : i \in Logged}
           f == [i \in Logged |-> changelog[i]]
<1>1. IsFiniteSet(Logged) /\ LogRows \in Nat
  <2>1. Logged \in SUBSET (1 .. Len(changelog)) /\ Len(changelog) \in Nat
    BY DEF Logged
  <2>2. IsFiniteSet(1 .. Len(changelog))
    BY <2>1, FS_Interval
  <2>3. IsFiniteSet(Logged)
    BY <2>1, <2>2, FS_Subset
  <2> QED BY <2>3, FS_CardinalityType DEF LogRows
<1>2. f \in Surjection(Logged, image)
  BY DEF Surjection
<1>3. IsFiniteSet(image) /\ Cardinality(image) <= Cardinality(Logged)
  <2> HIDE DEF image, f
  <2> QED BY <1>1, <1>2, FS_Surjection
<1>4. Cardinality(image) \in Nat
  BY <1>3, FS_CardinalityType
<1>5. Repeats = LogRows - Cardinality(image)
  BY DEF Repeats
<1> HIDE DEF image
<1> QED BY <1>1, <1>3, <1>4, <1>5 DEF LogRows

LEMMA NotesKeep ==
  ASSUME ScriptInv, SourceInv, TopicInv, FlowInv, TableInv, NotesInv,
         changelog \in Seq(Record \cup {Poison}), [Next]_vars
  PROVE  NotesInv'
<1>1. CASE Idles \/ Flows
  BY <1>1, JobFlows DEF NotesInv
<1>2. CASE Go /\ Moves
  <2> DEFINE op == Step.do
  <2>1. /\ SeenShape' /\ NotesGo
        /\ link' = IF op = "read_snapshots"
                   THEN [checkpoint |-> seen.checkpoint, offsets |-> seen.offsets,
                         table |-> current]
                   ELSE IF op = "cancel" THEN NoLink ELSE link
    BY <1>2, NotesMove, SeenIsShaped DEF NotesInv, Moves, SeenGoes
  <2>2. /\ done \in Checkpoint /\ NoCheckpoint \in Checkpoint /\ group \in Nat
        /\ Len(topic) \in Nat /\ current \in Table /\ LogRows \in Nat /\ Repeats \in Nat
    BY LogCounts DEF FlowInv, TopicInv, TableInv, Checkpoint, NoCheckpoint
  <2>3. SourceTable \in Table /\ NoRows \in Table
    <3>1. SourceTable = RowsOf(R, P.ver) /\ P.ver \in {1, 2}
      BY SourceType DEF SourceFacts
    <3> QED BY <3>1 DEF RowsOf, Table, Version, NoRows
  <2>4. Backward("event_id_as_string") \in BOOLEAN
    BY DEF Backward
  <2>5. /\ seen.checkpoint \in Checkpoint /\ seen.before \in Checkpoint /\ seen.after \in Checkpoint
        /\ seen.offsets \in Nat /\ seen.offsetsBefore \in Nat /\ seen.timestamp \in Nat
        /\ seen.source \in Table /\ seen.table \in Table /\ seen.original \in Table
        /\ seen.audited \in BOOLEAN /\ seen.rows \in Nat /\ seen.repeats \in Nat
        /\ seen.records \in Nat /\ seen.accepted \in BOOLEAN
    BY DEF NotesInv, Seen
  <2>6. link' \in Link
    BY <2>1, <2>2, <2>3, <2>5 DEF NotesInv, Link, NoLink
  <2>7. /\ seen'.checkpoint \in Checkpoint /\ seen'.before \in Checkpoint
        /\ seen'.after \in Checkpoint
        /\ seen'.offsets \in Nat /\ seen'.offsetsBefore \in Nat /\ seen'.timestamp \in Nat
        /\ seen'.rows \in Nat /\ seen'.repeats \in Nat /\ seen'.records \in Nat
    BY <2>1, <2>2, <2>5 DEF NotesGo
  <2>8. /\ seen'.source \in Table /\ seen'.table \in Table /\ seen'.original \in Table
    BY <2>1, <2>2, <2>3, <2>5 DEF NotesGo
  <2>9. seen'.audited \in BOOLEAN /\ seen'.accepted \in BOOLEAN
    <3>1. seen'.audited \in BOOLEAN
      BY <2>1, <2>5 DEF NotesGo
    <3>2. seen'.accepted \in BOOLEAN
      BY <2>1, <2>4, <2>5 DEF NotesGo
    <3> QED BY <3>1, <3>2
  <2>10. seen' \in Seen
    BY <2>1, <2>7, <2>8, <2>9 DEF SeenShape, Noted, Seen
  <2> QED BY <2>6, <2>10 DEF NotesInv
<1> QED BY <1>1, <1>2, NextCases

\* What it has read of the tables is what they are.
LEMMA ReadKeeps ==
  ASSUME ScriptInv, SourceInv, TableInv, NotesInv, ReadInv, [Next]_vars
  PROVE  ReadInv'
<1>1. CASE Idles \/ Flows
  <2>1. F' = F /\ seen' = seen
    BY <1>1, JobFlows, PhaseStays
  <2>2. toInsert = 0 => toInsert' = 0 /\ SourceTable' = SourceTable
    BY <1>1, SourceSame
  <2> QED BY <2>1, <2>2 DEF ReadInv
<1>2. CASE Go /\ Moves
  <2> DEFINE op == Step.do
  <2>1. /\ Ready(drill, Step, P)
        /\ \A f \in F' : (f \in F /\ f \notin Lost(op)) \/ Learned(Step, P, f)
    BY <1>2, PhaseGoes, StepReady
  <2>2. NotesGo
    BY <1>2, NotesMove, SeenIsShaped DEF NotesInv
  <2>3. toInsert = 0 /\ op \notin Writes => toInsert' = 0 /\ SourceTable' = SourceTable
    BY <1>2, SourceSame
  <2>4. "src" \in F' => toInsert' = 0 /\ seen'.source = SourceTable'
    <3>1. "src" \in F' => op \notin Writes /\ ("src" \in F \/ op = "read_source")
      BY <2>1 DEF Lost, Learned, Writes, Starts
    <3>2. op = "read_source" => toInsert = 0
      BY <2>1 DEF Ready, MayRead, F, SourceInv
    <3>3. "src" \in F' => toInsert = 0
      BY <3>1, <3>2 DEF ReadInv
    <3>4. seen'.source = IF op = "read_source" THEN SourceTable ELSE seen.source
      BY <2>2 DEF NotesGo
    <3> QED BY <2>3, <3>1, <3>3, <3>4 DEF ReadInv
  <2>5. "tab" \in F' => toInsert' = 0 /\ seen'.table = SourceTable'
    <3>1. "tab" \in F' => op \notin Writes /\ ("tab" \in F \/ op = "read_table")
      BY <2>1 DEF Lost, Learned, Writes, Starts
    <3>2. op = "read_table" => toInsert = 0 /\ current = SourceTable
      BY <2>1 DEF Ready, MayRead, F, TableInv
    <3>3. "tab" \in F' => toInsert = 0
      BY <3>1, <3>2 DEF ReadInv
    <3>4. seen'.table = IF op = "read_table" THEN current ELSE seen.table
      BY <2>2 DEF NotesGo
    <3> QED BY <2>3, <3>1, <3>2, <3>3, <3>4 DEF ReadInv
  <2>6. "orig" \in F' => toInsert' = 0 /\ seen'.original = SourceTable'
    <3>1. "orig" \in F' => op \notin Writes /\ ("orig" \in F \/ op = "remember_original")
      BY <2>1 DEF Lost, Learned, Writes, Starts
    <3>2. op = "remember_original" => "tab" \in F
      BY <2>1 DEF Ready, MayRead, F
    <3>3. "orig" \in F' => toInsert = 0
      BY <3>1, <3>2 DEF ReadInv
    <3>4. seen'.original = IF op = "remember_original" THEN seen.table ELSE seen.original
      BY <2>2 DEF NotesGo
    <3> QED BY <2>3, <3>1, <3>2, <3>3, <3>4 DEF ReadInv
  <2>7. "aud" \in F' => seen'.audited
    <3>1. "aud" \in F' => "aud" \in F \/ op \in {"audit", "keep"}
      BY <2>1 DEF Learned
    <3>2. CASE op = "audit"
      <4>1. current = SourceTable
        BY <2>1, <3>2 DEF Ready, MayRead, F, TableInv
      <4>2. seen'.audited = (current = SourceTable)
        BY <2>2, <3>2 DEF NotesGo
      <4> QED BY <4>1, <4>2
    <3>3. CASE op = "keep"
      <4>1. seen.table = seen.source
        BY <2>1, <3>3 DEF Ready, MayRead, F, ReadInv
      <4>2. seen'.audited = (seen.table = seen.source)
        BY <2>2, <3>3 DEF NotesGo
      <4> QED BY <4>1, <4>2
    <3>4. CASE op \notin {"audit", "keep"}
      <4>1. seen'.audited = seen.audited
        BY <2>2, <3>4 DEF NotesGo
      <4> QED BY <3>1, <3>4, <4>1 DEF ReadInv
    <3> QED BY <3>2, <3>3, <3>4
  <2> QED BY <2>4, <2>5, <2>6, <2>7 DEF ReadInv
<1> QED BY <1>1, <1>2, NextCases

\* The last checkpoint of a job only gets newer.
LEMMA DoneGrows ==
  ASSUME FlowInv, Idles \/ Flows \/ (Go /\ Moves /\ Step.do \notin Submits)
  PROVE  /\ done \in Checkpoint
         /\ \/ done' = done
            \/ done'.id = done.id + 1 /\ done.pos <= done'.pos
<1>1. done \in Checkpoint /\ done.pos \in Nat /\ done.id \in Nat /\ polled \in Nat
  BY DEF FlowInv, Checkpoint
<1>2. CASE Idles \/ Flows
  <2>1. FlowSteps
    BY <1>2, JobFlows
  <2>2. CASE CompleteCheckpoint
    <3>1. PICK p \in done.pos .. polled : done' = [id |-> done.id + 1, pos |-> p]
      BY <2>2 DEF CompleteCheckpoint
    <3>2. done'.id = done.id + 1 /\ done'.pos = p
      BY <3>1
    <3> QED BY <1>1, <3>2
  <2>3. CASE ~CompleteCheckpoint
    BY <1>1, <2>1, <2>3 DEF FlowSteps
  <2> QED BY <2>2, <2>3
<1>3. CASE Go /\ Moves /\ Step.do \notin Submits
  BY <1>1, <1>3 DEF Moves, JobGoes
<1> QED BY <1>2, <1>3

\* What is known of a checkpoint stays known.
LEMMA KnownKeeps ==
  ASSUME FlowInv, NEW c \in Checkpoint, Known(c),
         Idles \/ Flows \/ (Go /\ Moves /\ Step.do \notin Submits)
  PROVE  /\ c.id <= done'.id /\ c.pos <= done'.pos
         /\ c.id = done'.id => c = done'
<1>1. /\ done \in Checkpoint /\ done.pos \in Nat /\ done.id \in Nat
      /\ c.pos \in Nat /\ c.id \in Nat
      /\ c.id <= done.id /\ c.pos <= done.pos /\ (c.id = done.id => c = done)
  BY DEF FlowInv, Checkpoint, Known
<1>2. CASE done' = done
  BY <1>1, <1>2
<1>3. CASE done'.id = done.id + 1 /\ done.pos <= done'.pos /\ done'.pos \in Nat
  BY <1>1, <1>3
<1>4. done' = done \/ (done'.id = done.id + 1 /\ done.pos <= done'.pos)
  BY DoneGrows
<1>5. done' # done => done'.pos \in Nat
  <2>1. CASE Idles \/ Flows
    <3>1. FlowSteps
      BY <2>1, JobFlows
    <3>2. CASE CompleteCheckpoint
      <4>1. PICK p \in done.pos .. polled : done' = [id |-> done.id + 1, pos |-> p]
        BY <3>2 DEF CompleteCheckpoint
      <4>2. p \in Nat /\ done'.pos = p
        BY <1>1, <4>1 DEF FlowInv
      <4> QED BY <4>2
    <3>3. CASE ~CompleteCheckpoint
      BY <3>1, <3>3 DEF FlowSteps
    <3> QED BY <3>2, <3>3
  <2>2. CASE Go /\ Moves /\ Step.do \notin Submits
    BY <2>2 DEF Moves, JobGoes
  <2> QED BY <2>1, <2>2
<1> QED BY <1>2, <1>3, <1>4, <1>5

\* A job of the restart drill has read nothing while nothing was written.
LEMMA ReadsNothing ==
  ASSUME ScriptInv, SourceInv, TopicInv, FlowInv, drill = "broker_restart", P.due = 0
  PROVE  done.pos = 0
<1>1. /\ R \in Nat /\ R <= P.due /\ Len(binlog) \in Nat
  BY SourceType DEF SourceFacts
<1>2. R = 0
  BY <1>1
<1>3. \A i \in 1 .. Len(topic) : topic[i] # Poison
  BY DEF TopicInv, Poisoned
<1>4. \A i \in 1 .. Len(topic) : topic[i].row \in 1 .. R
  BY <1>3 DEF TopicInv, Untouched
<1>5. Len(topic) \in Nat
  BY DEF TopicInv
<1>6. Len(topic) = 0
  <2>1. CASE Len(topic) > 0
    <3>1. 1 \in 1 .. Len(topic)
      BY <1>5, <2>1
    <3>2. topic[1].row \in 1 .. 0
      BY <1>2, <1>4, <3>1
    <3> QED BY <3>2
  <2> QED BY <1>5, <2>1
<1>7. Input = topic
  BY DEF Input, FlowInv
<1>8. done.pos \in Nat /\ polled \in Nat /\ done.pos <= polled /\ polled <= Len(Input)
  BY DEF FlowInv, Checkpoint
<1> QED BY <1>6, <1>7, <1>8

\* When its table is full, a checkpoint of its job has something.
LEMMA ReadsSome ==
  ASSUME ScriptInv, SourceInv, TopicInv, FlowInv, TableInv, drill \in Single, "full" \in F,
         P.due > 0
  PROVE  done.pos > 0
<1>1. /\ R \in Nat /\ R = P.due - toInsert /\ P.due \in Nat /\ P.ver \in {1, 2}
      /\ SourceTable = RowsOf(R, P.ver) /\ Events \in Nat
  BY SourceType DEF SourceFacts
<1>2. toInsert = 0 /\ current = RowsOf(R, P.ver)
  BY <1>1 DEF TableInv
<1>3. 1 <= R /\ 1 \in Row
  BY <1>1, <1>2 DEF Row
<1>4. current[1] # 0
  BY <1>1, <1>2, <1>3 DEF RowsOf
<1>5. current # NoRows
  BY <1>3, <1>4 DEF NoRows
<1>6. shown["current"] > 0 /\ shown["current"] <= done.pos /\ shown["current"] \in Nat
  BY <1>5 DEF TableInv, FlowInv, Sink
<1> QED BY <1>6 DEF FlowInv, Checkpoint

\* And of the schema drill, all of it.
LEMMA ReadsAll ==
  ASSUME ScriptInv, SourceInv, TopicInv, FlowInv, TableInv, drill = "schema_contract",
         "full" \in F
  PROVE  toInsert = 0 /\ captured = Len(binlog) /\ done.pos = Len(topic)
<1>1. /\ R \in Nat /\ P.ver \in {1, 2} /\ SourceTable = RowsOf(R, P.ver) /\ Events \in Nat
      /\ Len(binlog) \in Nat /\ R <= Events + 2
  BY SourceType DEF SourceFacts
<1>2. P.ver = 1
  BY <1>1 DEF SourceInv
<1>3. toInsert = 0 /\ current = RowsOf(R, 1) /\ Len(binlog) = R
  BY <1>1, <1>2, SourceType DEF TableInv, SourceFacts
<1>4. Len(topic) = captured /\ captured \in 0 .. Len(binlog)
  BY DEF TopicInv, Untouched
<1>5. Input = topic
  BY DEF Input, FlowInv
<1>6. /\ done.pos \in Nat /\ polled \in Nat /\ done.pos <= polled /\ polled <= Len(topic)
      /\ shown["current"] \in Nat /\ shown["current"] <= done.pos
  BY <1>5 DEF FlowInv, Checkpoint, Sink
<1>7. CASE R = 0
  BY <1>1, <1>3, <1>4, <1>6, <1>7
<1>8. CASE R > 0
  <2>1. R \in Row
    BY <1>1, <1>8 DEF Row
  <2>2. current[R] = 1
    BY <1>1, <1>3, <2>1 DEF RowsOf
  <2>3. R <= shown["current"]
    BY <2>1, <2>2 DEF TableInv
  <2> QED BY <1>1, <1>3, <1>4, <1>6, <2>3
<1> QED BY <1>1, <1>7, <1>8

LEMMA SeenKeeps ==
  ASSUME ScriptInv, SourceInv, TopicInv, FlowInv, TableInv, NotesInv, SeenInv, [Next]_vars
  PROVE  SeenInv'
<1>1. /\ done \in Checkpoint /\ done.id \in Nat /\ done.pos \in Nat
      /\ seen.checkpoint \in Checkpoint /\ seen.before \in Checkpoint
      /\ seen.before.id \in Nat /\ seen.before.pos \in Nat /\ seen.checkpoint.id \in Nat
  BY DEF FlowInv, NotesInv, Seen, Checkpoint
<1>2. captured \in Nat /\ Len(topic) \in Nat /\ Len(binlog) \in Nat
  BY SourceType DEF SourceFacts, TopicInv
<1>3. TopicSteps
  BY TopicMoves
<1>4. drill' = drill
  BY PhaseStays, NextCases DEF Go
<1>5. ASSUME "covered" \in F, drill = "schema_contract",
             Idles \/ Flows \/ (Go /\ Moves /\ Step.do \notin Writes)
      PROVE  toInsert' = 0 /\ captured' = Len(binlog') /\ topic' = topic
  <2>1. toInsert = 0 /\ captured = Len(binlog)
    BY <1>5 DEF SeenInv
  <2>2. toInsert' = 0 /\ binlog' = binlog
    BY <1>5, <2>1, SourceSame
  <2>3. topic' = topic /\ captured' = captured
    BY <1>2, <1>3, <1>5, <2>1 DEF TopicSteps, Untouched, Poisoned
  <2> QED BY <2>1, <2>2, <2>3
<1>6. CASE Idles \/ Flows
  <2>1. F' = F /\ seen' = seen /\ link' = link
    BY <1>6, JobFlows, PhaseStays
  <2>2. Known(seen.checkpoint) => Known(seen.checkpoint)'
    BY <1>1, <1>6, <2>1, KnownKeeps DEF Known
  <2>3. Known(seen.before) => Known(seen.before)'
    BY <1>1, <1>6, <2>1, KnownKeeps DEF Known
  <2>4. "covered" \in F /\ drill = "schema_contract" =>
          toInsert' = 0 /\ captured' = Len(binlog') /\ topic' = topic
    BY <1>5, <1>6
  <2> QED BY <1>4, <2>1, <2>2, <2>3, <2>4 DEF SeenInv
<1>7. CASE Go /\ Moves
  <2> DEFINE op == Step.do
  <2>1. /\ Ready(drill, Step, P)
        /\ \A f \in F' : (f \in F /\ f \notin Lost(op)) \/ Learned(Step, P, f)
    BY <1>7, PhaseGoes, StepReady
  <2>2. /\ NotesGo
        /\ link' = IF op = "read_snapshots"
                   THEN [checkpoint |-> seen.checkpoint, offsets |-> seen.offsets,
                         table |-> current]
                   ELSE IF op = "cancel" THEN NoLink ELSE link
        /\ op \in {"require_checkpoint", "await_checkpoint_after"} => op \notin Submits
        /\ op = "await_checkpoint_after" => done.id > seen.before.id
        /\ op \notin Submits => done' = done
    BY <1>7, NotesMove, SeenIsShaped DEF NotesInv, Moves, SeenGoes, JobGoes, Submits
  <2>3. /\ seen'.checkpoint = IF op = "require_checkpoint" THEN done
                              ELSE IF op = "cancel" THEN NoCheckpoint ELSE seen.checkpoint
        /\ seen'.before = IF op = "remember_checkpoint" THEN seen.checkpoint ELSE seen.before
        /\ seen'.after = IF op = "await_checkpoint_after" THEN done ELSE seen.after
    BY <2>2 DEF NotesGo
  <2>4. ASSUME "checked" \in F' PROVE Known(seen.checkpoint)'
    <3>1. /\ op \notin Submits /\ op # "cancel"
          /\ "checked" \in F \/ op = "require_checkpoint"
      BY <2>1, <2>4 DEF Lost, Learned, OfTheJob, Submits
    <3>2. CASE op = "require_checkpoint"
      BY <1>1, <2>2, <2>3, <3>1, <3>2 DEF Known
    <3>3. CASE op # "require_checkpoint"
      <4>1. Known(seen.checkpoint) /\ seen'.checkpoint = seen.checkpoint /\ done' = done
        BY <2>2, <2>3, <3>1, <3>3 DEF SeenInv
      <4> QED BY <4>1 DEF Known
    <3> QED BY <3>2, <3>3
  <2>5. ASSUME "before" \in F' PROVE Known(seen.before)'
    <3>1. /\ op \notin Submits
          /\ op = "remember_checkpoint" => "checked" \in F
          /\ op # "remember_checkpoint" => "before" \in F
      BY <2>1, <2>5 DEF Lost, Learned, OfTheJob, Submits, F
    <3>2. CASE op = "remember_checkpoint"
      <4>1. Known(seen.checkpoint) /\ seen'.before = seen.checkpoint /\ done' = done
        BY <2>2, <2>3, <3>1, <3>2 DEF SeenInv
      <4> QED BY <4>1 DEF Known
    <3>3. CASE op # "remember_checkpoint"
      <4>1. Known(seen.before) /\ seen'.before = seen.before /\ done' = done
        BY <2>2, <2>3, <3>1, <3>3 DEF SeenInv
      <4> QED BY <4>1 DEF Known
    <3> QED BY <3>2, <3>3
  <2>6. ASSUME "zero" \in F', drill = "broker_restart" PROVE seen'.before.pos = 0
    <3>1. /\ op # "remember_checkpoint" => "zero" \in F
          /\ op = "remember_checkpoint" => "checked" \in F /\ P.due = 0
      BY <2>1, <2>6 DEF Lost, Learned, F
    <3>2. CASE op = "remember_checkpoint"
      <4>1. done.pos = 0
        BY <2>6, <3>1, <3>2, ReadsNothing
      <4>2. seen.checkpoint.pos <= done.pos /\ seen.checkpoint.pos \in Nat
        BY <1>1, <3>1, <3>2 DEF SeenInv, Known, Checkpoint
      <4> QED BY <2>3, <3>2, <4>1, <4>2
    <3>3. CASE op # "remember_checkpoint"
      BY <2>3, <2>6, <3>1, <3>3 DEF SeenInv
    <3> QED BY <3>2, <3>3
  <2>7. ASSUME {"advanced", "linked"} \cap F' # {}, drill = "broker_restart"
        PROVE  Known(seen.checkpoint)' /\ seen'.checkpoint.id > seen'.before.id
    <3>1. /\ op \notin Submits /\ op # "cancel" /\ op # "remember_checkpoint"
          /\ \/ {"advanced", "linked"} \cap F # {}
             \/ op = "require_checkpoint" /\ {"full", "before", "zero"} \subseteq F /\ P.due > 0
      BY <2>1, <2>7 DEF Lost, Learned, OfTheJob, Submits, F
    <3>2. CASE op = "require_checkpoint"
      <4>1. seen'.checkpoint = done /\ seen'.before = seen.before /\ done' = done
        BY <2>2, <2>3, <3>1, <3>2
      <4>2. done.id > seen.before.id
        <5>1. CASE {"advanced", "linked"} \cap F # {}
          <6>1. seen.checkpoint.id <= done.id /\ seen.checkpoint.id > seen.before.id
            BY <2>7, <5>1 DEF SeenInv, Known
          <6> QED BY <1>1, <6>1
        <5>2. CASE {"full", "before", "zero"} \subseteq F /\ P.due > 0
          <6>1. done.pos > 0
            BY <2>7, <5>2, ReadsSome DEF Single
          <6>2. /\ seen.before.pos = 0 /\ seen.before.id <= done.id
                /\ seen.before.id = done.id => seen.before = done
            BY <2>7, <5>2 DEF SeenInv, Known
          <6> QED BY <1>1, <6>1, <6>2
        <5> QED BY <3>1, <5>1, <5>2
      <4> QED BY <1>1, <4>1, <4>2 DEF Known
    <3>3. CASE op # "require_checkpoint"
      <4>1. seen'.checkpoint = seen.checkpoint /\ seen'.before = seen.before /\ done' = done
        BY <2>2, <2>3, <3>1, <3>3
      <4> QED BY <2>7, <3>1, <3>3, <4>1 DEF SeenInv, Known
    <3> QED BY <3>2, <3>3
  <2>8. ASSUME "linked" \in F', drill = "broker_restart"
        PROVE  link'.checkpoint.id > seen'.before.id
    <3>1. /\ op # "cancel" /\ op # "remember_checkpoint"
          /\ \/ "linked" \in F
             \/ op = "read_snapshots" /\ "advanced" \in F
      BY <2>1, <2>8 DEF Lost, Learned, F
    <3>2. CASE op = "read_snapshots"
      <4>1. seen.checkpoint.id > seen.before.id
        BY <2>8, <3>1 DEF SeenInv
      <4> QED BY <2>2, <2>3, <3>2, <4>1
    <3>3. CASE op # "read_snapshots"
      BY <2>2, <2>3, <2>8, <3>1, <3>3 DEF SeenInv
    <3> QED BY <3>2, <3>3
  <2>9. ASSUME "after" \in F' PROVE seen'.after.id > seen'.before.id
    <3>1. op # "remember_checkpoint" /\ ("after" \in F \/ op = "await_checkpoint_after")
      BY <2>1, <2>9 DEF Lost, Learned
    <3> QED BY <2>2, <2>3, <3>1 DEF SeenInv
  <2>10. ASSUME "covered" \in F', drill = "schema_contract"
         PROVE  toInsert' = 0 /\ captured' = Len(binlog') /\ seen'.after.pos = Len(topic')
    <3>1. CASE op = "await_checkpoint_after"
      <4>1. "full" \in F
        BY <2>1, <2>10, <3>1 DEF Lost, Learned, F
      <4>2. toInsert = 0 /\ captured = Len(binlog) /\ done.pos = Len(topic)
        BY <2>10, <4>1, ReadsAll
      <4>3. toInsert' = 0 /\ binlog' = binlog
        BY <1>7, <3>1, <4>2, SourceSame DEF Writes, Starts
      <4>4. topic' = topic /\ captured' = captured
        BY <1>2, <1>3, <2>10, <4>2 DEF TopicSteps, Untouched, Poisoned
      <4> QED BY <2>3, <3>1, <4>2, <4>3, <4>4
    <3>2. CASE op # "await_checkpoint_after"
      <4>1. "covered" \in F /\ op \notin Writes
        BY <2>1, <2>10, <3>2 DEF Lost, Learned
      <4>2. toInsert' = 0 /\ captured' = Len(binlog') /\ topic' = topic
        BY <1>5, <1>7, <2>10, <4>1
      <4> QED BY <2>3, <2>10, <3>2, <4>1, <4>2 DEF SeenInv
    <3> QED BY <3>1, <3>2
  <2> QED BY <1>4, <2>4, <2>5, <2>6, <2>7, <2>8, <2>9, <2>10 DEF SeenInv
<1> QED BY <1>6, <1>7, NextCases

\* The tables a drill links with offsets cover them.
LEMMA LinkKeeps ==
  ASSUME ScriptInv, SourceInv, TopicInv, FlowInv, TableInv, NotesInv, LinkInv, [Next]_vars
  PROVE  LinkInv'
<1>1. /\ Len(topic) \in Nat /\ Len(topic') \in Nat /\ Len(topic) <= Len(topic')
      /\ \A i \in 1 .. Len(topic) : topic'[i] = topic[i]
  BY TopicGrows
<1>2. /\ seen.offsets \in Nat /\ seen.offsets <= Len(topic)
      /\ link.offsets \in Nat /\ link.offsets <= Len(topic)
      /\ \A i \in 1 .. link.offsets :
           topic[i] # Poison => link.table[topic[i].row] >= topic[i].version
  BY <1>1 DEF LinkInv, LinkageCoversOffsets
<1>3. ASSUME link' = link PROVE link'.offsets \in 0 .. Len(topic') /\ LinkageCoversOffsets'
  <2>1. \A i \in 1 .. link.offsets : topic'[i] = topic[i]
    BY <1>1, <1>2
  <2>2. link.offsets \in 0 .. Len(topic')
    BY <1>1, <1>2
  <2> QED BY <1>2, <1>3, <2>1, <2>2 DEF LinkageCoversOffsets
<1>4. CASE Idles \/ Flows
  <2>1. seen' = seen /\ link' = link
    BY <1>4, JobFlows
  <2> QED BY <1>1, <1>2, <1>3, <2>1 DEF LinkInv
<1>5. CASE Go /\ Moves
  <2> DEFINE op == Step.do
  <2>1. /\ Ready(drill, Step, P) /\ NotesGo
        /\ link' = IF op = "read_snapshots"
                   THEN [checkpoint |-> seen.checkpoint, offsets |-> seen.offsets,
                         table |-> current]
                   ELSE IF op = "cancel" THEN NoLink ELSE link
    BY <1>5, StepReady, NotesMove, SeenIsShaped DEF NotesInv, Moves, SeenGoes
  <2>2. group \in 0 .. Len(topic)
    BY DEF FlowInv
  <2>3. seen'.offsets \in 0 .. Len(topic')
    <3>1. seen'.offsets = IF op = "await_zero_lag" THEN group
                          ELSE IF op = "cancel" THEN 0 ELSE seen.offsets
      BY <2>1 DEF NotesGo
    <3> QED BY <1>1, <1>2, <2>2, <3>1
  <2>4. link'.offsets \in 0 .. Len(topic') /\ LinkageCoversOffsets'
    <3>1. CASE op = "read_snapshots"
      <4>1. link' = [checkpoint |-> seen.checkpoint, offsets |-> seen.offsets, table |-> current]
        BY <2>1, <3>1
      <4>2. link'.offsets = seen.offsets /\ link'.table = current
        BY <4>1
      <4>3. "full" \in F
        BY <2>1, <3>1 DEF Ready, MayRead, F
      <4>4. /\ R \in Nat /\ R <= Events + 2 /\ P.ver \in {1, 2} /\ Events \in Nat
            /\ SourceTable = RowsOf(R, P.ver)
        BY SourceType DEF SourceFacts
      <4>5. current = RowsOf(R, P.ver)
        BY <4>3, <4>4 DEF TableInv
      <4>6. ASSUME NEW i \in 1 .. seen.offsets, topic'[i] # Poison
            PROVE  current[topic'[i].row] >= topic'[i].version
        <5>1. i \in 1 .. Len(topic) /\ topic'[i] = topic[i]
          BY <1>1, <1>2
        <5>2. topic[i].row \in 1 .. R /\ topic[i].version \in 1 .. P.ver
          BY <4>6, <5>1, TopicRows
        <5>3. topic[i].row \in Row /\ topic[i].row <= R
          BY <4>4, <5>2 DEF Row
        <5>4. current[topic[i].row] = P.ver
          BY <4>5, <5>3 DEF RowsOf
        <5> QED BY <4>4, <5>1, <5>2, <5>4
      <4> QED BY <1>1, <1>2, <4>2, <4>6 DEF LinkageCoversOffsets
    <3>2. CASE op = "cancel"
      <4>1. link' = NoLink
        BY <2>1, <3>2
      <4>2. link'.offsets = 0
        BY <4>1 DEF NoLink
      <4> QED BY <1>1, <4>2 DEF LinkageCoversOffsets
    <3>3. CASE op \notin {"read_snapshots", "cancel"}
      BY <1>3, <2>1, <3>3
    <3> QED BY <3>1, <3>2, <3>3
  <2> QED BY <2>3, <2>4 DEF LinkInv
<1> QED BY <1>4, <1>5, NextCases

\* No schema but that of Debezium is registered.
LEMMA SchemaKeeps ==
  ASSUME ScriptInv, NotesInv, SchemaInv, [Next]_vars
  PROVE  SchemaInv'
<1>1. CASE Idles \/ Flows
  <2>1. F' = F /\ seen' = seen
    BY <1>1, JobFlows, PhaseStays
  <2>2. versions' \in {versions, versions \cup {"registered"}}
    BY <1>1 DEF Idles, Rest, Flows, InsertRow, Capture, Poll, CompleteCheckpoint, CommitGroup,
                CommitChangelog, CommitCurrent, debezium
  <2> QED BY <2>1, <2>2 DEF SchemaInv
<1>2. CASE Go /\ Moves
  <2> DEFINE op == Step.do
  <2>1. /\ Ready(drill, Step, P) /\ TopicGoes /\ WaitGoes
        /\ \A f \in F' : (f \in F /\ f \notin Lost(op)) \/ Learned(Step, P, f)
    BY <1>2, PhaseGoes, StepReady DEF Moves
  <2>2. NotesGo
    BY <1>2, NotesMove, SeenIsShaped DEF NotesInv
  <2>3. op = "register" => ~Backward("event_id_as_string")
    <3>1. op = "register" => "subject" \in F
      BY <2>1 DEF Ready, MayWrite, F
    <3> QED BY <3>1 DEF SchemaInv, Backward
  <2>4. versions' = versions
    BY <2>1, <2>3 DEF TopicGoes
  <2>5. ~seen'.accepted
    <3>1. CASE op = "register"
      <4>1. seen'.accepted = Backward("event_id_as_string")
        BY <2>2, <3>1 DEF NotesGo
      <4> QED BY <2>3, <3>1, <4>1
    <3>2. CASE op # "register"
      <4>1. seen'.accepted = seen.accepted
        BY <2>2, <3>2 DEF NotesGo
      <4> QED BY <4>1 DEF SchemaInv
    <3> QED BY <3>1, <3>2
  <2>6. "subject" \in F' => versions' # {}
    <3>1. "subject" \in F' => "subject" \in F \/ op = "await_subject"
      BY <2>1 DEF Learned
    <3> QED BY <2>1, <2>4, <3>1 DEF SchemaInv, WaitGoes
  <2> QED BY <2>4, <2>5, <2>6 DEF SchemaInv
<1> QED BY <1>1, <1>2, NextCases

\* The probe is sent as the script says.
LEMMA ProbeKeeps ==
  ASSUME ScriptInv, ProbeInv, [Next]_vars PROVE ProbeInv'
<1>1. CASE Idles \/ Flows
  <2>1. P' = P /\ drill' = drill
    BY <1>1, PhaseStays
  <2>2. probe' = probe
    BY <1>1 DEF Idles, Rest, Flows, InsertRow, Capture, Poll, CompleteCheckpoint, CommitGroup,
                CommitChangelog, CommitCurrent, kafka
  <2> QED BY <2>1, <2>2 DEF ProbeInv, ProbeRecord
<1>2. CASE Go /\ Moves
  <2> DEFINE op == Step.do
  <2>1. /\ Ready(drill, Step, P) /\ TopicGoes /\ Counts(Step, P, P') /\ drill' = drill
    BY <1>2, PhaseGoes, StepReady DEF Moves, Go
  <2>2. CASE op \notin Produces
    <3>1. probe' = probe /\ P'.probed = P.probed
      BY <2>1, <2>2 DEF TopicGoes, Counts
    <3> QED BY <2>1, <3>1 DEF ProbeInv, ProbeRecord
  <2>3. CASE op \in Produces
    <3>1. /\ P'.probed = P.probed + 1 /\ Step.n \in 1 .. 3
          /\ op = "produce_keyed" => drill = "ordering_miskey" /\ P.probed = Step.n - 1
          /\ op = "produce_miskeyed" =>
               /\ drill \in Probing
               /\ P.probed = IF drill = "broker_slo" THEN Step.n - 1 ELSE Step.n + 2
      BY <2>1, <2>3 DEF Counts, Ready, MayWrite, Produces
    <3>2. P.probed \in Nat /\ drill \in Probing /\ Len(probe) = P.probed
      BY <2>3, <3>1 DEF Produces, Probing, ProbeInv
    <3>3. Arrival[Step.n] \in 1 .. 3
      BY <3>1 DEF Arrival
    <3>8. /\ op = "produce_keyed" =>
               probe' = Append(probe, [keyed |-> TRUE, event |-> Step.n, partition |-> 1])
          /\ op = "produce_miskeyed" =>
               probe' = Append(probe, [keyed |-> FALSE, event |-> Arrival[Step.n],
                                       partition |-> Step.n])
      BY <2>1 DEF TopicGoes
    <3>9. PICK n \in 1 .. 3 : n = Step.n
      BY <3>1
    <3>10. PICK a \in 1 .. 3 : a = Arrival[n]
      BY <3>3, <3>9
    <3>11. /\ [keyed |-> TRUE, event |-> n, partition |-> 1] \in Probe
           /\ [keyed |-> FALSE, event |-> a, partition |-> n] \in Probe
      BY DEF Probe
    <3>4. /\ probe' = Append(probe, ProbeRecord(P.probed + 1))
          /\ ProbeRecord(P.probed + 1) \in Probe
      <4>1. CASE op = "produce_keyed"
        <5>1. P.probed + 1 = n /\ P.probed + 1 <= 3 /\ drill # "broker_slo"
          BY <3>1, <3>9, <4>1
        <5>2. ProbeRecord(P.probed + 1) = [keyed |-> TRUE, event |-> n, partition |-> 1]
          BY <5>1 DEF ProbeRecord
        <5>3. probe' = Append(probe, [keyed |-> TRUE, event |-> n, partition |-> 1])
          BY <3>8, <3>9, <4>1
        <5> QED BY <3>11, <5>2, <5>3
      <4>2. CASE op = "produce_miskeyed"
        <5>1. probe' = Append(probe, [keyed |-> FALSE, event |-> a, partition |-> n])
          BY <3>8, <3>9, <3>10, <4>2
        <5>2. CASE drill = "broker_slo"
          <6>1. P.probed + 1 = n
            BY <3>1, <3>9, <4>2, <5>2
          <6>2. ProbeRecord(P.probed + 1) = [keyed |-> FALSE, event |-> a, partition |-> n]
            BY <3>10, <5>2, <6>1 DEF ProbeRecord
          <6> QED BY <3>11, <5>1, <6>2
        <5>3. CASE drill # "broker_slo"
          <6>1. PICK i \in Nat : i = P.probed + 1
            BY <3>2
          <6>3. i - 3 = n /\ ~(i <= 3)
            BY <3>1, <3>2, <3>9, <4>2, <5>3, <6>1
          <6>4. ProbeRecord(i) = [keyed |-> FALSE, event |-> Arrival[i - 3], partition |-> i - 3]
            BY <5>3, <6>3 DEF ProbeRecord
          <6>5. ProbeRecord(i) = [keyed |-> FALSE, event |-> a, partition |-> n]
            BY <3>10, <6>3, <6>4
          <6>2. ProbeRecord(P.probed + 1) = [keyed |-> FALSE, event |-> a, partition |-> n]
            BY <6>1, <6>5
          <6> QED BY <3>11, <5>1, <6>2
        <5> QED BY <5>2, <5>3
      <4> QED BY <2>3, <4>1, <4>2 DEF Produces
    <3>5. /\ probe' \in Seq(Probe) /\ Len(probe') = P.probed + 1
          /\ \A i \in 1 .. P.probed : probe'[i] = probe[i]
          /\ probe'[P.probed + 1] = ProbeRecord(P.probed + 1)
      <4>1. probe \in Seq(Probe)
        BY DEF ProbeInv
      <4> HIDE DEF op
      <4> QED BY <3>2, <3>4, <4>1, Appended
    <3>6. ASSUME NEW i \in 1 .. Len(probe') PROVE probe'[i] = ProbeRecord(i)
      <4>1. CASE i = P.probed + 1
        BY <3>5, <4>1
      <4>2. CASE i # P.probed + 1
        <5>1. i \in 1 .. P.probed
          BY <3>2, <3>5, <4>2
        <5> QED BY <3>2, <3>5, <5>1 DEF ProbeInv
      <4> QED BY <4>1, <4>2
    <3>7. P'.probed <= IF drill = "broker_slo" THEN 3 ELSE 6
      <4>1. op = "produce_keyed" \/ op = "produce_miskeyed"
        BY <2>3 DEF Produces
      <4> QED BY <3>1, <4>1
    <3> QED BY <2>1, <3>1, <3>5, <3>6, <3>7 DEF ProbeInv, ProbeRecord
  <2> QED BY <2>2, <2>3
<1> QED BY <1>1, <1>2, NextCases

\* How many of the records read at once are malformed, if no two are.
NoTwo(s, b) == \A i, j \in 1 .. b : s[i] = Poison /\ s[j] = Poison => i = j
Malformed(s, a, b) == Cardinality({i \in a + 1 .. b : s[i] = Poison})
LEMMA FewMalformed ==
  ASSUME NEW a \in Nat, NEW b \in Nat, NEW s, NoTwo(s, b)
  PROVE  \/ Malformed(s, a, b) = 0 /\ \A i \in a + 1 .. b : s[i] # Poison
         \/ Malformed(s, a, b) = 1 /\ \E k \in a + 1 .. b : s[k] = Poison
<1> DEFINE T == {i \in a + 1 .. b : s[i] = Poison}
<1>1. CASE T = {}
  BY <1>1, FS_EmptySet DEF Malformed
<1>2. CASE T # {}
  <2>1. PICK k \in T : TRUE
    BY <1>2
  <2>2. k \in a + 1 .. b /\ s[k] = Poison /\ k \in 1 .. b
    BY <2>1
  <2>3. ASSUME NEW i \in T PROVE i = k
    <3>1. i \in 1 .. b /\ s[i] = Poison
      BY <2>3
    <3> QED BY <2>2, <3>1 DEF NoTwo
  <2>4. T = {k}
    BY <2>1, <2>3
  <2>5. Cardinality(T) = 1
    BY <2>4, FS_Singleton
  <2> QED BY <2>2, <2>5 DEF Malformed
<1> QED BY <1>1, <1>2

LEMMA CountIsNat ==
  ASSUME NEW a \in Nat, NEW b \in Nat, NEW s
  PROVE  Cardinality({i \in a + 1 .. b : s[i] = Poison}) \in Nat
<1>1. IsFiniteSet(a + 1 .. b)
  BY FS_Interval
<1> QED BY <1>1, FS_Subset, FS_CardinalityType

\* A malformed record is one dead letter once it is read.
LEMMA DlqKeeps ==
  ASSUME ScriptInv, SourceInv, TopicInv, FlowInv, StateInv, DlqInv, [Next]_vars
  PROVE  DlqInv'
<1>1. /\ Len(topic) \in Nat /\ Len(topic') \in Nat /\ Len(topic) <= Len(topic')
      /\ \A i \in 1 .. Len(topic) : topic'[i] = topic[i]
  BY TopicGrows
<1>2. dlq \in Nat /\ polled \in Nat /\ polled <= Len(Input) /\ Len(Input) \in Nat
  BY InputRows DEF DlqInv, FlowInv, InputFacts
<1>3. drill = "poison_dlq" => Input = topic
  BY DEF FlowInv, Input
<1>4. drill = "poison_dlq" => \A i \in 1 .. polled : topic'[i] = topic[i]
  BY <1>1, <1>2, <1>3
<1>5. CASE Idles \/ Flows
  <2>1. F' = F /\ drill' = drill
    BY <1>5, PhaseStays
  <2>2. CASE Flows /\ Poll
    <3>1. /\ polled' = Len(Input) /\ topic' = topic
          /\ dlq' = dlq + Cardinality({i \in polled + 1 .. Len(Input) : Input[i] = Poison})
      BY <2>2 DEF Poll
    <3>2. Cardinality({i \in polled + 1 .. Len(Input) : Input[i] = Poison}) \in Nat
      BY <1>2, CountIsNat
    <3>3. dlq' \in Nat
      BY <1>2, <3>1, <3>2
    <3>4. CASE drill = "poison_dlq"
      <4>1. Input = topic /\ Len(Input) = Len(topic)
        BY <1>3, <3>4
      <4>2. \A i, j \in 1 .. Len(topic) : topic[i] = Poison /\ topic[j] = Poison => i = j
        BY DEF TopicInv
      <4>10. NoTwo(topic, Len(topic))
        BY <4>2 DEF NoTwo
      <4>11. \/ Malformed(topic, polled, Len(topic)) = 0
                /\ \A i \in polled + 1 .. Len(topic) : topic[i] # Poison
             \/ Malformed(topic, polled, Len(topic)) = 1
                /\ \E k \in polled + 1 .. Len(topic) : topic[k] = Poison
        BY <1>1, <1>2, <4>10, FewMalformed
      <4>3. PICK n \in Nat : n = Malformed(topic, polled, Len(topic))
        BY <3>2, <4>1 DEF Malformed
      <4>4. \/ n = 0 /\ \A i \in polled + 1 .. Len(topic) : topic[i] # Poison
            \/ n = 1 /\ \E k \in polled + 1 .. Len(topic) : topic[k] = Poison
        BY <4>3, <4>11
      <4>5. polled' = Len(topic) /\ dlq' = dlq + n /\ polled <= Len(topic)
        BY <1>2, <3>1, <4>1, <4>3 DEF Malformed
      <4>6. /\ dlq = 0 => \A i \in 1 .. polled : topic[i] # Poison
            /\ dlq # 0 => dlq = 1 /\ \E i \in 1 .. polled : topic[i] = Poison
            /\ "quarantined" \in F => dlq = 1
        BY <3>4 DEF DlqInv
      <4>7. \A i \in 1 .. Len(topic) : i \in 1 .. polled \/ i \in polled + 1 .. Len(topic)
        BY <1>1, <1>2
      <4>8. CASE n = 0
        <5>1. dlq' = dlq /\ \A i \in polled + 1 .. Len(topic) : topic[i] # Poison
          BY <1>2, <4>4, <4>5, <4>8
        <5>2. dlq = 0 => \A i \in 1 .. Len(topic) : topic[i] # Poison
          BY <4>6, <4>7, <5>1
        <5>3. dlq # 0 => \E i \in 1 .. Len(topic) : topic[i] = Poison
          BY <1>1, <1>2, <4>5, <4>6
        <5> QED BY <2>1, <3>1, <3>3, <4>5, <4>6, <5>1, <5>2, <5>3 DEF DlqInv
      <4>9. CASE n # 0
        <5>1. n = 1 /\ \E k \in polled + 1 .. Len(topic) : topic[k] = Poison
          BY <4>4, <4>9
        <5>2. PICK k \in polled + 1 .. Len(topic) : topic[k] = Poison
          BY <5>1
        <5>3. k \in 1 .. Len(topic) /\ k > polled
          BY <1>1, <1>2, <5>2
        <5>4. dlq = 0
          <6>1. ASSUME dlq # 0 PROVE FALSE
            <7>1. PICK i \in 1 .. polled : topic[i] = Poison
              BY <4>6, <6>1
            <7>2. i \in 1 .. Len(topic) /\ i # k
              BY <1>1, <1>2, <4>5, <5>3
            <7> QED BY <4>2, <5>2, <5>3, <7>1, <7>2
          <6> QED BY <6>1
        <5>5. dlq' = 1
          BY <4>5, <5>1, <5>4
        <5> QED BY <2>1, <3>1, <3>3, <4>5, <5>2, <5>3, <5>5 DEF DlqInv
      <4> QED BY <4>8, <4>9
    <3>5. CASE drill # "poison_dlq"
      BY <2>1, <3>3, <3>5 DEF DlqInv
    <3> QED BY <3>4, <3>5
  <2>3. CASE ~(Flows /\ Poll)
    <3>1. dlq' = dlq /\ polled' = polled
      BY <1>5, <2>3 DEF Idles, Rest, Flows, InsertRow, Capture, Poll, CompleteCheckpoint,
                        CommitGroup, CommitChangelog, CommitCurrent, flink, kafka
    <3> QED BY <1>4, <2>1, <3>1 DEF DlqInv
  <2> QED BY <2>2, <2>3
<1>6. CASE Go /\ Moves
  <2> DEFINE op == Step.do
  <2>1. /\ Ready(drill, Step, P) /\ JobGoes /\ WaitGoes /\ dlq' = dlq /\ drill' = drill
        /\ \A f \in F' : (f \in F /\ f \notin Lost(op)) \/ Learned(Step, P, f)
    BY <1>6, PhaseGoes, StepReady DEF Moves, TopicGoes, Go
  <2>2. "quarantined" \in F' => "quarantined" \in F \/ dlq = 1
    <3>1. "quarantined" \in F' => "quarantined" \in F \/ (op = "await_dlq" /\ Step.n = 1)
      BY <2>1 DEF Learned
    <3> QED BY <2>1, <3>1 DEF WaitGoes
  <2>3. CASE op \notin Submits
    <3>1. polled' = polled
      BY <2>1, <2>3 DEF JobGoes
    <3> QED BY <1>4, <2>1, <2>2, <3>1 DEF DlqInv
  <2>4. CASE op \in Submits
    <3>1. polled' = start'
      BY <2>1, <2>4 DEF JobGoes
    <3>2. CASE drill = "poison_dlq"
      <4>1. "fresh" \in F
        BY <2>1, <2>4, <3>2 DEF Ready, MayStart, F, Single
      <4>2. dlq = 0
        BY <4>1 DEF StateInv
      <4>3. Allowed(drill, Step)
        BY StepReady
      <4>4. start' = 0
        BY <2>1, <2>4, <3>2, <4>3 DEF JobGoes, Ready, MayStart, Allowed
      <4>5. "quarantined" \notin F'
        BY <2>2, <3>2, <4>2 DEF DlqInv
      <4> QED BY <2>1, <3>1, <4>2, <4>4, <4>5 DEF DlqInv
    <3>3. CASE drill # "poison_dlq"
      BY <2>1, <3>3 DEF DlqInv
    <3> QED BY <3>2, <3>3
  <2> QED BY <2>3, <2>4
<1> QED BY <1>5, <1>6, NextCases

-----------------------------------------------------------------------------
(* What was delivered, in a drill that counts it. *)

LEMMA Sliced ==
  ASSUME NEW S, NEW s \in Seq(S), NEW a \in Nat, NEW b \in Nat, a <= b, b <= Len(s)
  PROVE  /\ SubSeq(s, a + 1, b) \in Seq(S) /\ Len(SubSeq(s, a + 1, b)) = b - a
         /\ \A i \in 1 .. b - a : SubSeq(s, a + 1, b)[i] = s[a + i]
OBVIOUS

\* Every place of such a changelog has a row.
LEMMA LogIsFull ==
  ASSUME NEW c, changelog \in Seq(Record \cup {Poison}), Log(c)
  PROVE  Logged = 1 .. Len(changelog) /\ LogRows = Len(changelog)
<1>1. DOMAIN changelog = 1 .. Len(changelog) /\ Len(changelog) \in Nat
  OBVIOUS
<1>2. ASSUME NEW i \in 1 .. Len(changelog) PROVE changelog[i] # Poison
  <2>1. changelog[i] = [row |-> IF i <= c THEN i ELSE i - c, version |-> 1]
    BY DEF Log
  <2>2. changelog[i].version = 1
    BY <2>1
  <2> QED BY <2>2 DEF Poison
<1>3. Logged = 1 .. Len(changelog)
  BY <1>1, <1>2 DEF Logged
<1> QED BY <1>1, <1>3, FS_Interval DEF LogRows

\* Nothing is written twice in a drill that counts.
LEMMA CountedInput ==
  ASSUME ScriptInv, SourceInv, TopicInv, drill \in Counted
  PROVE  /\ Len(Input) <= Events
         /\ \A i \in 1 .. Len(Input) : Input[i] = [row |-> i, version |-> 1]
<1>1. drill \in Untouched /\ P.ver = 1 /\ Rows(drill) = Events
  <2>1. drill # "offset_replay"
    BY DEF Counted
  <2>2. P.ver = 1
    BY <2>1 DEF SourceInv
  <2> QED BY <2>2 DEF Counted, Untouched, Rows, Poisoned
<1>2. Len(Input) <= Len(binlog) /\ \A i \in 1 .. Len(Input) : Input[i] = binlog[i]
  BY <1>1, PlainInput
<1>3. /\ R \in Nat /\ P.due \in Nat /\ P.due <= Rows(drill) /\ R <= P.due /\ Events \in Nat
      /\ Len(binlog) = R /\ \A i \in 1 .. Len(binlog) : i <= R => binlog[i] = [row |-> i, version |-> 1]
  BY <1>1, SourceType DEF SourceFacts
<1>4. Len(Input) \in Nat
  BY InputRows DEF InputFacts
<1>5. ASSUME NEW i \in 1 .. Len(Input) PROVE Input[i] = [row |-> i, version |-> 1]
  <2>1. i \in 1 .. Len(binlog) /\ i <= R
    BY <1>2, <1>3, <1>4
  <2> QED BY <1>2, <1>3, <2>1
<1> QED BY <1>1, <1>2, <1>3, <1>4, <1>5

\* A commit goes on with the workload.
LEMMA LogGrows ==
  ASSUME ScriptInv, SourceInv, TopicInv, FlowInv, CommitChangelog,
         changelog \in Seq(Record \cup {Poison})
  PROVE  /\ changelog' \in Seq(Record \cup {Poison}) /\ shown'["changelog"] = done.pos
         /\ drill \in Counted =>
              /\ shown["changelog"] <= done.pos /\ done.pos <= Events
              /\ \A c \in Nat : Log(c) => Log(c)'
<1>1. /\ shown["changelog"] \in Nat /\ done.pos \in Nat /\ polled \in Nat
      /\ shown["changelog"] <= done.pos /\ done.pos <= polled /\ polled <= Len(Input)
      /\ shown \in [Sink -> Nat]
  BY DEF FlowInv, Sink, Checkpoint
<1>2. Input \in Seq(Record \cup {Poison}) /\ Len(Input) \in Nat
  BY InputRows DEF InputFacts
<1>3. /\ changelog' = changelog \o SubSeq(Input, shown["changelog"] + 1, done.pos)
      /\ shown' = [shown EXCEPT !["changelog"] = done.pos]
  BY DEF CommitChangelog
<1>4. shown'["changelog"] = done.pos
  BY <1>1, <1>3 DEF Sink
<1>5. PICK a \in Nat : a = shown["changelog"]
  BY <1>1
<1>6. PICK b \in Nat : b = done.pos
  BY <1>1
<1> DEFINE slice == SubSeq(Input, a + 1, b)
<1>7. a <= b /\ b <= Len(Input)
  BY <1>1, <1>2, <1>5, <1>6
<1>8. /\ slice \in Seq(Record \cup {Poison}) /\ Len(slice) = b - a
      /\ \A i \in 1 .. b - a : slice[i] = Input[a + i]
  BY <1>2, <1>7, Sliced
<1>9. changelog' = changelog \o slice
  BY <1>3, <1>5, <1>6
<1> HIDE DEF slice
<1>10. /\ changelog \o slice \in Seq(Record \cup {Poison})
       /\ Len(changelog \o slice) = Len(changelog) + Len(slice)
       /\ \A i \in 1 .. Len(changelog) : (changelog \o slice)[i] = changelog[i]
       /\ \A i \in 1 .. Len(changelog) + Len(slice) : i > Len(changelog) =>
            i - Len(changelog) \in 1 .. Len(slice)
            /\ (changelog \o slice)[i] = slice[i - Len(changelog)]
  BY <1>8, JoinedSeq
<1>11. ASSUME drill \in Counted, NEW c \in Nat, Log(c) PROVE Log(c)'
  <2>1. /\ Len(Input) <= Events
        /\ \A i \in 1 .. Len(Input) : Input[i] = [row |-> i, version |-> 1]
    BY <1>11, CountedInput
  <2>2. /\ Len(changelog) = c + a
        /\ \A i \in 1 .. Len(changelog) :
             changelog[i] = [row |-> IF i <= c THEN i ELSE i - c, version |-> 1]
    BY <1>5, <1>11 DEF Log
  <2>3. Len(changelog') = c + b
    BY <1>7, <1>8, <1>9, <1>10, <2>2
  <2>4. ASSUME NEW i \in 1 .. Len(changelog')
        PROVE  changelog'[i] = [row |-> IF i <= c THEN i ELSE i - c, version |-> 1]
    <3>1. CASE i <= Len(changelog)
      <4>1. i \in 1 .. Len(changelog)
        BY <2>2, <2>3, <3>1
      <4>2. changelog'[i] = changelog[i]
        BY <1>9, <1>10, <4>1
      <4> QED BY <2>2, <4>1, <4>2
    <3>2. CASE ~(i <= Len(changelog))
      <4>1. i \in 1 .. Len(changelog) + Len(slice) /\ i > Len(changelog) /\ i \in Nat
        BY <1>8, <1>9, <1>10, <2>2, <3>2
      <4>2. /\ i - Len(changelog) \in 1 .. Len(slice)
            /\ changelog'[i] = slice[i - Len(changelog)]
        BY <1>9, <1>10, <4>1
      <4>3. PICK k \in 1 .. b - a : k = i - Len(changelog)
        BY <1>8, <4>2
      <4>4. changelog'[i] = Input[a + k]
        BY <1>8, <4>2, <4>3
      <4>5. a + k \in 1 .. Len(Input) /\ a + k = i - c /\ ~(i <= c)
        BY <1>2, <1>7, <2>2, <4>1, <4>3
      <4>6. Input[a + k] = [row |-> a + k, version |-> 1]
        BY <2>1, <4>5
      <4> QED BY <4>4, <4>5, <4>6
    <3> QED BY <3>1, <3>2
  <2>5. shown'["changelog"] = b
    BY <1>4, <1>6
  <2> QED BY <2>3, <2>4, <2>5 DEF Log
<1>12. drill \in Counted => done.pos <= Events
  <2>1. drill \in Counted => Len(Input) <= Events
    BY CountedInput
  <2> QED BY <1>1, <1>2, <2>1, OptionsAssumption
<1> QED BY <1>1, <1>4, <1>9, <1>10, <1>11, <1>12

LEMMA LogKeeps ==
  ASSUME ScriptInv, SourceInv, TopicInv, FlowInv, StateInv, LogInv, FlowInv', [Next]_vars
  PROVE  LogInv'
<1>1. changelog \in Seq(Record \cup {Poison}) /\ Events \in Nat /\ shown["changelog"] \in Nat
  BY OptionsAssumption DEF LogInv, FlowInv, Sink
<1>2. CASE Idles \/ Flows
  <2>1. F' = F /\ drill' = drill
    BY <1>2, PhaseStays
  <2>2. CASE Flows /\ CommitChangelog
    <3>1. /\ changelog' \in Seq(Record \cup {Poison}) /\ shown'["changelog"] = done.pos
          /\ drill \in Counted =>
               /\ shown["changelog"] <= done.pos /\ done.pos <= Events
               /\ \A c \in Nat : Log(c) => Log(c)'
      BY <1>1, <2>2, LogGrows
    <3>2. drill \in Counted => (Log(0) => Log(0)') /\ (Log(Events) => Log(Events)')
      BY <1>1, <3>1
    <3>3. drill \in Counted /\ "all" \in F => shown'["changelog"] = Events
      <4>1. done.pos \in Nat
        BY DEF FlowInv, Checkpoint
      <4> QED BY <1>1, <3>1, <4>1 DEF LogInv
    <3> QED BY <2>1, <3>1, <3>2, <3>3 DEF LogInv
  <2>3. CASE ~(Flows /\ CommitChangelog)
    <3>1. changelog' = changelog /\ shown'["changelog"] = shown["changelog"]
      BY <1>2, <2>3 DEF Idles, Rest, Flows, InsertRow, Capture, Poll, CompleteCheckpoint,
                        CommitGroup, CommitCurrent, tables, FlowInv, Sink
    <3> QED BY <2>1, <3>1 DEF LogInv, Log
  <2> QED BY <2>2, <2>3
<1>3. CASE Go /\ Moves
  <2> DEFINE op == Step.do
  <2>1. /\ Ready(drill, Step, P) /\ JobGoes /\ WaitGoes /\ drill' = drill
        /\ \A f \in F' : (f \in F /\ f \notin Lost(op)) \/ Learned(Step, P, f)
    BY <1>3, PhaseGoes, StepReady DEF Moves, Go
  <2>2. changelog' = IF op = "reset_tables" THEN <<>> ELSE changelog
    BY <2>1 DEF JobGoes
  <2>3. changelog' \in Seq(Record \cup {Poison})
    BY <1>1, <2>2
  <2>4. CASE op \in Submits /\ drill \in Counted
    <3>1. op # "reset_tables" /\ op \notin {"check_changelog", "await_changelog"}
      BY <2>4 DEF Submits
    <3>2. shown'["changelog"] = 0
      <4>1. shown' = [s \in Sink |-> start']
        BY <2>1, <2>4 DEF JobGoes
      <4>2. start' = 0
        BY <2>1, <2>4 DEF FlowInv
      <4> QED BY <4>1, <4>2 DEF Sink
    <3>3. changelog' = changelog
      BY <2>2, <3>1
    <3>4. /\ "first" \in F' => "blank" \in F
          /\ "again" \in F' => {"first", "all"} \subseteq F
          /\ "all" \notin F'
      BY <2>1, <2>4, <3>1 DEF Lost, Learned, OfTheJob, F
    <3>5. "first" \in F' => Log(0)'
      <4>1. "first" \in F' => changelog = <<>>
        BY <3>4 DEF StateInv
      <4>2. changelog' = <<>> => Len(changelog') = 0
        OBVIOUS
      <4> QED BY <3>2, <3>3, <4>1, <4>2 DEF Log
    <3>6. "again" \in F' => Log(Events)'
      <4>1. "again" \in F' => Log(0) /\ shown["changelog"] = Events
        BY <2>4, <3>4 DEF LogInv
      <4>2. ASSUME "again" \in F' PROVE Log(Events)'
        <5>1. Len(changelog) = Events
          BY <1>1, <4>1, <4>2 DEF Log
        <5>2. ASSUME NEW i \in 1 .. Len(changelog)
              PROVE  changelog[i] = [row |-> IF i <= Events THEN i ELSE i - Events, version |-> 1]
          <6>1. changelog[i] = [row |-> IF i <= 0 THEN i ELSE i - 0, version |-> 1]
            BY <4>1, <4>2 DEF Log
          <6>2. i <= Events /\ ~(i <= 0) /\ i - 0 = i
            BY <1>1, <5>1
          <6> QED BY <6>1, <6>2
        <5> QED BY <1>1, <3>2, <3>3, <5>1, <5>2 DEF Log
      <4> QED BY <4>2
    <3> QED BY <2>1, <2>3, <3>4, <3>5, <3>6 DEF LogInv
  <2>5. CASE op \notin Submits /\ drill \in Counted
    <3>1. shown' = shown
      BY <2>1, <2>5 DEF JobGoes
    <3>2. /\ {"first", "again", "all"} \cap F' # {} => op # "reset_tables"
          /\ "first" \in F' => "first" \in F
          /\ "again" \in F' => "again" \in F
      BY <2>1, <2>5 DEF Lost, Learned, Submits
    <3>3. "all" \in F' => \/ "all" \in F
                          \/ op = "check_changelog" /\ Step.n = Events /\ "first" \in F
                          \/ op = "await_changelog" /\ Step.n = 2 * Events /\ "again" \in F
      BY <2>1 DEF Learned, F
    <3>4. "all" \in F' => shown["changelog"] = Events
      <4>1. CASE op = "check_changelog" /\ Step.n = Events /\ "first" \in F
        <5>1. Log(0) /\ LogRows = Events
          BY <2>1, <2>5, <4>1 DEF LogInv, WaitGoes
        <5>2. LogRows = Len(changelog)
          BY <1>1, <5>1, LogIsFull
        <5> QED BY <1>1, <5>1, <5>2 DEF Log
      <4>2. CASE op = "await_changelog" /\ Step.n = 2 * Events /\ "again" \in F
        <5>1. Log(Events) /\ LogRows = 2 * Events
          BY <2>1, <2>5, <4>2 DEF LogInv, WaitGoes
        <5>2. LogRows = Len(changelog)
          BY <1>1, <5>1, LogIsFull
        <5> QED BY <1>1, <5>1, <5>2 DEF Log
      <4>3. CASE "all" \in F
        BY <2>5, <4>3 DEF LogInv
      <4> QED BY <3>3, <4>1, <4>2, <4>3
    <3>5. {"first", "again", "all"} \cap F' # {} => changelog' = changelog
      BY <2>2, <3>2
    <3> QED BY <2>1, <2>3, <2>5, <3>1, <3>2, <3>4, <3>5 DEF LogInv, Log
  <2>6. CASE drill \notin Counted
    BY <2>1, <2>3, <2>6 DEF LogInv
  <2> QED BY <2>4, <2>5, <2>6
<1> QED BY <1>2, <1>3, NextCases

-----------------------------------------------------------------------------
(* How a drill ends. *)

\* A step leaves the verdict, or it is the last of the drill: it concludes or raises.
Unjudged ==
  UNCHANGED <<verdict, reason>> /\ (UNCHANGED script \/ verdict = "none")
Raises ==
  /\ verdict' = "failed"
  /\ \/ reason' \in {"error", "answer_lost"}
     \/ Step.do = "verdict" /\ reason' = "offsets_advanced"
     \/ Step.do = "verdict" /\ reason' = "assertions" /\ ~AssertionsHold
     \/ Step.do \in Checks /\ reason' = Step.do /\ ~Holds(Step.do)
Judged ==
  /\ verdict = "none" /\ UNCHANGED script
  /\ (Step.do = "verdict" /\ verdict' = "passed" /\ reason' = reason) \/ Raises

LEMMA VerdictMoves ==
  ASSUME ScriptInv, [Next]_vars PROVE Unjudged \/ Judged
<1> USE DEF Unjudged, script
<1>1. CASE UNCHANGED vars
  BY <1>1 DEF vars, harness
<1>2. CASE Followed /\ (PipelineStep \/ TaskFails)
  BY <1>2, SystemSteps DEF SystemMoves, harness
<1>3. CASE DrillStep
  <2>1. CASE Finally
    BY <2>1 DEF Finally
  <2>2. CASE Conclude
    BY <2>2 DEF Conclude, Raise, Judged, Raises, At
  <2>3. CASE Check
    <3>1. CASE Holds(Step.do)
      BY <2>3, <3>1 DEF Check, Go
    <3>2. CASE ~Holds(Step.do)
      BY <2>3, <3>2 DEF Check, Raise, Judged, Raises
    <3> QED BY <3>1, <3>2
  <2>4. CASE RestartFailedTask
    BY <2>4 DEF RestartFailedTask, harness
  <2>5. CASE ~Finally /\ ~Conclude /\ ~Check /\ ~RestartFailedTask
    <3>1. Go
      BY <1>3, <2>5 DEF DrillStep, Flag, SubmitJob, StartProducer, ReleaseGate, InsertSourceRow,
         UpdateSweep, ProduceBinary, ProduceProbe, RegisterSchema, KillKafka, StartKafka,
         SetConnectorState, CancelJob, RewindGroup, ResetTables, Await, Read, ReadSnapshots
    <3>2. verdict = "none"
      BY <1>3, <2>5 DEF DrillStep, Flag, SubmitJob, StartProducer, ReleaseGate, InsertSourceRow,
         UpdateSweep, ProduceBinary, ProduceProbe, RegisterSchema, KillKafka, StartKafka,
         SetConnectorState, CancelJob, RewindGroup, ResetTables, Await, Arrived, Read,
         ReadSnapshots, At
    <3> QED BY <3>1, <3>2 DEF Go
  <2> QED BY <2>1, <2>2, <2>3, <2>4, <2>5
<1>4. CASE StepRaises \/ AnswerLost
  BY <1>4 DEF StepRaises, AnswerLost, Raise, Judged, Raises, At
<1> QED BY <1>1, <1>2, <1>3, <1>4 DEF Next

\* The connector of the schema drill does not fail, since no broker is killed.
ConnInv == drill = "schema_contract" => connector # "FAILED"
LEMMA ConnKeeps ==
  ASSUME ScriptInv, KafkaInv, ConnInv, drill' = drill, [Next]_vars PROVE ConnInv'
<1>1. CASE UNCHANGED vars
  BY <1>1 DEF ConnInv, vars, pipeline, debezium
<1>2. CASE TaskFails
  BY <1>2 DEF TaskFails, KafkaInv, ConnInv
<1>3. CASE Followed /\ PipelineStep
  <2>1. connector' \in {connector, "PAUSED"}
    BY <1>3 DEF PipelineStep, InsertRow, Capture, PauseTakesEffect, JobStarts, Poll,
       CompleteCheckpoint, CommitGroup, CommitChangelog, CommitCurrent, JobEnds, debezium
  <2> QED BY <2>1 DEF ConnInv
<1>4. CASE DrillStep \/ StepRaises \/ AnswerLost
  <2>1. connector' \in {connector, "RUNNING", "PAUSING"}
    <3>1. CASE Finally
      BY <3>1 DEF Finally
    <3>2. CASE RestartFailedTask
      BY <3>2 DEF RestartFailedTask
    <3>3. CASE DrillGoes \/ DrillEnds
      BY <3>3 DEF DrillGoes, DrillEnds
    <3>4. CASE StepRaises \/ AnswerLost
      BY <3>4, Errors DEF DrillEnds
    <3>5. CASE DrillStep /\ ~Finally /\ ~RestartFailedTask /\ ~DrillGoes /\ ~DrillEnds
      <4> USE DEF debezium, pipeline, still
      <4>1. ASSUME Flag \/ SubmitJob \/ StartProducer \/ ReleaseGate \/ InsertSourceRow
                   \/ UpdateSweep \/ ProduceBinary \/ ProduceProbe \/ RegisterSchema
            PROVE  connector' = connector
        BY <4>1 DEF Flag, SubmitJob, StartProducer, ReleaseGate, InsertSourceRow, UpdateSweep,
                    ProduceBinary, ProduceProbe, RegisterSchema
      <4>2. ASSUME KillKafka \/ StartKafka \/ CancelJob \/ RewindGroup \/ ResetTables
                   \/ Await \/ Read \/ ReadSnapshots \/ Check \/ Conclude
            PROVE  connector' = connector
        BY <4>2 DEF KillKafka, StartKafka, CancelJob, RewindGroup, ResetTables, Await, Read,
                    ReadSnapshots, Check, Conclude, Raise
      <4>3. ASSUME SetConnectorState PROVE connector' \in {"PAUSING", "RUNNING"}
        BY <4>3 DEF SetConnectorState
      <4> QED BY <3>5, <4>1, <4>2, <4>3 DEF DrillStep
    <3> QED BY <1>4, <3>1, <3>2, <3>3, <3>4, <3>5
  <2> QED BY <2>1 DEF ConnInv
<1> QED BY <1>1, <1>2, <1>3, <1>4 DEF Next

-----------------------------------------------------------------------------
(* What the drills assert. *)

LEMMA Pair ==
  ASSUME NEW a, NEW b, a # b PROVE Cardinality({a, b}) = 2
<1>1. IsFiniteSet({a}) /\ Cardinality({a}) = 1
  BY FS_Singleton
<1>2. {a, b} = {a} \cup {b} /\ b \notin {a}
  OBVIOUS
<1>3. Cardinality({a} \cup {b}) = Cardinality({a}) + 1
  BY <1>1, <1>2, FS_AddElement
<1> QED BY <1>1, <1>2, <1>3

\* Of two deliveries, each row has two places.
LEMMA TwoCopies ==
  ASSUME changelog \in Seq(Record \cup {Poison}), Log(Events), shown["changelog"] = Events,
         NEW r \in 1 .. Events
  PROVE  Copies([row |-> r, version |-> 1]) = 2
<1>1. Events \in Nat /\ Len(changelog) = Events + Events
  BY OptionsAssumption DEF Log
<1>2. Logged = 1 .. Len(changelog)
  BY LogIsFull
<1>3. ASSUME NEW i \in 1 .. Len(changelog)
      PROVE  changelog[i] = [row |-> r, version |-> 1] <=> i = r \/ i = Events + r
  <2>1. changelog[i] = [row |-> IF i <= Events THEN i ELSE i - Events, version |-> 1]
    BY DEF Log
  <2>2. changelog[i] = [row |-> r, version |-> 1]
          <=> (IF i <= Events THEN i ELSE i - Events) = r
    BY <2>1
  <2>3. (IF i <= Events THEN i ELSE i - Events) = r <=> i = r \/ i = Events + r
    BY <1>1
  <2> QED BY <2>2, <2>3
<1>4. r \in 1 .. Len(changelog) /\ Events + r \in 1 .. Len(changelog) /\ r # Events + r
  BY <1>1
<1>5. {i \in Logged : changelog[i] = [row |-> r, version |-> 1]} = {r, Events + r}
  BY <1>2, <1>3, <1>4
<1> QED BY <1>4, <1>5, Pair DEF Copies

\* A probe that was sent as the script says shows what a wrong key does: the three
\* records are in partitions of their own, and out of order.
Scattered(a, b, c) ==
  /\ probe[a] = [keyed |-> FALSE, event |-> 1, partition |-> 1]
  /\ probe[b] = [keyed |-> FALSE, event |-> 3, partition |-> 2]
  /\ probe[c] = [keyed |-> FALSE, event |-> 2, partition |-> 3]
LEMMA Hazard ==
  ASSUME NEW a \in Nat, NEW b \in Nat, NEW c \in Nat, a < b, b < c, Scattered(a, b, c)
  PROVE  /\ Cardinality(Partitions({a, b, c})) = 3 /\ Violations({a, b, c}) > 0
         /\ \E i \in {a, b, c} : (\A j \in {a, b, c} : j <= i) /\ probe[i].event # 3
<1>1. /\ probe[a].partition = 1 /\ probe[b].partition = 2 /\ probe[c].partition = 3
      /\ probe[b].event = 3 /\ probe[c].event = 2
  BY DEF Scattered
<1>2. Partitions({a, b, c}) = {1, 2, 3}
  BY <1>1 DEF Partitions
<1> DEFINE V == {i \in {a, b, c} :
                   \E j \in {a, b, c} : Adjacent(i, j, {a, b, c}) /\ probe[j].event <= probe[i].event}
<1>3. Adjacent(b, c, {a, b, c})
  BY DEF Adjacent
<1>4. b \in V
  BY <1>1, <1>3
<1>5. V \subseteq {a, b, c}
  OBVIOUS
<1>6. IsFiniteSet({a, b, c})
  <2>1. IsFiniteSet({a}) /\ IsFiniteSet({b}) /\ IsFiniteSet({c})
    BY FS_Singleton
  <2>2. IsFiniteSet({a} \cup {b})
    BY <2>1, FS_Union
  <2>3. IsFiniteSet(({a} \cup {b}) \cup {c})
    BY <2>1, <2>2, FS_Union
  <2>4. {a, b, c} = ({a} \cup {b}) \cup {c}
    OBVIOUS
  <2> QED BY <2>3, <2>4
<1>7. Violations({a, b, c}) = Cardinality(V)
  BY DEF Violations
<1>8. Cardinality(V) \in Nat /\ Cardinality(V) # 0
  <2> HIDE DEF V
  <2>1. IsFiniteSet(V)
    BY <1>5, <1>6, FS_Subset
  <2> QED BY <1>4, <2>1, FS_CardinalityType, FS_EmptySet
<1>9. Violations({a, b, c}) > 0
  <2> HIDE DEF V
  <2> QED BY <1>7, <1>8
<1>10. Cardinality({1, 2, 3}) = 3
  <2>1. PICK n \in Nat : n = 3
    OBVIOUS
  <2>2. {1, 2, 3} = 1 .. n
    BY <2>1
  <2>3. Cardinality(1 .. n) = n
    BY FS_Interval
  <2> QED BY <2>1, <2>2, <2>3
<1> QED BY <1>1, <1>2, <1>9, <1>10

LEMMA ArrivalIs == Arrival[1] = 1 /\ Arrival[2] = 3 /\ Arrival[3] = 2
BY DEF Arrival

\* In the SLO run these are all,
LEMMA SloProbe ==
  ASSUME ProbeInv, drill = "broker_slo", P.probed = 3 PROVE ProbeShowsHazard
<1> DEFINE keyed == {i \in DOMAIN probe : probe[i].keyed}
           miskeyed == DOMAIN probe \ keyed
<1>1. probe \in Seq(Probe) /\ DOMAIN probe = 1 .. 3 /\ Len(probe) = 3
  BY DEF ProbeInv
<1>2. \A i \in 1 .. 3 : probe[i] = [keyed |-> FALSE, event |-> Arrival[i], partition |-> i]
  BY <1>1 DEF ProbeInv, Probing, ProbeRecord
<1>3. Scattered(1, 2, 3)
  <2>1. 1 \in 1 .. 3 /\ 2 \in 1 .. 3 /\ 3 \in 1 .. 3
    OBVIOUS
  <2> QED BY <1>2, <2>1, ArrivalIs DEF Scattered
<1>4. keyed = {}
  BY <1>1, <1>2
<1>5. miskeyed = {1, 2, 3}
  BY <1>1, <1>4
<1>6. Violations({}) = 0
  BY FS_EmptySet DEF Violations
<1>7. /\ Cardinality(Partitions({1, 2, 3})) = 3 /\ Violations({1, 2, 3}) > 0
      /\ \E i \in {1, 2, 3} : (\A j \in {1, 2, 3} : j <= i) /\ probe[i].event # 3
  BY <1>3, Hazard
<1>8. /\ Violations(keyed) = 0 /\ Cardinality(Partitions(miskeyed)) = 3
      /\ Violations(miskeyed) > 0
      /\ \E i \in miskeyed : (\A j \in miskeyed : j <= i) /\ probe[i].event # 3
  BY <1>4, <1>5, <1>6, <1>7
<1> QED BY <1>8 DEF ProbeShowsHazard

\* in the ordering drill they come after three that are keyed as they should be.
LEMMA OrderingProbe ==
  ASSUME ProbeInv, drill = "ordering_miskey", P.probed = 6 PROVE ProbeShowsHazard
<1> DEFINE keyed == {i \in DOMAIN probe : probe[i].keyed}
           miskeyed == DOMAIN probe \ keyed
<1>1. probe \in Seq(Probe) /\ DOMAIN probe = 1 .. 6 /\ Len(probe) = 6
  BY DEF ProbeInv
<1>2. \A i \in 1 .. 6 : probe[i] = ProbeRecord(i)
  BY <1>1 DEF ProbeInv, Probing
<1>3. ASSUME NEW i \in 1 .. 3 PROVE probe[i] = [keyed |-> TRUE, event |-> i, partition |-> 1]
  <2>1. i \in 1 .. 6 /\ i <= 3
    OBVIOUS
  <2>2. ProbeRecord(i) = [keyed |-> TRUE, event |-> i, partition |-> 1]
    BY <2>1 DEF ProbeRecord
  <2> QED BY <1>2, <2>1, <2>2
<1>4. ASSUME NEW n \in 1 .. 3
      PROVE  probe[n + 3] = [keyed |-> FALSE, event |-> Arrival[n], partition |-> n]
  <2>1. PICK i \in 1 .. 6 : i = n + 3
    OBVIOUS
  <2>2. ~(i <= 3) /\ i - 3 = n
    BY <2>1
  <2>3. ProbeRecord(i) = [keyed |-> FALSE, event |-> Arrival[i - 3], partition |-> i - 3]
    BY <2>2 DEF ProbeRecord
  <2>4. ProbeRecord(i) = [keyed |-> FALSE, event |-> Arrival[n], partition |-> n]
    BY <2>2, <2>3
  <2> QED BY <1>2, <2>1, <2>4
<1>5. Scattered(4, 5, 6)
  <2>1. /\ probe[1 + 3] = [keyed |-> FALSE, event |-> Arrival[1], partition |-> 1]
        /\ probe[2 + 3] = [keyed |-> FALSE, event |-> Arrival[2], partition |-> 2]
        /\ probe[3 + 3] = [keyed |-> FALSE, event |-> Arrival[3], partition |-> 3]
    BY <1>4
  <2>2. 1 + 3 = 4 /\ 2 + 3 = 5 /\ 3 + 3 = 6
    OBVIOUS
  <2> QED BY <2>1, <2>2, ArrivalIs DEF Scattered
<1>6. keyed = {1, 2, 3} /\ miskeyed = {4, 5, 6}
  <2>1. probe[1].keyed /\ probe[2].keyed /\ probe[3].keyed
    BY <1>3
  <2>2. ~probe[4].keyed /\ ~probe[5].keyed /\ ~probe[6].keyed
    BY <1>5 DEF Scattered
  <2>3. DOMAIN probe = {1, 2, 3, 4, 5, 6}
    BY <1>1
  <2> QED BY <2>1, <2>2, <2>3
<1>7. Cardinality(Partitions({1, 2, 3})) = 1
  <2>1. probe[1].partition = 1 /\ probe[2].partition = 1 /\ probe[3].partition = 1
    BY <1>3
  <2>2. Partitions({1, 2, 3}) = {1}
    BY <2>1 DEF Partitions
  <2> QED BY <2>2, FS_Singleton
<1>8. Violations({1, 2, 3}) = 0
  <2>1. ASSUME NEW i \in {1, 2, 3}, NEW j \in {1, 2, 3}, Adjacent(i, j, {1, 2, 3})
        PROVE  ~(probe[j].event <= probe[i].event)
    <3>1. i < j /\ i \in 1 .. 3 /\ j \in 1 .. 3
      BY <2>1 DEF Adjacent
    <3>2. probe[i].event = i /\ probe[j].event = j
      BY <1>3, <3>1
    <3> QED BY <3>1, <3>2
  <2>2. {i \in {1, 2, 3} :
          \E j \in {1, 2, 3} : Adjacent(i, j, {1, 2, 3}) /\ probe[j].event <= probe[i].event} = {}
    BY <2>1
  <2> QED BY <2>2, FS_EmptySet DEF Violations
<1>9. /\ Cardinality(Partitions({4, 5, 6})) = 3 /\ Violations({4, 5, 6}) > 0
      /\ \E i \in {4, 5, 6} : (\A j \in {4, 5, 6} : j <= i) /\ probe[i].event # 3
  BY <1>5, Hazard
<1>10. /\ Cardinality(Partitions(keyed)) = 1 /\ Violations(keyed) = 0
       /\ Cardinality(Partitions(miskeyed)) = 3 /\ Violations(miskeyed) > 0
       /\ \E i \in miskeyed : (\A j \in miskeyed : j <= i) /\ probe[i].event # 3
  BY <1>6, <1>7, <1>8, <1>9
<1> QED BY <1>10 DEF ProbeShowsHazard

\* Of the assertions on the way, only those fail that look at something under way,
LookOnce == {"check_producer", "check_changelog", "check_replayed"}
LEMMA ChecksHold ==
  ASSUME ScriptInv, PauseInv, StateInv, ReadInv, SchemaInv, ProbeInv, ConnInv,
         verdict = "none", Step.do \in Checks \ LookOnce
  PROVE  Holds(Step.do)
<1> DEFINE op == Step.do
<1>1. MayCheck(drill, Step, P) /\ ~cleaned
  BY StepReady DEF Ready, ScriptInv
<1>2. CASE op = "check_reconciled"
  BY <1>1, <1>2 DEF MayCheck, ReadInv, F, Holds
<1>3. CASE op = "check_original"
  BY <1>1, <1>3 DEF MayCheck, ReadInv, F, Holds
<1>4. CASE op = "check_kept"
  BY <1>1, <1>4 DEF MayCheck, ReadInv, F, Holds
<1>5. CASE op = "check_connector"
  <2>1. drill = "schema_contract"
    BY <1>1, <1>5 DEF MayCheck
  <2>2. connector = "RUNNING"
    BY <2>1 DEF ConnInv, PauseInv, Paused, ScriptInv
  <2> QED BY <1>5, <2>2 DEF Holds
<1>6. CASE op = "check_listed"
  BY <1>1, <1>6 DEF MayCheck, StateInv, F, Holds
<1>7. CASE op = "check_rejected"
  BY <1>1, <1>7 DEF MayCheck, SchemaInv, F, Holds
<1>8. CASE op = "check_unprobed"
  <2>1. probe \in Seq(Probe) /\ Len(probe) = 0
    BY <1>1, <1>8 DEF MayCheck, ProbeInv
  <2> QED BY <1>8, <2>1 DEF Holds
<1>9. CASE op = "check_probe"
  <2>1. drill \in Probing /\ P.probed = IF drill = "broker_slo" THEN 3 ELSE 6
    BY <1>1, <1>9 DEF MayCheck
  <2>2. ProbeShowsHazard
    BY <2>1, SloProbe, OrderingProbe DEF Probing
  <2> QED BY <1>9, <2>2 DEF Holds
<1> QED BY <1>2, <1>3, <1>4, <1>5, <1>6, <1>7, <1>8, <1>9 DEF Checks, LookOnce

\* and what a drill asserts last holds.
LEMMA LastAssertions ==
  ASSUME ScriptInv, SourceInv, ReadInv, SeenInv, LogInv, Step.do = "verdict"
  PROVE  AssertionsHold
<1>1. MayCheck(drill, Step, P)
  BY StepReady DEF Ready
<1>2. drill # "schema_contract" => seen.table = seen.source
  BY <1>1 DEF MayCheck, ReadInv, F
<1>3. drill \notin {"broker_parity", "schema_contract"} => seen.audited
  BY <1>1 DEF MayCheck, ReadInv, F, Early
<1>4. drill \in {"broker_parity", "offset_replay"} =>
        seen.table = seen.original /\ seen.original = SourceTable
  BY <1>1 DEF MayCheck, ReadInv, F
<1>5. drill = "broker_restart" => link.checkpoint.id > seen.before.id
  BY <1>1 DEF MayCheck, SeenInv, F
<1>6. drill = "duplicate_redelivery" =>
        \A r \in 1 .. Events : Copies([row |-> r, version |-> 1]) = 2
  <2>1. drill = "duplicate_redelivery" => Log(Events) /\ shown["changelog"] = Events
    BY <1>1 DEF MayCheck, LogInv, F, Counted
  <2>2. changelog \in Seq(Record \cup {Poison})
    BY DEF LogInv
  <2> QED BY <2>1, <2>2, TwoCopies
<1>7. drill \in {"poison_dlq", "schema_contract"} => seen.after.id > seen.before.id
  BY <1>1 DEF MayCheck, SeenInv, F
<1>8. drill = "offset_replay" => \A r \in Present(seen.original) : seen.original[r] = 2
  <2>1. drill = "offset_replay" => P.ver = 2
    BY <1>1 DEF MayCheck
  <2>2. SourceTable = RowsOf(R, P.ver)
    BY SourceType DEF SourceFacts
  <2> QED BY <1>4, <2>1, <2>2 DEF RowsOf, Present
<1> QED BY <1>2, <1>3, <1>4, <1>5, <1>6, <1>7, <1>8 DEF AssertionsHold

\* So a drill that raises does so for a reason that is known.
VerdictInv ==
  /\ reason \in Reason /\ OnlyKnownAlarms
  /\ verdict = "passed" => Step.do = "verdict"
LEMMA VerdictKeeps ==
  ASSUME ScriptInv, SourceInv, PauseInv, StateInv, ReadInv, SeenInv, SchemaInv, LogInv, ProbeInv,
         ConnInv, VerdictInv, [Next]_vars
  PROVE  VerdictInv'
<1>1. CASE Unjudged
  BY <1>1 DEF Unjudged, VerdictInv, OnlyKnownAlarms, script, Step
<1>2. CASE Judged
  <2>1. verdict = "none" /\ Step' = Step
    BY <1>2 DEF Judged, script, Step
  <2>2. CASE Step.do = "verdict" /\ verdict' = "passed" /\ reason' = reason
    BY <2>1, <2>2 DEF VerdictInv, OnlyKnownAlarms
  <2>3. CASE Raises
    <3>1. reason' # "assertions"
      BY <2>3, LastAssertions DEF Raises, Checks
    <3>2. Step.do \in Checks /\ ~Holds(Step.do) => Step.do \in LookOnce
      BY <2>1, ChecksHold
    <3>3. reason' \in {"error", "answer_lost", "offsets_advanced"} \cup LookOnce
      BY <2>3, <3>1, <3>2 DEF Raises
    <3> QED BY <2>3, <3>3 DEF VerdictInv, OnlyKnownAlarms, LookOnce, Reason, Checks, Raises
  <2> QED BY <1>2, <2>2, <2>3 DEF Judged
<1> QED BY <1>1, <1>2, VerdictMoves

-----------------------------------------------------------------------------
(* The invariant as a whole. *)

BInv ==
  /\ IInv /\ SourceInv /\ TopicInv /\ FlowInv /\ StateInv /\ TableInv
  /\ NotesInv /\ ReadInv /\ SeenInv /\ LinkInv /\ SchemaInv /\ LogInv /\ ProbeInv /\ DlqInv
  /\ ConnInv /\ VerdictInv

LEMMA InitBInv == Init => BInv
<1> SUFFICES ASSUME Init PROVE BInv
  OBVIOUS
<1> USE DEF Init
<1>1. IInv
  BY InitInv
<1>2. P = Nowhere
  BY Planned DEF P
<1>3. /\ P.due = 0 /\ P.ver = 1 /\ P.probed = 0
      /\ F = {"idle", "gone", "fresh", "blank", "clean"}
  BY <1>2 DEF Nowhere, Phase, F
<1>4. Events \in Nat
  BY OptionsAssumption
<1>5. SourceInv
  <2>1. R = 0
    BY <1>3 DEF R
  <2>2. BinlogOf(0, 1) = <<>>
    BY DEF BinlogOf
  <2> QED BY <1>3, <1>4, <2>1, <2>2 DEF SourceInv
<1>6. TopicInv
  BY DEF TopicInv
<1>7. FlowInv
  BY <1>4 DEF FlowInv, Checkpoint, NoCheckpoint
<1>8. StateInv
  BY <1>3 DEF StateInv
<1>9. TableInv
  BY <1>3 DEF TableInv, Table, NoRows, Version
<1>10. NotesInv
  BY <1>9 DEF NotesInv, Seen, Link, NoLink, NoCheckpoint, Checkpoint, TableInv
<1>11. ReadInv /\ SeenInv
  BY <1>3 DEF ReadInv, SeenInv
<1>12. LinkInv
  BY DEF LinkInv, LinkageCoversOffsets, NoLink
<1>13. SchemaInv
  BY <1>3 DEF SchemaInv
<1>14. LogInv
  BY <1>3 DEF LogInv
<1>15. ProbeInv
  BY <1>3 DEF ProbeInv
<1>16. DlqInv
  BY <1>3 DEF DlqInv
<1>17. ConnInv /\ VerdictInv
  BY DEF ConnInv, VerdictInv, OnlyKnownAlarms, Reason
<1> QED BY <1>1, <1>5, <1>6, <1>7, <1>8, <1>9, <1>10, <1>11, <1>12, <1>13, <1>14, <1>15, <1>16,
           <1>17 DEF BInv

LEMMA NextBInv == BInv /\ [Next]_vars => BInv'
<1> SUFFICES ASSUME BInv, [Next]_vars PROVE BInv'
  OBVIOUS
<1>1. /\ IInv /\ SourceInv /\ TopicInv /\ FlowInv /\ StateInv /\ TableInv
      /\ NotesInv /\ ReadInv /\ SeenInv /\ LinkInv /\ SchemaInv /\ LogInv /\ ProbeInv /\ DlqInv
      /\ ConnInv /\ VerdictInv
  BY DEF BInv
<1>2. ScriptInv /\ GroupInv /\ PauseInv /\ KafkaInv
  BY <1>1 DEF IInv
<1>3. SeenShape /\ changelog \in Seq(Record \cup {Poison})
  BY <1>1, SeenIsShaped DEF NotesInv, LogInv
<1>4. IInv' /\ ScriptInv'
  BY <1>1, NextInv DEF IInv
<1>5. SourceInv'
  BY <1>1, <1>2, SourceKeeps
<1>6. drill' = drill
  BY <1>1, <1>2, <1>4, <1>5, SourceGrows
<1>7. TopicInv'
  BY <1>1, <1>2, <1>4, <1>5, TopicKeeps
<1>8. FlowInv'
  BY <1>1, <1>2, <1>3, <1>4, <1>5, <1>7, FlowKeeps
<1>9. StateInv'
  BY <1>1, <1>2, StateKeeps
<1>10. TableInv'
  BY <1>1, <1>2, <1>4, <1>5, TableKeeps
<1>11. NotesInv'
  BY <1>1, <1>2, <1>3, NotesKeep
<1>12. ReadInv'
  BY <1>1, <1>2, ReadKeeps
<1>13. SeenInv'
  BY <1>1, <1>2, SeenKeeps
<1>14. LinkInv'
  BY <1>1, <1>2, LinkKeeps
<1>15. SchemaInv'
  BY <1>1, <1>2, SchemaKeeps
<1>16. LogInv'
  BY <1>1, <1>2, <1>8, LogKeeps
<1>17. ProbeInv'
  BY <1>1, <1>2, ProbeKeeps
<1>18. DlqInv'
  BY <1>1, <1>2, DlqKeeps
<1>19. ConnInv'
  BY <1>1, <1>2, <1>6, ConnKeeps
<1>20. VerdictInv'
  BY <1>1, <1>2, VerdictKeeps
<1> QED BY <1>4, <1>5, <1>7, <1>8, <1>9, <1>10, <1>11, <1>12, <1>13, <1>14, <1>15, <1>16, <1>17,
           <1>18, <1>19, <1>20 DEF BInv

\* Of every drill, and wherever it is, what its script has got it to know is true.
THEOREM KnownIsTrue == Spec => []BInv
BY InitBInv, NextBInv, PTL DEF Spec

-----------------------------------------------------------------------------

LEMMA ScriptDomain ==
  \A d \in Drills : DOMAIN Script[d] = 1 .. Len(Script[d])
<1>1. ASSUME NEW d \in DOMAIN Script PROVE \E q : Leads(d, Script[d], Nowhere, q)
  BY <1>1, ParityLeads, SchemaLeads, RestartLeads, DuplicateLeads, OrderingLeads, PoisonLeads,
     ReplayLeads, SloLeads DEF Script
<1>2. ASSUME NEW d, NEW s, \E q : Leads(d, s, Nowhere, q) PROVE DOMAIN s = 1 .. Len(s)
  BY <1>2 DEF Leads
<1>3. \A d \in DOMAIN Script : DOMAIN Script[d] = 1 .. Len(Script[d])
  BY <1>1, <1>2
<1> QED BY <1>3, DrillsAssumption

\* Every variable keeps its type: no step of a drill or of the pipeline leaves a job
\* that read more than there is, or offsets and checkpoints beyond what was read.
THEOREM TypeCorrect == Spec => []TypeOK
<1>1. BInv => TypeOK
  <2> SUFFICES ASSUME BInv PROVE TypeOK
    OBVIOUS
  <2>1. /\ ScriptInv /\ SourceInv /\ TopicInv /\ FlowInv /\ TableInv
        /\ NotesInv /\ SchemaInv /\ LogInv /\ ProbeInv /\ DlqInv /\ VerdictInv
    BY DEF BInv, IInv
  <2>2. binlog \in Seq(Record)
    BY <2>1, SourceType DEF SourceFacts
  <2>3. pc \in DOMAIN Script[drill]
    <3>1. DOMAIN Script[drill] = 1 .. Len(Script[drill])
      BY <2>1, ScriptDomain DEF ScriptInv
    <3> QED BY <2>1, <3>1 DEF ScriptInv
  <2>4. /\ start \in Nat /\ polled \in Nat /\ polled <= Len(Input) /\ Len(Input) \in Nat
        /\ done.pos \in Nat /\ done.pos <= polled
        /\ \A s \in Sink : shown[s] \in Nat /\ start <= shown[s] /\ shown[s] <= done.pos
    BY <2>1, InputRows DEF FlowInv, InputFacts, Checkpoint
  <2>5. polled \in start .. Len(Input)
    <3>1. "current" \in Sink
      BY DEF Sink
    <3>2. start <= shown["current"] /\ shown["current"] <= done.pos /\ shown["current"] \in Nat
      BY <2>4, <3>1
    <3> QED BY <2>4, <3>2
  <2>6. shown \in [Sink -> 0 .. Len(Input)]
    <3>1. \A s \in Sink : shown[s] \in 0 .. Len(Input)
      BY <2>4
    <3> QED BY <2>1, <3>1 DEF FlowInv
  <2>7. versions \subseteq Schema
    BY <2>1 DEF SchemaInv, Schema
  <2> QED BY <2>1, <2>2, <2>3, <2>4, <2>5, <2>6, <2>7
          DEF TypeOK, ScriptInv, SourceInv, TopicInv, FlowInv, TableInv, NotesInv, LogInv,
              ProbeInv, DlqInv, VerdictInv
<1> QED BY <1>1, KnownIsTrue, PTL

\* The table a drill records with offsets has every row of them, though it reads one
\* after the other and a group without lag does not say that a table is complete.
THEOREM LinkagesCover == Spec => []LinkageCoversOffsets
<1>1. BInv => LinkageCoversOffsets
  BY DEF BInv, LinkInv
<1> QED BY <1>1, KnownIsTrue, PTL

\* A drill that passes tells the truth: the whole workload is in the source and, row by
\* row, in the table; what it says was delivered twice was, and what it says was
\* rejected or updated.
THEOREM PassesAreTrue == Spec => []PassIsTrue
<1>1. BInv => PassIsTrue
  <2> SUFFICES ASSUME BInv, verdict = "passed" PROVE PassIsTrue
    BY DEF PassIsTrue
  <2>1. /\ ScriptInv /\ SourceInv /\ TableInv /\ SeenInv /\ LogInv /\ DlqInv
        /\ Step.do = "verdict"
    BY DEF BInv, IInv, VerdictInv
  <2>2. MayCheck(drill, Step, P)
    BY <2>1, StepReady DEF Ready
  <2>3. /\ current = SourceTable /\ toInsert = 0 /\ P.due = Rows(drill)
    BY <2>1, <2>2 DEF MayCheck, TableInv, F
  <2>4. /\ Cardinality(Present(SourceTable)) = R /\ R = P.due - toInsert /\ P.due \in Nat
        /\ SourceTable = RowsOf(R, P.ver)
    BY <2>1, SourceType DEF SourceFacts
  <2>5. Cardinality(Present(SourceTable)) = Rows(drill)
    BY <2>3, <2>4
  <2>6. Rows(drill) = Workload
    BY DEF Rows, Workload, Poisoned
  <2>7. changelog \in Seq(Record \cup {Poison}) /\ Events \in Nat
    BY <2>1, OptionsAssumption DEF LogInv
  <2>8. drill = "broker_parity" => LogRows = Events
    <3>1. drill = "broker_parity" => Log(0) /\ shown["changelog"] = Events
      BY <2>1, <2>2 DEF MayCheck, LogInv, F, Counted
    <3>2. Log(0) => LogRows = Len(changelog)
      BY <2>7, LogIsFull
    <3> QED BY <2>7, <3>1, <3>2 DEF Log
  <2>9. drill = "duplicate_redelivery" => LogRows = 2 * Events
    <3>1. drill = "duplicate_redelivery" => Log(Events) /\ shown["changelog"] = Events
      BY <2>1, <2>2 DEF MayCheck, LogInv, F, Counted
    <3>2. Log(Events) => LogRows = Len(changelog)
      BY <2>7, LogIsFull
    <3> QED BY <2>7, <3>1, <3>2 DEF Log
  <2>10. drill = "poison_dlq" => dlq = 1
    BY <2>1, <2>2 DEF MayCheck, DlqInv, F
  <2>11. drill = "offset_replay" => \A r \in Present(current) : current[r] = 2
    <3>1. drill = "offset_replay" => P.ver = 2
      BY <2>1, <2>2 DEF MayCheck
    <3> QED BY <2>3, <2>4, <3>1 DEF RowsOf, Present
  <2>12. drill = "schema_contract" => seen.after.pos = Len(topic)
    BY <2>1, <2>2 DEF MayCheck, SeenInv, F
  <2> QED BY <2>3, <2>5, <2>6, <2>8, <2>9, <2>10, <2>11, <2>12 DEF PassIsTrue
<1> QED BY <1>1, KnownIsTrue, PTL

\* No assertion of a drill fails over a pipeline that keeps its promises, but for the
\* four that look once at something still under way.
THEOREM AlarmsAreKnown == Spec => []OnlyKnownAlarms
<1>1. BInv => OnlyKnownAlarms
  BY DEF BInv, VerdictInv
<1> QED BY <1>1, KnownIsTrue, PTL
=============================================================================
