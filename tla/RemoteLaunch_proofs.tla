------------------------- MODULE RemoteLaunch_proofs -------------------------
(***************************************************************************)
(* Theorems about RemoteLaunch, for any number of launchers, commands and  *)
(* kills.  Type correctness holds whenever connections drop; the rest only *)
(* when none drops before the session exists, as the run remote_overlap    *)
(* shows.                                                                  *)
(***************************************************************************)
EXTENDS RemoteLaunch, FiniteSetTheorems, TLAPS

-----------------------------------------------------------------------------
(* The inductive invariant. *)

\* A launcher that has not got to streaming.
Launching == Step \ (Streaming \cup {"gone"})

\* Past its first look at the .active file a launcher has a run.
KnowsRun ==
  \A l \in Launcher : pc[l] \notin {"gone", "examine", "launch"} => mine[l] \in Run

Typed == TypeOK /\ KnowsRun

\* At most one command is on its way to a session.
OneLaunching ==
  \A l, m \in Launcher : pc[l] \in Launching /\ pc[m] \in Launching => l = m

\* Only the run of the .active file can be at work, its status file says so,
\* and later run ids are unused.
OnlyActiveWorks ==
  /\ \A r \in Working : r = active /\ status[r] = "RUNNING"
  /\ \A r \in Run : r > active => outcome[r] = "open" /\ r \notin session

\* A launcher that has found no run at work is right until it starts its own.
NoneWorks ==
  \A l \in Launcher :
    pc[l] \in {"decide", "launch", "mark", "guard", "create"} => Working = {}

\* The run a launcher is about to start is the active one and has not begun.
NotBegun ==
  \A l \in Launcher :
    /\ pc[l] \in {"probe", "decide"} => mine[l] = active
    /\ pc[l] \in {"mark", "guard", "create"} =>
         mine[l] = active /\ mine[l] \notin session /\ outcome[mine[l]] = "open"
    /\ pc[l] \in {"guard", "create"} => status[mine[l]] = "RUNNING"

\* The run a launcher streams has begun, with the right revision or found
\* under way; once its session was missed it stays missed.
Begun ==
  \A l \in Launcher :
    /\ pc[l] \in Streaming =>
         /\ mine[l] \in session \/ outcome[mine[l]] # "open"
         /\ resume[l] \/ revision[mine[l]] = request[l].revision
    /\ pc[l] = "recheck" => mine[l] \notin session

\* A status of zero is the target's own word.
ZeroIsTrue == \A r \in Run : status[r] = "0" => outcome[r] = "0"

IInv ==
  /\ Typed /\ OneLaunching /\ OnlyActiveWorks /\ NoneWorks /\ NotBegun
  /\ Begun /\ ZeroIsTrue /\ StatusIsOutcome

-----------------------------------------------------------------------------
(* Type correctness. *)

\* Every state has its type, and from its first look at the .active file to
\* its end a launcher has a run: no status is written for run 0.
LEMMA TypedInductive ==
  /\ Init => Typed
  /\ Typed /\ [Next]_vars => Typed'
<1>1. NoRequest \in Request /\ \A q \in Request : q.revision \in Revision
  BY RequestAssumption DEF NoRequest, Revision
<1>2. (CHOOSE any \in Revision : TRUE) \in Revision
  BY <1>1
<1>3. Init => Typed
  BY <1>1, <1>2, BoundsAssumption
  DEF Init, Typed, TypeOK, KnowsRun, Run, Code, Step
<1> SUFFICES ASSUME Typed, [Next]_vars PROVE Typed'
  BY <1>3
<1> DEFINE LauncherTyped ==
             /\ commands \in 0 .. MaxCommands
             /\ pc \in [Launcher -> Step] /\ request \in [Launcher -> Request]
             /\ mine \in [Launcher -> 0 .. MaxCommands]
             /\ resume \in [Launcher -> BOOLEAN]
             /\ KnowsRun
<1> USE BoundsAssumption DEF Typed, TypeOK, KnowsRun, Run, Code, Step
<1>2a. ASSUME NEW l \in Launcher, Leave(l)
       PROVE LauncherTyped'
  BY <1>1, <1>2a DEF Leave, GoTo, LauncherTyped
<1>2b. ASSUME NEW l \in Launcher, NEW step \in Step, Stay(l, step),
              pc[l] \notin {"gone", "examine", "launch"} \/ step \in {"launch"}
       PROVE LauncherTyped'
  BY <1>2b DEF Stay, GoTo, LauncherTyped
<1>4. ASSUME NEW l \in Launcher, Start(l) PROVE Typed'
  BY <1>4 DEF Start, GoTo, files, runs
<1>5. ASSUME NEW l \in Launcher, Examine(l) PROVE Typed'
  BY <1>5 DEF Examine, GoTo, files, runs
<1>6. ASSUME NEW l \in Launcher, Probe(l) PROVE Typed'
  BY <1>6 DEF Probe, GoTo, HasSession, files, runs
<1>7. ASSUME NEW l \in Launcher, Decide(l) PROVE Typed'
  BY <1>7 DEF Decide, Stay, GoTo, files, runs
<1>8. ASSUME NEW l \in Launcher, WriteActive(l) PROVE Typed'
  BY <1>8 DEF WriteActive, GoTo, runs
<1>9. ASSUME NEW l \in Launcher, MarkRunning(l) PROVE Typed'
  BY <1>9 DEF MarkRunning, Marker, Stay, GoTo, runs
<1>10. ASSUME NEW l \in Launcher, Guard(l) PROVE Typed'
  <2>1. UNCHANGED <<active, runs>> /\ status' \in [Run -> Code \cup {"none", "RUNNING"}]
    BY <1>10 DEF Guard
  <2>2. LauncherTyped'
    BY <1>2a, <1>2b, <1>10 DEF Guard
  <2> QED
    BY <2>1, <2>2 DEF LauncherTyped, runs
<1>11. ASSUME NEW l \in Launcher, CreateSession(l) PROVE Typed'
  <2>1. /\ UNCHANGED <<active, outcome, kills>>
        /\ status' \in [Run -> Code \cup {"none", "RUNNING"}]
        /\ session' \subseteq Run /\ revision' \in [Run -> Revision]
    <3>1. mine[l] \in Run /\ request[l].revision \in Revision
      BY <1>1, <1>11 DEF CreateSession
    <3>2. /\ UNCHANGED <<active, outcome, kills>>
          /\ \/ UNCHANGED status
             \/ status' = [status EXCEPT ![mine[l]] = "1"]
          /\ \/ UNCHANGED <<session, revision>>
             \/ /\ session' = session \cup {mine[l]}
                /\ revision' = [revision EXCEPT ![mine[l]] = request[l].revision]
      BY <1>11 DEF CreateSession
    <3> QED BY <3>1, <3>2
  <2>2. LauncherTyped'
    BY <1>2a, <1>2b, <1>11 DEF CreateSession
  <2> QED
    BY <2>1, <2>2 DEF LauncherTyped
<1>12. ASSUME NEW l \in Launcher, Poll(l) PROVE Typed'
  <2>1. LauncherTyped'
    BY <1>2a, <1>2b, <1>12 DEF Poll
  <2> QED
    BY <2>1, <1>12 DEF LauncherTyped, Poll, files, runs
<1>13. ASSUME NEW l \in Launcher, Look(l) PROVE Typed'
  BY <1>13 DEF Look, Stay, GoTo, files, runs
<1>14. ASSUME NEW l \in Launcher, Recheck(l) PROVE Typed'
  BY <1>14 DEF Recheck, Stay, GoTo, runs
<1>15. ASSUME NEW l \in Launcher, Killed(l) PROVE Typed'
  BY <1>1, <1>15 DEF Killed, Leave, GoTo, files, runs
<1>16. ASSUME NEW r \in Run, TargetEnds(r) PROVE Typed'
  BY <1>16 DEF TargetEnds, launcher
<1>17. ASSUME NEW r \in Run, SessionEnds(r) PROVE Typed'
  BY <1>17 DEF SessionEnds, files, launcher
<1>18. ASSUME NEW r \in Run, SessionVanishes(r) PROVE Typed'
  BY <1>18 DEF SessionVanishes, files, launcher
<1>19. CASE UNCHANGED vars
  BY <1>19 DEF vars, files, runs, launcher
<1> QED
  BY <1>4, <1>5, <1>6, <1>7, <1>8, <1>9, <1>10, <1>11, <1>12, <1>13, <1>14,
     <1>15, <1>16, <1>17, <1>18, <1>19
  DEF Next, LauncherStep, RunStep

\* The files, the sessions and the launchers have their types, whenever
\* connections drop.
THEOREM TypeCorrect == Spec => []TypeOK
  BY TypedInductive, PTL DEF Spec, Typed

-----------------------------------------------------------------------------
(* Safety. *)

\* The inductive invariant is one, if no connection drops before its session
\* exists.
LEMMA IInvInductive ==
  ASSUME ~DropAnytime
  PROVE  /\ Init => IInv
         /\ IInv /\ [Next]_vars => IInv'
<1> DEFINE Rest == /\ OneLaunching /\ OnlyActiveWorks /\ NoneWorks /\ NotBegun
                   /\ Begun /\ ZeroIsTrue /\ StatusIsOutcome
<1>1. Init => IInv
  <2> SUFFICES ASSUME Init PROVE Rest
    BY TypedInductive DEF IInv
  <2> QED
    BY BoundsAssumption
    DEF Init, OneLaunching, OnlyActiveWorks, NoneWorks, NotBegun, Begun,
        ZeroIsTrue, StatusIsOutcome, Working, Launching, Streaming, Step, Run
<1> SUFFICES ASSUME IInv, [Next]_vars PROVE Rest'
  BY <1>1, TypedInductive DEF IInv
<1>2. MaxCommands \in Nat /\ Typed /\ Typed'
  BY TypedInductive, BoundsAssumption DEF IInv
<1>2a. ASSUME active = 0 \/ active \notin session \/ status[active] # "RUNNING"
       PROVE  Working = {}
  <2>1. \A r \in Working : r \in Run /\ r \in session
    BY <1>2 DEF Working, Typed, TypeOK
  <2>2. \A r \in Working : r = active /\ status[r] = "RUNNING"
    BY DEF IInv, OnlyActiveWorks
  <2> QED BY <1>2a, <2>1, <2>2 DEF Run
<1>3. ASSUME NEW l \in Launcher, WriteActive(l)
      PROVE  \E run \in Run :
               /\ \/ run = active + 1
                  \/ run = active /\ outcome[run] = "open"
               /\ active' = run /\ mine' = [mine EXCEPT ![l] = run]
  BY <1>3 DEF WriteActive
<1> USE <1>2
    DEF IInv, OneLaunching, OnlyActiveWorks, NoneWorks, NotBegun, Begun,
        ZeroIsTrue, StatusIsOutcome, Working, Launching, Streaming,
        Typed, TypeOK, KnowsRun, Run, Code, Step
<1>4. ASSUME NEW l \in Launcher, Start(l) PROVE Rest'
  BY <1>4 DEF Start, GoTo, files, runs
<1>5. ASSUME NEW l \in Launcher, Examine(l) PROVE Rest'
  <2>1. OneLaunching'
    BY <1>5 DEF Examine, GoTo, files, runs
  <2>2. OnlyActiveWorks'
    BY <1>5 DEF Examine, GoTo, files, runs
  <2>3. NoneWorks'
    <3>0. pc'[l] \in {"decide", "launch"} => active = 0 \/ status[active] # "RUNNING"
      BY <1>5 DEF Examine, GoTo
    <3>1. pc'[l] \in {"decide", "launch"} => Working = {}
      BY <3>0, <1>2a DEF OnlyActiveWorks
    <3>2. Working' = Working /\ \A m \in Launcher \ {l} : pc'[m] = pc[m]
      BY <1>5 DEF Examine, GoTo, runs
    <3>3. pc'[l] \in {"launch", "probe", "decide"}
      BY <1>5 DEF Examine, GoTo
    <3> SUFFICES ASSUME NEW m \in Launcher,
                        pc'[m] \in {"decide", "launch", "mark", "guard", "create"}
                 PROVE  Working = {}
      BY <3>2 DEF NoneWorks
    <3>4. CASE m = l
      BY <3>1, <3>3, <3>4
    <3>5. CASE m # l
      BY <3>2, <3>5 DEF NoneWorks
    <3> QED BY <3>4, <3>5
  <2>4. NotBegun'
    BY <1>5 DEF Examine, GoTo, files, runs
  <2>5. Begun'
    BY <1>5 DEF Examine, GoTo, files, runs
  <2>6. (ZeroIsTrue /\ StatusIsOutcome)'
    BY <1>5 DEF Examine, GoTo, files, runs
  <2> QED BY <2>1, <2>2, <2>3, <2>4, <2>5, <2>6
<1>6. ASSUME NEW l \in Launcher, Probe(l) PROVE Rest'
  <2>1. OneLaunching'
    BY <1>6 DEF Probe, GoTo, HasSession, files, runs
  <2>2. OnlyActiveWorks'
    BY <1>6 DEF Probe, GoTo, HasSession, files, runs
  <2>3. NoneWorks'
    <3>0. pc'[l] = "decide" => active \notin session
      BY <1>6 DEF Probe, GoTo, HasSession, NotBegun
    <3>1. pc'[l] = "decide" => Working = {}
      BY <3>0, <1>2a DEF OnlyActiveWorks
    <3>2. Working' = Working /\ \A m \in Launcher \ {l} : pc'[m] = pc[m]
      BY <1>6 DEF Probe, GoTo, runs
    <3>3. pc'[l] \in {"poll", "decide"}
      BY <1>6 DEF Probe, GoTo
    <3> QED BY <3>1, <3>2, <3>3 DEF NoneWorks
  <2>4. NotBegun'
    BY <1>6 DEF Probe, GoTo, HasSession, files, runs
  <2>5. Begun'
    <3>1. CASE mine[l] \in session
      <4>1. resume' = [resume EXCEPT ![l] = TRUE]
            /\ pc' = [pc EXCEPT ![l] = "poll"]
        BY <1>6, <3>1 DEF Probe, GoTo, HasSession
      <4> QED BY <1>6, <3>1, <4>1 DEF Probe, files, runs
    <3>2. CASE mine[l] \notin session
      <4>1. pc' = [pc EXCEPT ![l] = "decide"]
            /\ \A m \in Launcher \ {l} : resume'[m] = resume[m]
        BY <1>6, <3>2 DEF Probe, GoTo, HasSession
      <4> QED BY <1>6, <3>2, <4>1 DEF Probe, files, runs
    <3> QED BY <3>1, <3>2
  <2>6. (ZeroIsTrue /\ StatusIsOutcome)'
    BY <1>6 DEF Probe, GoTo, HasSession, files, runs
  <2> QED BY <2>1, <2>2, <2>3, <2>4, <2>5, <2>6
<1>7. ASSUME NEW l \in Launcher, Decide(l) PROVE Rest'
  <2>1. CASE Completed(l) /\ Stay(l, "poll")
    <3>1. status[mine[l]] = "0" /\ revision[mine[l]] = request[l].revision
      BY <2>1 DEF Completed, EndedWell
    <3> QED BY <1>7, <2>1, <3>1 DEF Decide, Stay, GoTo, files, runs
  <2>2. CASE Stay(l, "launch")
    BY <1>7, <2>2 DEF Decide, Stay, GoTo, files, runs
  <2> QED BY <1>7, <2>1, <2>2 DEF Decide
<1>8. ASSUME NEW l \in Launcher, WriteActive(l) PROVE Rest'
  <2>0. PICK run \in Run :
          /\ \/ run = active + 1
             \/ run = active /\ outcome[run] = "open"
          /\ active' = run /\ mine' = [mine EXCEPT ![l] = run]
    BY <1>3, <1>8
  <2>1. /\ pc[l] = "launch" /\ pc' = [pc EXCEPT ![l] = "mark"]
        /\ UNCHANGED <<status, session, outcome, revision, request, resume>>
    BY <1>8 DEF WriteActive, GoTo, runs
  <2>2. Working = {} /\ Working' = {}
    BY <2>1 DEF NoneWorks
  <2>3. run \notin session /\ outcome[run] = "open"
    <3>1. CASE run = active + 1
      BY <3>1 DEF OnlyActiveWorks
    <3>2. CASE run = active /\ outcome[run] = "open"
      BY <2>2, <3>2
    <3> QED BY <2>0, <3>1, <3>2
  <2>4. OneLaunching' /\ NoneWorks'
    BY <2>1, <2>2
  <2>5. OnlyActiveWorks'
    <3>1. ASSUME NEW r \in Run, r > run
          PROVE  outcome[r] = "open" /\ r \notin session
      BY <2>0, <3>1
    <3> QED BY <2>0, <2>1, <2>2, <3>1
  <2>6. NotBegun'
    <3> SUFFICES ASSUME NEW m \in Launcher
                 PROVE  /\ pc'[m] \in {"probe", "decide"} => mine'[m] = active'
                        /\ pc'[m] \in {"mark", "guard", "create"} =>
                             /\ mine'[m] = active' /\ mine'[m] \notin session
                             /\ outcome[mine'[m]] = "open"
                        /\ pc'[m] \in {"guard", "create"} =>
                             status[mine'[m]] = "RUNNING"
      BY <2>1
    <3>1. CASE m = l
      BY <2>0, <2>1, <2>3, <3>1
    <3>2. CASE m # l
      <4>1. pc'[m] = pc[m]
        BY <2>1, <3>2
      <4>2. pc[l] \in Launching /\ (pc[m] \in Launching => m = l)
        BY <2>1
      <4> QED BY <3>2, <4>1, <4>2
    <3> QED BY <3>1, <3>2
  <2>7. Begun'
    BY <2>0, <2>1
  <2>8. ZeroIsTrue' /\ StatusIsOutcome'
    BY <2>1
  <2> QED BY <2>4, <2>5, <2>6, <2>7, <2>8
<1>9. ASSUME NEW l \in Launcher, MarkRunning(l) PROVE Rest'
  BY <1>9 DEF MarkRunning, Marker, Stay, GoTo, runs
<1>10. ASSUME NEW l \in Launcher, Guard(l) PROVE Rest'
  <2>1. OneLaunching'
    BY <1>10 DEF Guard, Stay, Leave, GoTo, runs
  <2>2. OnlyActiveWorks'
    BY <1>10 DEF Guard, Stay, Leave, GoTo, runs
  <2>3. NoneWorks'
    BY <1>10 DEF Guard, Stay, Leave, GoTo, runs
  <2>4. NotBegun'
    BY <1>10 DEF Guard, Stay, Leave, GoTo, runs
  <2>5. Begun'
    BY <1>10 DEF Guard, Stay, Leave, GoTo, runs
  <2>6. (ZeroIsTrue /\ StatusIsOutcome)'
    BY <1>10 DEF Guard, Stay, Leave, GoTo, runs
  <2> QED BY <2>1, <2>2, <2>3, <2>4, <2>5, <2>6
<1>11. ASSUME NEW l \in Launcher, CreateSession(l) PROVE Rest'
  <2> DEFINE run == mine[l]
  <2>0. /\ pc[l] = "create" /\ run = active /\ run \in Run /\ run \notin session
        /\ outcome[run] = "open" /\ status[run] = "RUNNING" /\ Working = {}
    BY <1>11 DEF CreateSession, NotBegun, NoneWorks
  <2>1. \A m \in Launcher \ {l} : pc[m] \in {"gone"} \cup Streaming
    BY <2>0 DEF OneLaunching
  <2>2. \A m \in Launcher : pc[m] \in Streaming => mine[m] # run
    BY <2>0 DEF Begun
  <2>3. CASE /\ session' = session \cup {run}
             /\ revision' = [revision EXCEPT ![run] = request[l].revision]
             /\ Stay(l, "poll") /\ UNCHANGED <<active, status, outcome>>
    <3>1. /\ pc' = [pc EXCEPT ![l] = "poll"]
          /\ UNCHANGED <<request, mine, resume>>
      BY <2>3 DEF Stay, GoTo
    <3>2. Working' = {run}
      BY <2>0, <2>3
    <3>3. \A m \in Launcher : pc'[m] \in {"gone"} \cup Streaming
      BY <2>1, <3>1
    <3>4. OneLaunching' /\ NoneWorks' /\ NotBegun'
      BY <3>3
    <3>5. OnlyActiveWorks'
      BY <2>0, <2>3, <3>2
    <3>6. Begun'
      <4> SUFFICES ASSUME NEW m \in Launcher, pc'[m] \in Streaming
                   PROVE  /\ mine[m] \in session' \/ outcome[mine[m]] # "open"
                          /\ resume[m] \/ revision'[mine[m]] = request[m].revision
                          /\ pc'[m] = "recheck" => mine[m] \notin session'
        BY <2>3, <3>1
      <4>1. CASE m = l
        BY <2>0, <2>3, <3>1, <4>1
      <4>2. CASE m # l
        BY <2>0, <2>2, <2>3, <3>1, <4>2
      <4> QED BY <4>1, <4>2
    <3>7. ZeroIsTrue' /\ StatusIsOutcome'
      BY <2>3
    <3> QED BY <3>4, <3>5, <3>6, <3>7
  <2>4. CASE /\ status' = [status EXCEPT ![run] = "1"] /\ Leave(l)
             /\ UNCHANGED <<active, session, revision, outcome>>
    <3>1. /\ pc'[l] = "gone"
          /\ \A m \in Launcher \ {l} :
               /\ pc'[m] = pc[m] /\ mine'[m] = mine[m]
               /\ request'[m] = request[m] /\ resume'[m] = resume[m]
      BY <2>4 DEF Leave, GoTo
    <3>2. \A m \in Launcher : pc'[m] \in {"gone"} \cup Streaming
      BY <2>1, <3>1
    <3>3. OneLaunching' /\ NoneWorks' /\ NotBegun'
      BY <3>2
    <3>4. OnlyActiveWorks'
      BY <2>0, <2>4
    <3>5. Begun'
      BY <2>4, <3>1
    <3>6. ZeroIsTrue' /\ StatusIsOutcome'
      BY <2>0, <2>4
    <3> QED BY <3>3, <3>4, <3>5, <3>6
  <2> QED BY <1>11, <2>3, <2>4 DEF CreateSession
<1>12. ASSUME NEW l \in Launcher, Poll(l) PROVE Rest'
  <2>1. OneLaunching'
    BY <1>12 DEF Poll, Stay, Leave, GoTo, files, runs
  <2>2. OnlyActiveWorks'
    BY <1>12 DEF Poll, Stay, Leave, GoTo, files, runs
  <2>3. NoneWorks'
    BY <1>12 DEF Poll, Stay, Leave, GoTo, files, runs
  <2>4. NotBegun'
    BY <1>12 DEF Poll, Stay, Leave, GoTo, files, runs
  <2>5. Begun'
    BY <1>12 DEF Poll, Stay, Leave, GoTo, files, runs
  <2>6. (ZeroIsTrue /\ StatusIsOutcome)'
    BY <1>12 DEF Poll, Stay, Leave, GoTo, files, runs
  <2> QED BY <2>1, <2>2, <2>3, <2>4, <2>5, <2>6
<1>13. ASSUME NEW l \in Launcher, Look(l) PROVE Rest'
  BY <1>13 DEF Look, Stay, GoTo, HasSession, files, runs
<1>14. ASSUME NEW l \in Launcher, Recheck(l) PROVE Rest'
  BY <1>14 DEF Recheck, StillRunning, Stay, GoTo, runs
<1>15. ASSUME NEW l \in Launcher, Killed(l) PROVE Rest'
  BY <1>15 DEF Killed, Leave, GoTo, files, runs
<1>16. ASSUME NEW r \in Run, TargetEnds(r) PROVE Rest'
  BY <1>16 DEF TargetEnds, launcher
<1>17. ASSUME NEW r \in Run, SessionEnds(r) PROVE Rest'
  BY <1>17 DEF SessionEnds, files, launcher
<1>18. ASSUME NEW r \in Run, SessionVanishes(r) PROVE Rest'
  BY <1>18 DEF SessionVanishes, files, launcher
<1>19. CASE UNCHANGED vars
  BY <1>19 DEF vars, files, runs, launcher
<1> QED
  BY <1>4, <1>5, <1>6, <1>7, <1>8, <1>9, <1>10, <1>11, <1>12, <1>13, <1>14,
     <1>15, <1>16, <1>17, <1>18, <1>19
  DEF Next, LauncherStep, RunStep

\* However often the command is repeated, and whatever launchers and sessions
\* are killed, two runs of a target never work on the same containers.
THEOREM OneRunAtATime == ASSUME ~DropAnytime PROVE Spec => []OneRun
<1>1. IInv => OneRun
  <2> SUFFICES ASSUME IInv PROVE Cardinality(Working) <= 1
    BY DEF OneRun
  <2>1. Working \subseteq {active}
    BY DEF IInv, OnlyActiveWorks
  <2>2. IsFiniteSet({active}) /\ Cardinality({active}) = 1
    BY FS_Singleton
  <2> QED
    BY <2>1, <2>2, FS_Subset
<1> QED
  BY <1>1, IInvInductive, PTL DEF Spec

\* A launcher reports success only of a run that ended well, with the revision
\* asked for or found under way.
THEOREM ExitsAreTrue == ASSUME ~DropAnytime PROVE Spec => []TrueExit
<1>1. IInv => TrueExit
  BY DEF IInv, TrueExit, Typed, KnowsRun, Begun, Streaming, ZeroIsTrue
<1> QED
  BY <1>1, IInvInductive, PTL DEF Spec

\* No launcher overwrites the exit code a target wrote.
THEOREM StatusIsKept == ASSUME ~DropAnytime PROVE Spec => []StatusIsOutcome
<1>1. IInv => StatusIsOutcome
  BY DEF IInv
<1> QED
  BY <1>1, IInvInductive, PTL DEF Spec
=============================================================================
