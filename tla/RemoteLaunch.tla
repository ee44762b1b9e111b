---------------------------- MODULE RemoteLaunch ----------------------------
(***************************************************************************)
(* launch-broker-target.sh and run-broker-target.sh: a remote target runs  *)
(* in a tmux session that survives the SSH connection it was started from. *)
(* The launchers of one target and phase share nothing but files: the      *)
(* .active file with the id of the last run, and a status file per run.    *)
(* When SSH drops the operator repeats the command; the new launcher has   *)
(* to find out what became of the run, and the old one may be alive still. *)
(*                                                                         *)
(* Status files hold RUNNING or an exit code, "1" standing for all but     *)
(* zero.  A request is the revision that the provenance line of a run's    *)
(* log names, and the --fresh flag.                                        *)
(***************************************************************************)
EXTENDS Naturals, FiniteSets

CONSTANTS
  Launcher,    \* processes: at most so many launchers at a time
  Request,     \* what an instance asks for: revision, that is git sha and
               \* resource profile, and --fresh flag
  MaxCommands, \* bound: commands the operator issues
  MaxKills,    \* bound: sessions that vanish
  DropAnytime  \* SSH may drop before the session exists

ASSUME RequestAssumption ==
  Request # {} /\ \A q \in Request : q.fresh \in BOOLEAN
ASSUME BoundsAssumption ==
  MaxCommands \in Nat \ {0} /\ MaxKills \in Nat /\ DropAnytime \in BOOLEAN

VARIABLES
  active,    \* run id in the .active file, 0: no such file
  status,    \* run -> contents of its status file, "none": no such file
  session,   \* runs whose tmux session exists
  outcome,   \* run -> exit code of its target, "open": not ended, "lost": killed
  revision,  \* run -> revision it was started with
  commands, kills, \* how many so far
  pc, request, mine, resume \* of each launcher

files == <<active, status>>
runs == <<session, outcome, revision, kills>>
launcher == <<commands, pc, request, mine, resume>>
vars == <<files, runs, launcher>>

Run == 1 .. MaxCommands
Code == {"0", "1"}
Revision == {q.revision : q \in Request}
NoRequest == CHOOSE any \in Request : TRUE
Step == {"examine", "probe", "decide", "launch", "mark", "guard",
         "create", "poll", "look", "recheck", "gone"}

TypeOK ==
  /\ active \in 0 .. MaxCommands
  /\ status \in [Run -> Code \cup {"none", "RUNNING"}]
  /\ session \subseteq Run
  /\ outcome \in [Run -> {"open", "0", "1", "lost"}]
  /\ revision \in [Run -> Revision]
  /\ commands \in 0 .. MaxCommands /\ kills \in 0 .. MaxKills
  /\ pc \in [Launcher -> Step]
  /\ request \in [Launcher -> Request]
  /\ mine \in [Launcher -> 0 .. MaxCommands]
  /\ resume \in [Launcher -> BOOLEAN]

Init ==
  /\ active = 0 /\ status = [r \in Run |-> "none"]
  /\ session = {} /\ outcome = [r \in Run |-> "open"]
  /\ revision = [r \in Run |-> CHOOSE any \in Revision : TRUE]
  /\ request = [l \in Launcher |-> NoRequest]
  /\ commands = 0 /\ kills = 0
  /\ pc = [l \in Launcher |-> "gone"]
  /\ mine = [l \in Launcher |-> 0]
  /\ resume = [l \in Launcher |-> FALSE]

GoTo(l, step) == pc' = [pc EXCEPT ![l] = step]

Leave(l) ==
  /\ GoTo(l, "gone")
  /\ request' = [request EXCEPT ![l] = NoRequest]
  /\ mine' = [mine EXCEPT ![l] = 0] /\ resume' = [resume EXCEPT ![l] = FALSE]
  /\ UNCHANGED commands

Stay(l, step) ==
  /\ GoTo(l, step)
  /\ UNCHANGED <<commands, request, mine, resume>>

Working == {r \in session : outcome[r] = "open"}

-----------------------------------------------------------------------------
(* The launcher. *)

\* SSH may drop, and the operator issue the command again, with the old
\* launcher alive: while it streams, or at any moment.
Streaming == {"poll", "look", "recheck"}

\* The operator issues the command, for the first time or again.
Start(l) ==
  /\ pc[l] = "gone" /\ commands < MaxCommands
  /\ \A other \in Launcher : pc[other] \in {"gone"} \cup Streaming \/ DropAnytime
  /\ commands' = commands + 1
  /\ \E asked \in Request : request' = [request EXCEPT ![l] = asked]
  /\ GoTo(l, "examine")
  /\ UNCHANGED <<files, runs, mine, resume>>

Examine(l) ==
  /\ pc[l] = "examine"
  /\ mine' = [mine EXCEPT ![l] = active]
  /\ GoTo(l, IF active = 0 THEN "launch"
             ELSE IF status[active] = "RUNNING" THEN "probe" ELSE "decide")
  /\ UNCHANGED <<files, runs, commands, request, resume>>

\* tmux has-session, and tests that would always or never find one.
AlwaysThere(r) == TRUE
NeverThere(r) == FALSE
HasSession(r) == r \in session

Probe(l) ==
  /\ pc[l] = "probe"
  /\ resume' = [resume EXCEPT ![l] = HasSession(mine[l])]
  /\ GoTo(l, IF HasSession(mine[l]) THEN "poll" ELSE "decide")
  /\ UNCHANGED <<files, runs, commands, request, mine>>

\* The run the .active file names has done what is asked for; or, forgetting
\* the provenance, it has ended well.
EndedWell(l) == ~request[l].fresh /\ status[mine[l]] = "0"
Completed(l) == EndedWell(l) /\ revision[mine[l]] = request[l].revision

\* The log of the run and the result it was to leave must be there too.  What
\* else happens to the checkout is left out, so they may be gone at any time.
Decide(l) ==
  /\ pc[l] = "decide"
  /\ \/ Completed(l) /\ Stay(l, "poll")
     \/ Stay(l, "launch")
  /\ UNCHANGED <<files, runs>>

\* A run id is the time in seconds: the last one's again within its second.
\* Bound: the id of a run that has ended is not, that is, no session is created
\* and ends within the second of its command.
WriteActive(l) ==
  /\ pc[l] = "launch"
  /\ \E r \in Run :
       /\ \/ r = active + 1
          \/ r = active /\ outcome[r] = "open"
       /\ active' = r /\ mine' = [mine EXCEPT ![l] = r]
  /\ GoTo(l, "mark")
  /\ UNCHANGED <<status, runs, commands, request, resume>>

\* What the launcher writes first is what its loop compares with.
OtherMarker == "STARTED"
Marker == "RUNNING"

MarkRunning(l) ==
  /\ pc[l] = "mark"
  /\ status' = [status EXCEPT ![mine[l]] = Marker]
  /\ Stay(l, "guard")
  /\ UNCHANGED <<active, runs>>

\* shared-host-guard.sh passes or refuses.
Guard(l) ==
  /\ pc[l] = "guard"
  /\ \/ Stay(l, "create") /\ UNCHANGED status
     \/ status' = [status EXCEPT ![mine[l]] = "1"] /\ Leave(l)
  /\ UNCHANGED <<active, runs>>

\* tmux new-session, which fails if there is one of this name.
CreateSession(l) ==
  /\ pc[l] = "create"
  /\ \/ /\ mine[l] \notin session
        /\ session' = session \cup {mine[l]}
        /\ revision' = [revision EXCEPT ![mine[l]] = request[l].revision]
        /\ Stay(l, "poll") /\ UNCHANGED status
     \/ /\ status' = [status EXCEPT ![mine[l]] = "1"] /\ Leave(l)
        /\ UNCHANGED <<session, revision>>
  /\ UNCHANGED <<active, outcome, kills>>

\* A launcher leaves with the exit code in the status file.
Poll(l) ==
  /\ pc[l] = "poll"
  /\ IF status[mine[l]] = "RUNNING"
     THEN Stay(l, "look") ELSE Leave(l)
  /\ UNCHANGED <<files, runs>>

Look(l) ==
  /\ pc[l] = "look"
  /\ Stay(l, IF HasSession(mine[l]) THEN "poll" ELSE "recheck")
  /\ UNCHANGED <<files, runs>>

\* With the session gone the status file is read once more before it is
\* overwritten: the target writes it before its session ends.
NotRechecked(r) == TRUE
StillRunning(r) == status[r] = "RUNNING"

Recheck(l) ==
  /\ pc[l] = "recheck"
  /\ status' = IF StillRunning(mine[l])
               THEN [status EXCEPT ![mine[l]] = "1"] ELSE status
  /\ Stay(l, "poll")
  /\ UNCHANGED <<active, runs>>

LauncherStep(l) ==
  \/ Examine(l) \/ Probe(l) \/ Decide(l)
  \/ WriteActive(l) \/ MarkRunning(l) \/ Guard(l) \/ CreateSession(l)
  \/ Poll(l) \/ Look(l) \/ Recheck(l)

\* The launcher dies with its connection.
Killed(l) ==
  /\ pc[l] # "gone" /\ Leave(l)
  /\ UNCHANGED <<files, runs>>

-----------------------------------------------------------------------------
(* The run. *)

\* The target ends; its exit code is written under another name and moved.
TargetEnds(r) ==
  /\ r \in Working
  /\ \E code \in {"0", "1"} :
       /\ outcome' = [outcome EXCEPT ![r] = code]
       /\ status' = [status EXCEPT ![r] = code]
  /\ UNCHANGED <<active, session, revision, kills, launcher>>

SessionEnds(r) ==
  /\ r \in session \ Working
  /\ session' = session \ {r}
  /\ UNCHANGED <<files, outcome, revision, kills, launcher>>

\* The session is killed, or the host restarts, and no status is written.
SessionVanishes(r) ==
  /\ r \in Working /\ kills < MaxKills
  /\ session' = session \ {r} /\ kills' = kills + 1
  /\ outcome' = [outcome EXCEPT ![r] = "lost"]
  /\ UNCHANGED <<files, revision, launcher>>

RunStep == \E r \in Run : TargetEnds(r) \/ SessionEnds(r)

Next ==
  \/ \E l \in Launcher : Start(l) \/ LauncherStep(l) \/ Killed(l)
  \/ RunStep
  \/ \E r \in Run : SessionVanishes(r)

Spec == Init /\ [][Next]_vars

\* Launchers run unless killed, and a target has its own timeouts.
FairSpec == Spec /\ (\A l \in Launcher : WF_vars(LauncherStep(l))) /\ WF_vars(RunStep)

-----------------------------------------------------------------------------

\* Two runs of a target never work on the same containers, however often the
\* command was repeated.
OneRun == Cardinality(Working) <= 1

\* A launcher exits with zero only if the run it reports ended well, and with
\* the revision it was asked for, unless it found that run under way.
TrueExit ==
  \A l \in Launcher : pc[l] = "poll" /\ status[mine[l]] = "0" =>
    /\ outcome[mine[l]] = "0"
    /\ resume[l] \/ revision[mine[l]] = request[l].revision

\* What the target wrote is what every later launcher reads: no launcher that
\* misses the session overwrites the exit code.
StatusIsOutcome ==
  \A r \in Run : outcome[r] \in {"0", "1"} => status[r] = outcome[r]

\* A repeated command comes to an end, also when the session vanished without
\* writing a status or an earlier launcher was killed half way.
Ends == \A l \in Launcher : pc[l] = "examine" ~> pc[l] = "gone"
=============================================================================
