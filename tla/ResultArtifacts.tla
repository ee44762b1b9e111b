-------------------------- MODULE ResultArtifacts --------------------------
(***************************************************************************)
(* How a result reaches the dashboard.  A broker drill runs on the remote  *)
(* host and leaves a result and the log of its run there; sync-down        *)
(* (scripts/remote/broker-remote.sh) brings new files to the authoritative *)
(* tree and refuses to change one; a Path A run rewrites its result and    *)
(* its log in that tree; sync-results (dashboard/scripts/sync-results.mjs) *)
(* validates what is there, copies it to the dashboard's public directory  *)
(* and writes index.json last.  None of them locks anything: they overlap, *)
(* and each may be cut off between two of its steps.                       *)
(*                                                                         *)
(* A file is what run wrote it, whether that run passed, and how much of   *)
(* it is there: a file that is being written, a copy that was cut off and  *)
(* the log of a run that goes on are shorter than the whole.               *)
(***************************************************************************)
EXTENDS Integers, FiniteSets, Sequences, SequencesExt

CONSTANTS
  Fenced,      \* results of remote runs, never written over
  Rewritten,   \* results of local runs, written over by every run
  Judged,      \* results whose validator asks whether the run passed
  Sorted,      \* the results in the order of their file names
  NoFile,      \* nothing under that name
  Runs,        \* bound: the runs of each result
  MaxFaults    \* bound: commands and runs cut off, and fresh checkouts

Artifact == Fenced \union Rewritten

ASSUME FencedAssumption == Fenced \cap Rewritten = {}
ASSUME JudgedAssumption == Fenced \subseteq Judged /\ Judged \subseteq Artifact
ASSUME SortedAssumption ==
  Sorted \in Seq(Artifact) /\ ToSet(Sorted) = Artifact /\ Len(Sorted) = Cardinality(Artifact)
ASSUME BoundsAssumption == Runs \in [Artifact -> Nat] /\ MaxFaults \in Nat

VARIABLES
  remote,   \* the files of the remote checkout
  local,    \* the files of the authoritative tree
  shown,    \* the results in dashboard/public/results
  index,    \* index.json in that directory
  run,      \* the remote run in progress
  job,      \* the local run in progress
  down,     \* the sync-down in progress
  sync,     \* the sync-results in progress
  runs,     \* the runs started so far of each result
  faults    \* what was cut off so far

vars == <<remote, local, shown, index, run, job, down, sync, runs, faults>>

Whole == 2

\* <<a, 0>> is the result, <<a, n>> the log of its n-th run; a local run has
\* one log that every run writes over.
Path == UNION {{a} \X (0..Runs[a]) : a \in Artifact}
Result(a) == <<a, 0>>
Log(p) == p[2] # 0
LogOf(a, n) == <<a, IF a \in Fenced THEN n ELSE 1>>

File(n, passed, size) == [run |-> n, passed |-> passed, size |-> size]
Cut(c) == [c EXCEPT !.size = @ - 1]

\* No file and no index looks like none.
ASSUME NoFileAssumption ==
  /\ \A a \in Artifact : NoFile \notin [run : 0..Runs[a], passed : BOOLEAN, size : 0..Whole]
  /\ NoFile \notin [Artifact -> Nat]

There(tree) == {p \in DOMAIN tree : tree[p] # NoFile}

Idle == [at |-> "idle"]
Now(proc, step) == proc.at = step

\* The sources of sync_down: results before logs, each list by name.
Rank == [a \in Artifact |-> CHOOSE i \in 1..Len(Sorted) : Sorted[i] = a]
Before(p, q) ==
  IF Log(p) # Log(q) THEN Log(q)
  ELSE Rank[p[1]] < Rank[q[1]] \/ (p[1] = q[1] /\ p[2] <= q[2])
FirstOf(paths) == CHOOSE p \in paths : \A q \in paths : Before(p, q)

Init ==
  /\ remote = [p \in Path |-> NoFile]
  /\ local = [p \in Path |-> NoFile]
  /\ shown = [a \in Artifact |-> NoFile]
  /\ index = NoFile
  /\ run = Idle /\ job = Idle /\ down = Idle /\ sync = Idle
  /\ runs = [a \in Artifact |-> 0]
  /\ faults = 0

-----------------------------------------------------------------------------
(* The remote run of one drill. *)

\* The launcher tees the guard into a log of the run's own before the run.
StartRemote(a) ==
  /\ Now(run, "idle") /\ runs[a] < Runs[a]
  /\ runs' = [runs EXCEPT ![a] = @ + 1]
  /\ run' = [at |-> "running", of |-> a]
  /\ remote' = [remote EXCEPT ![LogOf(a, runs'[a])] = File(runs'[a], TRUE, 1)]
  /\ UNCHANGED <<local, shown, index, job, down, sync, faults>>

\* require_new_result, asked before the drill does anything.
MayWrite(tree, a) == tree[Result(a)] = NoFile

\* The checks hold: write_result opens the file and writes it in place.
BeginResult ==
  /\ Now(run, "running") /\ MayWrite(remote, run.of)
  /\ remote' = [remote EXCEPT ![Result(run.of)] = File(runs[run.of], TRUE, 1)]
  /\ run' = [run EXCEPT !.at = "writing"]
  /\ UNCHANGED <<local, shown, index, job, down, sync, runs, faults>>

EndResult ==
  /\ Now(run, "writing")
  /\ remote' = [remote EXCEPT ![Result(run.of)].size = Whole]
  /\ run' = [run EXCEPT !.at = "written"]
  /\ UNCHANGED <<local, shown, index, job, down, sync, runs, faults>>

\* The last line of the log.  A run that was refused or whose checks failed
\* comes here without a result.
EndRemote ==
  /\ run.at \in {"running", "written"}
  /\ remote' = [remote EXCEPT ![LogOf(run.of, runs[run.of])].size = Whole]
  /\ run' = Idle
  /\ UNCHANGED <<local, shown, index, job, down, sync, runs, faults>>

\* The session dies; the launcher, if it still looks, says so in the log.
KillRemote ==
  /\ ~Now(run, "idle") /\ faults < MaxFaults
  /\ faults' = faults + 1
  /\ \E size \in {1, Whole} :
       remote' = [remote EXCEPT ![LogOf(run.of, runs[run.of])].size = size]
  /\ run' = Idle
  /\ UNCHANGED <<local, shown, index, job, down, sync, runs>>

\* "use a fresh checkout/run volume"
FreshCheckout ==
  /\ Now(run, "idle") /\ faults < MaxFaults /\ There(remote) # {}
  /\ faults' = faults + 1
  /\ remote' = [p \in Path |-> NoFile]
  /\ UNCHANGED <<local, shown, index, run, job, down, sync, runs>>

-----------------------------------------------------------------------------
(* A local run: eo_verify, small_file_rewrite. *)

\* The log is written when the run has ended: that of the run before is gone
\* while its result still stands.
WriteLog(a) ==
  /\ Now(job, "idle") /\ runs[a] < Runs[a]
  /\ runs' = [runs EXCEPT ![a] = @ + 1]
  /\ local' = [local EXCEPT ![LogOf(a, runs'[a])] = File(runs'[a], TRUE, Whole)]
  /\ job' = [at |-> "logged", of |-> a]
  /\ UNCHANGED <<remote, shown, index, run, down, sync, faults>>

\* A run that fails writes what it found too.
BeginRewrite ==
  /\ Now(job, "logged")
  /\ \E passed \in BOOLEAN :
       local' = [local EXCEPT ![Result(job.of)] = File(runs[job.of], passed, 1)]
  /\ job' = [job EXCEPT !.at = "writing"]
  /\ UNCHANGED <<remote, shown, index, run, down, sync, runs, faults>>

EndRewrite ==
  /\ Now(job, "writing")
  /\ local' = [local EXCEPT ![Result(job.of)].size = Whole]
  /\ job' = Idle
  /\ UNCHANGED <<remote, shown, index, run, down, sync, runs, faults>>

-----------------------------------------------------------------------------
(* sync-down *)

\* rsync transfers the directory of the logs and then that of the results.
\* The one remote run writes one file of each: the order within one is no
\* matter.
StartDown ==
  /\ Now(down, "idle") /\ There(remote) # {}
  /\ down' = [at |-> "stage", staged |-> [p \in Path |-> IF Log(p) THEN remote[p] ELSE NoFile]]
  /\ UNCHANGED <<remote, local, shown, index, run, job, sync, runs, faults>>

StageResults ==
  /\ Now(down, "stage")
  /\ down' = [at |-> "compare",
              staged |-> [p \in Path |-> IF Log(p) THEN down.staged[p] ELSE remote[p]]]
  /\ UNCHANGED <<remote, local, shown, index, run, job, sync, runs, faults>>

\* The staged files that are not in the tree as they are: the loop passes over
\* the others, which nothing but this loop changes.
UnlikeOrThere(staged) == There(staged)
Unlike(staged) == {p \in There(staged) : local[p] # staged[p]}

OverAnything(tree, p) == TRUE
MayCopy(tree, p) == tree[p] = NoFile

\* exit 2: "append-only artifact differs and will not be overwritten"; or the
\* loop is through.
EndDown ==
  /\ Now(down, "compare")
  /\ LET left == Unlike(down.staged)
     IN left # {} => ~MayCopy(local, FirstOf(left))
  /\ down' = Idle
  /\ UNCHANGED <<remote, local, shown, index, run, job, sync, runs, faults>>

BeginCopyDown ==
  /\ Now(down, "compare")
  /\ LET left == Unlike(down.staged)
     IN /\ left # {} /\ MayCopy(local, FirstOf(left))
        /\ local' = [local EXCEPT ![FirstOf(left)] = Cut(down.staged[FirstOf(left)])]
  /\ down' = [down EXCEPT !.at = "copy"]
  /\ UNCHANGED <<remote, shown, index, run, job, sync, runs, faults>>

EndCopyDown ==
  /\ Now(down, "copy")
  /\ LET p == FirstOf(Unlike(down.staged))
     IN local' = [local EXCEPT ![p] = down.staged[p]]
  /\ down' = [down EXCEPT !.at = "compare"]
  /\ UNCHANGED <<remote, shown, index, run, job, sync, runs, faults>>

-----------------------------------------------------------------------------
(* sync-results *)

Found == {a \in Artifact : local[Result(a)] # NoFile}
Nobody == [a \in Artifact |-> 0]

\* clearSyncedJson, then the list of what is to be published.  The files go in
\* any order, index.json among them: a command cut off meanwhile leaves some.
Cleared ==
  /\ shown' = [a \in Artifact |-> NoFile]
  /\ index' = NoFile
CutClear ==
  /\ \E files \in SUBSET There(shown) :
       shown' = [a \in Artifact |-> IF a \in files THEN NoFile ELSE shown[a]]
  /\ index' \in {index, NoFile}

StartSync ==
  /\ Now(sync, "idle")
  /\ Cleared
  /\ sync' = IF Found = {} THEN Idle      \* "No JSON result artifacts found"
             ELSE [at |-> "read", todo |-> Found, listed |-> Nobody]
  /\ UNCHANGED <<remote, local, run, job, down, runs, faults>>

\* It parses, the validator of its name accepts it, and its log is there.  The
\* validator of eo_reconciliation.json asks for numbers of differences, not
\* for zeros: that of a run that failed is accepted.
Valid(a) ==
  LET c == local[Result(a)]
  IN /\ c.size = Whole
     /\ a \in Judged => c.passed
     /\ local[LogOf(a, c.run)] # NoFile

NextResult == FirstOf({Result(a) : a \in sync.todo})[1]

\* The first result that is refused ends the command: nothing is indexed.
RefuseSync ==
  /\ Now(sync, "read") /\ sync.todo # {} /\ ~Valid(NextResult)
  /\ sync' = Idle
  /\ UNCHANGED <<remote, local, shown, index, run, job, down, runs, faults>>

\* Validated; then copyFile opens the copy, in place.
BeginCopy ==
  /\ Now(sync, "read") /\ sync.todo # {} /\ Valid(NextResult)
  /\ LET c == local[Result(NextResult)]
     IN /\ shown' = [shown EXCEPT ![NextResult] = Cut(c)]
        /\ sync' = [sync EXCEPT !.at = "copy", !.listed[NextResult] = c.run]
  /\ UNCHANGED <<remote, local, index, run, job, down, runs, faults>>

\* The copy holds what the file holds by now, not what was validated.
EndCopy ==
  /\ Now(sync, "copy")
  /\ shown' = [shown EXCEPT ![NextResult] = local[Result(NextResult)]]
  /\ sync' = [sync EXCEPT !.at = "read", !.todo = @ \ {NextResult}]
  /\ UNCHANGED <<remote, local, index, run, job, down, runs, faults>>

\* A torn index.json lists nothing, as none does.
WriteIndex ==
  /\ Now(sync, "read") /\ sync.todo = {}
  /\ index' = sync.listed
  /\ sync' = Idle
  /\ UNCHANGED <<remote, local, shown, run, job, down, runs, faults>>

-----------------------------------------------------------------------------
\* A command is stopped, or the machine is, between two of its steps; the
\* last disjunct is a sync-results stopped while it clears.
Interrupt ==
  /\ faults < MaxFaults
  /\ faults' = faults + 1
  /\ \/ /\ ~Now(job, "idle") /\ job' = Idle
        /\ UNCHANGED <<down, sync, shown, index>>
     \/ /\ ~Now(down, "idle") /\ down' = Idle
        /\ UNCHANGED <<job, sync, shown, index>>
     \/ /\ ~Now(sync, "idle") /\ sync' = Idle
        /\ UNCHANGED <<job, down, shown, index>>
     \/ /\ Now(sync, "idle") /\ CutClear
        /\ UNCHANGED <<job, down, sync>>
  /\ UNCHANGED <<remote, local, run, runs>>

RemoteStep == BeginResult \/ EndResult \/ EndRemote
LocalStep == BeginRewrite \/ EndRewrite
DownStep == StartDown \/ StageResults \/ BeginCopyDown \/ EndCopyDown \/ EndDown
SyncStep == StartSync \/ RefuseSync \/ BeginCopy \/ EndCopy \/ WriteIndex

Next ==
  \/ \E a \in Fenced : StartRemote(a)
  \/ \E a \in Rewritten : WriteLog(a)
  \/ RemoteStep \/ KillRemote \/ FreshCheckout
  \/ LocalStep \/ DownStep \/ SyncStep
  \/ Interrupt

Spec == Init /\ [][Next]_vars

\* Runs and commands go on, and the operator repeats sync-down and
\* sync-results as the guide asks after every run.
FairSpec ==
  /\ Spec
  /\ WF_vars(RemoteStep) /\ WF_vars(LocalStep)
  /\ WF_vars(DownStep) /\ WF_vars(SyncStep)

-----------------------------------------------------------------------------
\* While an index.json stands, every remote result it lists and that has
\* not been unlinked again is a whole copy of the listed run's result, that
\* run passed, and its log is in the tree: a torn write, a sync-down at work,
\* a refused command and a command cut off never show the reader anything
\* else (main and clearSyncedJson in sync-results.mjs, sync_down).
PublishedIsTrue ==
  index # NoFile =>
    \A a \in Fenced : index[a] # 0 /\ shown[a] # NoFile =>
      /\ shown[a] = File(index[a], TRUE, Whole)
      /\ local[LogOf(a, index[a])] # NoFile

\* A file of the tree that sync-down will refuse to mend, or that
\* sync-results refuses: a copy that was cut off, a log taken while its run
\* went on, a result of another run, a result that is torn, or one that is
\* judged and did not pass.
Spoilt ==
  \/ \E p \in Path : remote[p] # NoFile /\ local[p] # NoFile /\ remote[p] # local[p]
  \/ \E a \in Artifact :
       LET c == local[Result(a)]
       IN c # NoFile /\ (c.size # Whole \/ (a \in Judged /\ ~c.passed))

\* Again and again everything that was written whole on the remote host is
\* listed on the dashboard at once, unless the tree holds for ever a file that
\* one of the two commands refuses: repeating them in any order, against runs
\* that go on, gets every result through.
Delivers ==
  \/ <>[]Spoilt
  \/ []<>(\A a \in Fenced :
             LET c == remote[Result(a)]
             IN c # NoFile /\ c.size = Whole => index # NoFile /\ index[a] # 0)
=============================================================================
