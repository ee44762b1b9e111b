------------------------ MODULE ResultArtifacts_proofs ------------------------
(***************************************************************************)
(* What the dashboard shows of the remote results is true, for any set of  *)
(* them, any number of runs and any number of commands cut off.            *)
(***************************************************************************)
EXTENDS ResultArtifacts, WellFoundedInduction, TLAPS

-----------------------------------------------------------------------------
(* The first of several events. *)

\* A non-empty set of naturals has a least element: of several artifacts one comes
\* first, and of its runs one does.
LEMMA Least ==
  ASSUME NEW T, T \subseteq Nat, T # {}
  PROVE  \E x \in T : \A y \in T : x <= y
<1>1. PICK x \in T : \A y \in T : <<y, x>> \notin OpToRel(<, Nat)
  BY NatLessThanWellFounded, WFMin
<1>2. \A y \in T : ~(y < x)
  BY <1>1 DEF OpToRel
<1> QED BY <1>2

-----------------------------------------------------------------------------
(* The inductive invariant: the files. *)

FileOf(a, sizes) == [run : 0 .. Runs[a], passed : BOOLEAN, size : sizes]
FileAt(p, c, sizes) == c = NoFile \/ c \in FileOf(p[1], sizes)

\* A tree holds what its runs wrote, or nothing; the remote one has files of
\* fenced results only, and no copies of it that were cut off.
Files ==
  /\ DOMAIN remote = Path
  /\ \A p \in Path : FileAt(p, remote[p], 1 .. Whole) /\ (remote[p] # NoFile => p[1] \in Fenced)
  /\ DOMAIN local = Path
  /\ \A p \in Path : FileAt(p, local[p], 0 .. Whole)
  /\ DOMAIN shown = Artifact
  /\ \A a \in Artifact : FileAt(Result(a), shown[a], 0 .. Whole)
  /\ index \in [Artifact -> Nat] \cup {NoFile}
  /\ DOMAIN runs = Artifact /\ \A a \in Artifact : runs[a] \in 0 .. Runs[a]

-----------------------------------------------------------------------------
(* The inductive invariant: the processes. *)

\* A run has written what it says it has.
Running ==
  /\ run = Idle \/ run \in [at : {"running", "writing", "written"}, of : Fenced]
  /\ ~Now(run, "idle") =>
       \A p \in Path :
         /\ p = LogOf(run.of, runs[run.of]) => remote[p] # NoFile
         /\ p = Result(run.of) /\ ~Now(run, "running") => remote[p] # NoFile

Rewriting ==
  /\ job = Idle \/ job \in [at : {"logged", "writing"}, of : Rewritten]
  /\ Now(job, "writing") => local[Result(job.of)] # NoFile

Left == Unlike(down.staged)

\* sync-down holds files of the remote tree; the one it copies is not in the
\* authoritative tree as a whole.
Copying ==
  /\ \/ down = Idle
     \/ /\ down = [at |-> down.at, staged |-> down.staged]
        /\ down.at \in {"stage", "compare", "copy"}
        /\ DOMAIN down.staged = Path
        /\ \A p \in Path :
             /\ FileAt(p, down.staged[p], 1 .. Whole)
             /\ down.staged[p] # NoFile => p[1] \in Fenced
  /\ Now(down, "copy") =>
       /\ Left # {}
       /\ local[FirstOf(Left)] = Cut(down.staged[FirstOf(Left)])

\* While sync-results is at work there is no index; what it has listed of the
\* remote results is in the tree as a whole, with its log, and has been copied
\* or is being copied.
Syncing ==
  /\ \/ sync = Idle
     \/ sync \in [at : {"read", "copy"}, todo : SUBSET Artifact, listed : [Artifact -> Nat]]
  /\ ~Now(sync, "idle") =>
       /\ index = NoFile
       /\ \A a \in sync.todo : local[Result(a)] # NoFile
       /\ \A a \in Fenced : sync.listed[a] # 0 =>
            /\ sync.listed[a] \in 0 .. Runs[a]
            /\ local[Result(a)] = File(sync.listed[a], TRUE, Whole)
            /\ local[LogOf(a, sync.listed[a])] # NoFile
            /\ \/ shown[a] = local[Result(a)]
               \/ Now(sync, "copy") /\ a = NextResult

\* The index lists runs there are.
Listed == index # NoFile => \A a \in Fenced : index[a] \in 0 .. Runs[a]

IInv == Files /\ Running /\ Rewriting /\ Copying /\ Syncing /\ Listed /\ PublishedIsTrue

-----------------------------------------------------------------------------
(* Names. *)

\* The paths of the files.
LEMMA Paths ==
  /\ \A p \in Path : p[1] \in Artifact /\ p[2] \in 0 .. Runs[p[1]] /\ p = <<p[1], p[2]>>
  /\ \A a \in Artifact : Result(a) \in Path /\ Result(a)[1] = a /\ Runs[a] \in Nat
  /\ \A a, n : LogOf(a, n)[1] = a
  /\ \A a \in Fenced : \A n \in 0 .. Runs[a] : LogOf(a, n) \in Path
<1>1. \A a \in Artifact : Runs[a] \in Nat
  BY BoundsAssumption
<1>2. ASSUME NEW p \in Path
      PROVE  p[1] \in Artifact /\ p[2] \in 0 .. Runs[p[1]] /\ p = <<p[1], p[2]>>
  <2>1. PICK a \in Artifact : p \in {a} \X (0 .. Runs[a])
    BY DEF Path
  <2> QED BY <2>1
<1>3. ASSUME NEW a \in Artifact, NEW n \in 0 .. Runs[a] PROVE <<a, n>> \in Path
  BY DEF Path
<1>4. \A a \in Artifact : 0 \in 0 .. Runs[a]
  BY <1>1
<1>5. \A a \in Artifact : Result(a) \in Path /\ Result(a)[1] = a
  BY <1>3, <1>4 DEF Result
<1>6. \A a, n : LogOf(a, n)[1] = a
  BY DEF LogOf
<1>7. \A a \in Fenced : a \in Artifact /\ \A n : LogOf(a, n) = <<a, n>>
  BY DEF LogOf, Artifact
<1> QED BY <1>1, <1>2, <1>3, <1>5, <1>6, <1>7

\* The ranks of the steps of a run.
LEMMA Ranks == \A a \in Artifact : Rank[a] \in Nat /\ Sorted[Rank[a]] = a
<1> SUFFICES ASSUME NEW a \in Artifact PROVE Rank[a] \in Nat /\ Sorted[Rank[a]] = a
  OBVIOUS
<1>1. \E i \in 1 .. Len(Sorted) : Sorted[i] = a
  BY SortedAssumption DEF ToSet
<1>2. Rank[a] = CHOOSE i \in 1 .. Len(Sorted) : Sorted[i] = a
  BY DEF Rank
<1> QED BY <1>1, <1>2

\* The first of several paths is one of them: results come before logs, each in
\* the order of their names, the logs of a result in the order of its runs.
LEMMA FirstIsOne ==
  ASSUME NEW paths, paths \subseteq Path, paths # {}
  PROVE  FirstOf(paths) \in paths
<1>0. \A p \in paths : p[1] \in Artifact /\ p[2] \in Nat /\ Rank[p[1]] \in Nat
  BY Paths, Ranks
<1>1. ASSUME NEW T, T \subseteq paths, T # {}, \A p, q \in T : Log(p) = Log(q)
      PROVE  \E p \in T : \A q \in T : Before(p, q)
  <2> DEFINE ranks == {Rank[p[1]] : p \in T}
  <2>1. PICK r \in ranks : \A s \in ranks : r <= s
    <3>1. ranks \subseteq Nat /\ ranks # {}
      BY <1>0, <1>1
    <3> HIDE DEF ranks
    <3> QED BY <3>1, Least
  <2>2. PICK p0 \in T : r = Rank[p0[1]]
    OBVIOUS
  <2> DEFINE runsOf == {p[2] : p \in {q \in T : q[1] = p0[1]}}
  <2>3. PICK n \in runsOf : \A m \in runsOf : n <= m
    <3>1. runsOf \subseteq Nat /\ runsOf # {}
      BY <1>0, <1>1
    <3> HIDE DEF runsOf
    <3> QED BY <3>1, Least
  <2>4. PICK p \in T : p[1] = p0[1] /\ n = p[2]
    OBVIOUS
  <2>5. ASSUME NEW q \in T PROVE Before(p, q)
    <3>1. Rank[p[1]] <= Rank[q[1]] /\ Rank[p[1]] \in Nat /\ Rank[q[1]] \in Nat
      BY <1>0, <1>1, <2>1, <2>2, <2>4
    <3>2. CASE Rank[p[1]] = Rank[q[1]]
      <4>1. p[1] = q[1]
        BY <1>0, <1>1, <3>2, Ranks
      <4>2. p[2] <= q[2]
        BY <2>3, <2>4, <4>1
      <4> QED BY <1>1, <4>1, <4>2 DEF Before
    <3>3. CASE Rank[p[1]] # Rank[q[1]]
      BY <1>1, <3>1, <3>3 DEF Before
    <3> QED BY <3>2, <3>3
  <2> QED BY <2>5
<1> DEFINE results == {p \in paths : ~Log(p)}
<1>2. CASE results = {}
  <2>1. \A p \in paths : Log(p) = TRUE
    BY <1>2 DEF Log
  <2>2. \E p \in paths : \A q \in paths : Before(p, q)
    BY <1>1, <2>1
  <2> QED BY <2>2 DEF FirstOf
<1>3. CASE results # {}
  <2>1. \A p \in results : Log(p) = FALSE
    BY DEF Log
  <2>2. PICK p \in results : \A q \in results : Before(p, q)
    <3> HIDE DEF results
    <3>1. results \subseteq paths
      BY DEF results
    <3> QED BY <1>1, <1>3, <2>1, <3>1
  <2>3. \A q \in paths : q \notin results => Before(p, q)
    BY DEF Before, Log
  <2>4. \E l \in paths : \A q \in paths : Before(l, q)
    BY <2>2, <2>3
  <2> QED BY <2>4 DEF FirstOf
<1> QED BY <1>2, <1>3

-----------------------------------------------------------------------------
(* The files. *)

\* What is known of the files.
LEMMA FileFacts ==
  ASSUME NEW a \in Artifact
  PROVE  /\ \A c \in FileOf(a, 0 .. Whole) : c # NoFile
         /\ FileOf(a, 1 .. Whole) \subseteq FileOf(a, 0 .. Whole)
         /\ \A c \in FileOf(a, 1 .. Whole) :
              Cut(c) \in FileOf(a, 0 .. Whole) /\ Cut(c).size # Whole /\ Cut(c) # c
         /\ \A n \in 0 .. Runs[a], passed \in BOOLEAN : \A size \in 1 .. Whole :
              File(n, passed, size) \in FileOf(a, 1 .. Whole)
         /\ \A c \in FileOf(a, 0 .. Whole) : \A size \in 1 .. Whole :
              [c EXCEPT !.size = size] \in FileOf(a, 1 .. Whole)
<1>1. FileOf(a, 1 .. Whole) \subseteq FileOf(a, 0 .. Whole)
  BY DEF FileOf, Whole
<1>2. \A c \in FileOf(a, 0 .. Whole) : c # NoFile
  BY NoFileAssumption DEF FileOf
<1>3. ASSUME NEW c \in FileOf(a, 1 .. Whole)
      PROVE  Cut(c) \in FileOf(a, 0 .. Whole) /\ Cut(c).size # Whole /\ Cut(c) # c
  <2>1. c.size \in 1 .. 2 /\ Cut(c) = [c EXCEPT !.size = c.size - 1]
    BY DEF FileOf, Whole, Cut
  <2>2. Cut(c).size = c.size - 1 /\ Cut(c) \in FileOf(a, 0 .. Whole)
    BY <2>1 DEF FileOf, Whole
  <2>3. c.size - 1 # 2 /\ c.size - 1 # c.size
    BY <2>1
  <2> QED BY <2>2, <2>3 DEF Whole
<1>4. \A n \in 0 .. Runs[a], passed \in BOOLEAN : \A size \in 1 .. Whole :
        File(n, passed, size) \in FileOf(a, 1 .. Whole)
  BY DEF File, FileOf
<1>5. \A c \in FileOf(a, 0 .. Whole) : \A size \in 1 .. Whole :
        [c EXCEPT !.size = size] \in FileOf(a, 1 .. Whole)
  BY DEF FileOf
<1> QED BY <1>1, <1>2, <1>3, <1>4, <1>5

\* The copy that sync-down is at work on is of one of its files.
LEMMA CopiedIsStaged ==
  ASSUME Copying, ~Now(down, "idle"), NEW p, Left # {}, p = FirstOf(Left)
  PROVE  /\ p \in Path /\ p[1] \in Fenced /\ down.staged[p] # local[p]
         /\ down.staged[p] \in FileOf(p[1], 1 .. Whole)
<1>1. Left \subseteq Path
  BY DEF Left, Unlike, There, Copying, Now, Idle
<1>2. p \in Left
  BY <1>1, FirstIsOne
<1>3. p \in Path /\ down.staged[p] # NoFile /\ down.staged[p] # local[p]
  BY <1>1, <1>2 DEF Left, Unlike, There
<1> QED BY <1>3 DEF Copying, Now, Idle, FileAt

\* So is the copy of sync-results of a result it was to publish.
LEMMA NextIsListed ==
  ASSUME Syncing, ~Now(sync, "idle"), sync.todo # {}
  PROVE  NextResult \in sync.todo /\ NextResult \in Artifact
<1> DEFINE paths == {Result(a) : a \in sync.todo}
<1>1. sync.todo \subseteq Artifact
  BY DEF Syncing, Now, Idle
<1>2. paths \subseteq Path /\ paths # {}
  BY <1>1, Paths
<1>3. FirstOf(paths) \in paths
  <2> HIDE DEF paths
  <2> QED BY <1>2, FirstIsOne
<1>4. PICK a \in sync.todo : FirstOf(paths) = Result(a)
  BY <1>3
<1> QED BY <1>1, <1>4 DEF NextResult, Result

\* Every write is of a file of its place, by a run there is.
LEMMA FilesStep == IInv /\ [Next]_vars => Files'
<1> SUFFICES ASSUME IInv, [Next]_vars PROVE Files'
  OBVIOUS
<1>0. Files /\ Running /\ Rewriting /\ Copying /\ Syncing
  BY DEF IInv
<1> DEFINE Remote(tree) ==
             /\ DOMAIN tree = Path
             /\ \A p \in Path : /\ FileAt(p, tree[p], 1 .. Whole)
                                /\ tree[p] # NoFile => p[1] \in Fenced
           Local(tree) == DOMAIN tree = Path /\ \A p \in Path : FileAt(p, tree[p], 0 .. Whole)
           Shown(tree) == /\ DOMAIN tree = Artifact
                          /\ \A a \in Artifact : FileAt(Result(a), tree[a], 0 .. Whole)
           Index(list) == list \in [Artifact -> Nat] \cup {NoFile}
           Counts(count) == /\ DOMAIN count = Artifact
                            /\ \A a \in Artifact : count[a] \in 0 .. Runs[a]
<1>a. Remote(remote) /\ Local(local) /\ Shown(shown) /\ Index(index) /\ Counts(runs)
  BY <1>0 DEF Files
<1>b. Fenced \subseteq Artifact /\ Rewritten \subseteq Artifact
  BY DEF Artifact
<1> SUFFICES Remote(remote') /\ Local(local') /\ Shown(shown') /\ Index(index')
             /\ Counts(runs')
  BY DEF Files
<1>c. ASSUME NEW a \in Artifact, runs[a] < Runs[a],
             runs' = [runs EXCEPT ![a] = @ + 1]
      PROVE  Counts(runs') /\ runs'[a] \in 0 .. Runs[a]
  <2>1. Runs[a] \in Nat /\ runs[a] \in 0 .. Runs[a]
    BY <1>a, Paths
  <2> QED BY <1>a, <1>c, <2>1
<1>d. ASSUME NEW a \in Fenced, NEW x, x[1] = a, NEW c, c \in FileOf(a, 1 .. Whole),
             remote' = [remote EXCEPT ![x] = c]
      PROVE  Remote(remote')
  BY <1>a, <1>d DEF FileAt
<1>e. ASSUME NEW a \in Artifact, NEW x, x[1] = a, NEW c, c \in FileOf(a, 0 .. Whole),
             local' = [local EXCEPT ![x] = c]
      PROVE  Local(local')
  BY <1>a, <1>e DEF FileAt
<1>f. ASSUME NEW x, NEW c, x \in Artifact => FileAt(Result(x), c, 0 .. Whole),
             shown' = [shown EXCEPT ![x] = c]
      PROVE  Shown(shown')
  BY <1>a, <1>f
<1>g. ~Now(run, "idle") => /\ run.of \in Fenced /\ run.of \in Artifact
                           /\ runs[run.of] \in 0 .. Runs[run.of]
  BY <1>0, <1>a, <1>b DEF Running, Now, Idle
<1>h. 1 \in 1 .. Whole /\ Whole \in 1 .. Whole
  BY DEF Whole
<1>j. \A a \in Artifact : FileOf(a, 1 .. Whole) \subseteq FileOf(a, 0 .. Whole)
  BY FileFacts
<1> HIDE DEF Remote, Local, Shown, Index, Counts
<1>1. ASSUME NEW a \in Fenced, StartRemote(a)
      PROVE  Remote(remote') /\ Local(local') /\ Shown(shown') /\ Index(index')
             /\ Counts(runs')
  <2>1. /\ runs[a] < Runs[a] /\ runs' = [runs EXCEPT ![a] = @ + 1]
        /\ remote' = [remote EXCEPT ![LogOf(a, runs'[a])] = File(runs'[a], TRUE, 1)]
        /\ UNCHANGED <<local, shown, index>>
    BY <1>1 DEF StartRemote
  <2>2. Counts(runs') /\ runs'[a] \in 0 .. Runs[a]
    BY <1>b, <1>c, <2>1
  <2>3. File(runs'[a], TRUE, 1) \in FileOf(a, 1 .. Whole)
    BY <1>b, <1>h, <2>2, FileFacts
  <2>4. Remote(remote')
    BY <1>d, <2>1, <2>3, Paths
  <2> QED BY <1>a, <2>1, <2>2, <2>4
<1>2. CASE BeginResult
  <2>1. /\ remote' = [remote EXCEPT ![Result(run.of)] = File(runs[run.of], TRUE, 1)]
        /\ ~Now(run, "idle") /\ UNCHANGED <<local, shown, index, runs>>
    BY <1>2 DEF BeginResult, Now
  <2>2. File(runs[run.of], TRUE, 1) \in FileOf(run.of, 1 .. Whole)
    BY <1>g, <1>h, <2>1, FileFacts
  <2>3. Remote(remote')
    BY <1>d, <1>g, <2>1, <2>2, Paths
  <2> QED BY <1>a, <2>1, <2>3
<1>3. CASE EndResult
  <2>1. /\ remote' = [remote EXCEPT ![Result(run.of)].size = Whole]
        /\ Now(run, "writing") /\ UNCHANGED <<local, shown, index, runs>>
    BY <1>3 DEF EndResult
  <2>2. ~Now(run, "idle") /\ remote[Result(run.of)] # NoFile
    BY <1>0, <1>g, <2>1, Paths DEF Running, Now
  <2>3. [remote[Result(run.of)] EXCEPT !.size = Whole] \in FileOf(run.of, 1 .. Whole)
    BY <1>a, <1>g, <1>h, <1>j, <2>2, FileFacts, Paths DEF Remote, FileAt
  <2>4. Remote(remote')
    BY <1>d, <1>g, <2>1, <2>2, <2>3, Paths
  <2> QED BY <1>a, <2>1, <2>4
<1>i. ASSUME NEW size \in 1 .. Whole, ~Now(run, "idle"),
             remote' = [remote EXCEPT ![LogOf(run.of, runs[run.of])].size = size]
      PROVE  Remote(remote')
  <2> DEFINE x == LogOf(run.of, runs[run.of])
  <2>1. x \in Path /\ x[1] = run.of
    BY <1>g, <1>i, Paths
  <2>2. remote[x] # NoFile
    BY <1>0, <1>i, <2>1 DEF Running
  <2>3. [remote[x] EXCEPT !.size = size] \in FileOf(run.of, 1 .. Whole)
    BY <1>a, <1>g, <1>i, <2>1, <2>2, FileFacts DEF Remote, FileAt
  <2> QED BY <1>d, <1>g, <1>i, <2>1, <2>3
<1>4. CASE EndRemote
  BY <1>a, <1>4, <1>i DEF EndRemote, Now, Whole
<1>5. CASE KillRemote
  <2>1. /\ ~Now(run, "idle") /\ UNCHANGED <<local, shown, index, runs>>
        /\ \E size \in {1, Whole} :
             remote' = [remote EXCEPT ![LogOf(run.of, runs[run.of])].size = size]
    BY <1>5 DEF KillRemote
  <2>2. \A size \in {1, Whole} : size \in 1 .. Whole
    BY DEF Whole
  <2> QED BY <1>a, <1>i, <2>1, <2>2
<1>6. CASE FreshCheckout
  <2>1. Remote(remote')
    BY <1>6 DEF FreshCheckout, Remote, FileAt
  <2> QED BY <1>6, <1>a, <2>1 DEF FreshCheckout
<1>7. ASSUME NEW a \in Rewritten, WriteLog(a)
      PROVE  Remote(remote') /\ Local(local') /\ Shown(shown') /\ Index(index')
             /\ Counts(runs')
  <2>1. /\ runs[a] < Runs[a] /\ runs' = [runs EXCEPT ![a] = @ + 1]
        /\ local' = [local EXCEPT ![LogOf(a, runs'[a])] = File(runs'[a], TRUE, Whole)]
        /\ UNCHANGED <<remote, shown, index>>
    BY <1>7 DEF WriteLog
  <2>2. Counts(runs') /\ runs'[a] \in 0 .. Runs[a]
    BY <1>b, <1>c, <2>1
  <2>3. File(runs'[a], TRUE, Whole) \in FileOf(a, 0 .. Whole)
    BY <1>b, <1>h, <1>j, <2>2, FileFacts
  <2>4. Local(local')
    BY <1>b, <1>e, <2>1, <2>3, Paths
  <2> QED BY <1>a, <2>1, <2>2, <2>4
<1>8. CASE BeginRewrite
  <2>1. /\ Now(job, "logged") /\ UNCHANGED <<remote, shown, index, runs>>
        /\ \E passed \in BOOLEAN :
             local' = [local EXCEPT ![Result(job.of)] = File(runs[job.of], passed, 1)]
    BY <1>8 DEF BeginRewrite
  <2>2. job.of \in Artifact
    BY <1>0, <1>b, <2>1 DEF Rewriting, Now, Idle
  <2>3. \A passed \in BOOLEAN : File(runs[job.of], passed, 1) \in FileOf(job.of, 0 .. Whole)
    BY <1>a, <1>h, <1>j, <2>2, FileFacts DEF Counts
  <2>4. Local(local')
    BY <1>e, <2>1, <2>2, <2>3, Paths
  <2> QED BY <1>a, <2>1, <2>4
<1>9. CASE EndRewrite
  <2>1. /\ Now(job, "writing") /\ UNCHANGED <<remote, shown, index, runs>>
        /\ local' = [local EXCEPT ![Result(job.of)].size = Whole]
    BY <1>9 DEF EndRewrite
  <2>2. job.of \in Artifact /\ local[Result(job.of)] # NoFile
    BY <1>0, <1>b, <2>1 DEF Rewriting, Now, Idle
  <2>3. [local[Result(job.of)] EXCEPT !.size = Whole] \in FileOf(job.of, 0 .. Whole)
    BY <1>a, <1>h, <1>j, <2>2, FileFacts, Paths DEF Local, FileAt
  <2>4. Local(local')
    BY <1>e, <2>1, <2>2, <2>3, Paths
  <2> QED BY <1>a, <2>1, <2>4
<1>10. CASE BeginCopyDown
  <2> DEFINE x == FirstOf(Left)
  <2>1. /\ Now(down, "compare") /\ Left # {} /\ UNCHANGED <<remote, shown, index, runs>>
        /\ local' = [local EXCEPT ![x] = Cut(down.staged[x])]
    BY <1>10 DEF BeginCopyDown, Left
  <2>2. x \in Path /\ x[1] \in Artifact /\ down.staged[x] \in FileOf(x[1], 1 .. Whole)
    BY <1>0, <1>b, <2>1, CopiedIsStaged DEF Now
  <2>3. Cut(down.staged[x]) \in FileOf(x[1], 0 .. Whole)
    BY <2>2, FileFacts
  <2>4. Local(local')
    BY <1>e, <2>1, <2>2, <2>3
  <2> QED BY <1>a, <2>1, <2>4
<1>11. CASE EndCopyDown
  <2> DEFINE x == FirstOf(Left)
  <2>1. /\ Now(down, "copy") /\ UNCHANGED <<remote, shown, index, runs>>
        /\ local' = [local EXCEPT ![x] = down.staged[x]]
    BY <1>11 DEF EndCopyDown, Left
  <2>2. x \in Path /\ x[1] \in Artifact /\ down.staged[x] \in FileOf(x[1], 1 .. Whole)
    BY <1>0, <1>b, <2>1, CopiedIsStaged DEF Now, Copying
  <2>3. down.staged[x] \in FileOf(x[1], 0 .. Whole)
    BY <2>2, FileFacts
  <2>4. Local(local')
    BY <1>e, <2>1, <2>2, <2>3
  <2> QED BY <1>a, <2>1, <2>4
<1>12. CASE StartSync
  <2>1. Shown(shown') /\ Index(index')
    BY <1>12 DEF StartSync, Cleared, Shown, Index, FileAt
  <2> QED BY <1>12, <1>a, <2>1 DEF StartSync
<1>13. CASE BeginCopy
  <2> DEFINE c == local[Result(NextResult)]
  <2>1. /\ Now(sync, "read") /\ sync.todo # {} /\ UNCHANGED <<remote, local, index, runs>>
        /\ Valid(NextResult) /\ shown' = [shown EXCEPT ![NextResult] = Cut(c)]
    BY <1>13 DEF BeginCopy
  <2>2. NextResult \in sync.todo /\ NextResult \in Artifact
    BY <1>0, <2>1, NextIsListed DEF Now
  <2>3. c # NoFile
    BY <1>0, <2>1, <2>2 DEF Syncing, Now, Idle
  <2>4. c \in FileOf(NextResult, 1 .. Whole)
    <3>1. c \in FileOf(NextResult, 0 .. Whole)
      BY <1>a, <2>2, <2>3, Paths DEF Local, FileAt
    <3> QED BY <2>1, <3>1 DEF Valid, FileOf, Whole
  <2>5. FileAt(Result(NextResult), Cut(c), 0 .. Whole)
    BY <2>2, <2>4, FileFacts, Paths DEF FileAt
  <2>6. Shown(shown')
    BY <1>f, <2>1, <2>5
  <2> QED BY <1>a, <2>1, <2>6
<1>14. CASE EndCopy
  <2>1. shown' = [shown EXCEPT ![NextResult] = local[Result(NextResult)]]
        /\ UNCHANGED <<remote, local, index, runs>>
    BY <1>14 DEF EndCopy
  <2>2. NextResult \in Artifact =>
          FileAt(Result(NextResult), local[Result(NextResult)], 0 .. Whole)
    BY <1>a, Paths DEF Local
  <2>3. Shown(shown')
    BY <1>f, <2>1, <2>2
  <2> QED BY <1>a, <2>1, <2>3
<1>15. CASE WriteIndex
  <2>1. Index(index')
    BY <1>0, <1>15 DEF WriteIndex, Syncing, Now, Idle, Index
  <2> QED BY <1>15, <1>a, <2>1 DEF WriteIndex
<1>16. CASE Interrupt
  <2>1. Index(index')
    BY <1>16, <1>a DEF Interrupt, CutClear, Index
  <2>2. Shown(shown')
    <3>1. CASE UNCHANGED shown
      BY <1>a, <3>1
    <3>2. ASSUME NEW files \in SUBSET There(shown),
                 shown' = [a \in Artifact |-> IF a \in files THEN NoFile ELSE shown[a]]
          PROVE  Shown(shown')
      BY <1>a, <3>2 DEF Shown, FileAt
    <3> QED BY <1>16, <3>1, <3>2 DEF Interrupt, CutClear
  <2> QED BY <1>16, <1>a, <2>1, <2>2 DEF Interrupt
<1>17. CASE UNCHANGED <<remote, local, shown, index, runs>>
  BY <1>17, <1>a
<1> QED
  BY <1>1, <1>2, <1>3, <1>4, <1>5, <1>6, <1>7, <1>8, <1>9, <1>10, <1>11, <1>12,
     <1>13, <1>14, <1>15, <1>16, <1>17
  DEF Next, RemoteStep, LocalStep, DownStep, SyncStep, StartDown, StageResults, EndDown,
      RefuseSync, vars

-----------------------------------------------------------------------------
(* What the authoritative tree keeps. *)

Kept ==
  /\ \A p \in Path : local[p] # NoFile => local'[p] # NoFile
  /\ \A a \in Fenced : local[Result(a)] # NoFile /\ local[Result(a)].size = Whole =>
       local'[Result(a)] = local[Result(a)]

\* No file leaves the tree, and a remote result that is there as a whole stays as
\* it is, whatever else sync-down and the local runs do; only sync-down touches the
\* files of remote runs.
LEMMA LocalKept ==
  ASSUME IInv, [Next]_vars
  PROVE  /\ Kept
         /\ \/ BeginCopyDown \/ EndCopyDown
            \/ \A p \in Path : p[1] \in Fenced => local'[p] = local[p]
<1>0. Files /\ Rewriting /\ Copying
  BY DEF IInv
<1>a. DOMAIN local = Path /\ \A p \in Path : FileAt(p, local[p], 0 .. Whole)
  BY <1>0 DEF Files
<1>b. Fenced \subseteq Artifact /\ Rewritten \subseteq Artifact /\ Fenced \cap Rewritten = {}
  BY FencedAssumption DEF Artifact
<1>c. \A a \in Artifact : Result(a) \in Path /\ Result(a)[1] = a
  BY Paths
<1>d. ASSUME NEW a \in Rewritten, NEW x, x[1] = a, NEW c, c \in FileOf(a, 0 .. Whole),
             local' = [local EXCEPT ![x] = c]
      PROVE  Kept /\ \A p \in Path : p[1] \in Fenced => local'[p] = local[p]
  <2>1. c # NoFile
    BY <1>b, <1>d, FileFacts
  <2>2. \A p \in Path : local'[p] = IF p = x THEN c ELSE local[p]
    BY <1>a, <1>d
  <2> QED BY <1>b, <1>c, <1>d, <2>1, <2>2 DEF Kept
<1>e. 1 \in 0 .. Whole /\ Whole \in 1 .. Whole /\ Whole \in 0 .. Whole /\ 1 \in 1 .. Whole
  BY DEF Whole
<1>1. ASSUME NEW a \in Rewritten, WriteLog(a)
      PROVE  Kept /\ \A p \in Path : p[1] \in Fenced => local'[p] = local[p]
  <2>1. /\ runs[a] < Runs[a] /\ runs' = [runs EXCEPT ![a] = @ + 1]
        /\ local' = [local EXCEPT ![LogOf(a, runs'[a])] = File(runs'[a], TRUE, Whole)]
    BY <1>1 DEF WriteLog
  <2>2. runs[a] \in 0 .. Runs[a] /\ runs'[a] = runs[a] + 1 /\ Runs[a] \in Nat
    BY <1>0, <1>b, <2>1, Paths DEF Files
  <2>3. runs'[a] \in 0 .. Runs[a]
    BY <2>1, <2>2
  <2>4. File(runs'[a], TRUE, Whole) \in FileOf(a, 0 .. Whole)
    BY <1>b, <1>e, <2>3, FileFacts
  <2>5. LogOf(a, runs'[a])[1] = a
    BY Paths
  <2> QED BY <1>d, <2>1, <2>4, <2>5
<1>2. CASE BeginRewrite
  <2>1. Now(job, "logged")
    BY <1>2 DEF BeginRewrite
  <2>4. PICK passed \in BOOLEAN :
          local' = [local EXCEPT ![Result(job.of)] = File(runs[job.of], passed, 1)]
    BY <1>2 DEF BeginRewrite
  <2>2. job.of \in Rewritten /\ job.of \in Artifact
    BY <1>0, <1>b, <2>1 DEF Rewriting, Now, Idle
  <2>3. File(runs[job.of], passed, 1) \in FileOf(job.of, 0 .. Whole)
    BY <1>0, <1>e, <2>2, FileFacts DEF Files
  <2>5. Result(job.of)[1] = job.of
    BY <1>c, <2>2
  <2> QED BY <1>d, <2>2, <2>3, <2>4, <2>5
<1>3. CASE EndRewrite
  <2>1. Now(job, "writing") /\ local' = [local EXCEPT ![Result(job.of)].size = Whole]
    BY <1>3 DEF EndRewrite
  <2>2. job.of \in Rewritten /\ job.of \in Artifact /\ local[Result(job.of)] # NoFile
    BY <1>0, <1>b, <2>1 DEF Rewriting, Now, Idle
  <2>3. [local[Result(job.of)] EXCEPT !.size = Whole] \in FileOf(job.of, 0 .. Whole)
    BY <1>a, <1>c, <1>e, <2>2, FileFacts DEF FileAt
  <2> QED BY <1>c, <1>d, <2>1, <2>2, <2>3
<1>4. CASE BeginCopyDown
  <2> DEFINE x == FirstOf(Left)
  <2>1. /\ Now(down, "compare") /\ Left # {} /\ local[x] = NoFile
        /\ local' = [local EXCEPT ![x] = Cut(down.staged[x])]
    BY <1>4 DEF BeginCopyDown, Left, MayCopy
  <2>2. x \in Path /\ x[1] \in Artifact /\ down.staged[x] \in FileOf(x[1], 1 .. Whole)
    BY <1>0, <1>b, <2>1, CopiedIsStaged DEF Now
  <2>3. Cut(down.staged[x]) # NoFile
    BY <2>2, FileFacts
  <2>4. \A p \in Path : local'[p] = IF p = x THEN Cut(down.staged[x]) ELSE local[p]
    BY <1>a, <2>1
  <2> QED BY <1>4, <1>b, <1>c, <2>1, <2>3, <2>4 DEF Kept
<1>5. CASE EndCopyDown
  <2> DEFINE x == FirstOf(Left)
  <2>1. /\ Now(down, "copy") /\ local' = [local EXCEPT ![x] = down.staged[x]]
        /\ local[x] = Cut(down.staged[x]) /\ Left # {}
    BY <1>0, <1>5 DEF EndCopyDown, Left, Copying
  <2>2. x \in Path /\ x[1] \in Artifact /\ down.staged[x] \in FileOf(x[1], 1 .. Whole)
    BY <1>0, <1>b, <2>1, CopiedIsStaged DEF Now
  <2>3. down.staged[x] # NoFile /\ local[x].size # Whole
    BY <2>1, <2>2, FileFacts
  <2>4. \A p \in Path : local'[p] = IF p = x THEN down.staged[x] ELSE local[p]
    BY <1>a, <2>1
  <2> QED BY <1>5, <1>b, <1>c, <2>3, <2>4 DEF Kept
<1>6. CASE UNCHANGED local
  BY <1>6 DEF Kept
<1> QED
  BY <1>1, <1>2, <1>3, <1>4, <1>5, <1>6
  DEF Next, StartRemote, RemoteStep, BeginResult, EndResult, EndRemote, KillRemote,
      FreshCheckout, LocalStep, DownStep, StartDown, StageResults, EndDown, SyncStep,
      StartSync, RefuseSync, BeginCopy, EndCopy, WriteIndex, Interrupt, vars

-----------------------------------------------------------------------------
(* The runs. *)

\* The files that a run goes on writing are there.
LEMMA RunsStep == IInv /\ [Next]_vars => Running' /\ Rewriting'
<1> SUFFICES ASSUME IInv, [Next]_vars PROVE Running' /\ Rewriting'
  OBVIOUS
<1>0. Files /\ Running /\ Rewriting
  BY DEF IInv
<1>a. /\ DOMAIN remote = Path /\ \A p \in Path : FileAt(p, remote[p], 1 .. Whole)
      /\ DOMAIN local = Path
  BY <1>0 DEF Files
<1>b. Fenced \subseteq Artifact /\ Rewritten \subseteq Artifact /\ Fenced \cap Rewritten = {}
  BY FencedAssumption DEF Artifact
<1>c. 1 \in 1 .. Whole /\ Whole \in 1 .. Whole
  BY DEF Whole
<1>d. ~Now(run, "idle") => /\ run.of \in Fenced /\ run.of \in Artifact
                           /\ runs[run.of] \in 0 .. Runs[run.of]
  BY <1>0, <1>b DEF Running, Files, Now, Idle
<1>e. \A p \in Path : p[1] \in Artifact
  BY Paths
<1>f. ASSUME UNCHANGED <<run, remote>>, ~Now(run, "idle") => runs'[run.of] = runs[run.of]
      PROVE  Running'
  BY <1>0, <1>f DEF Running, LogOf
<1>g. ASSUME UNCHANGED job PROVE Rewriting'
  <2>1. Now(job, "writing") => job.of \in Artifact /\ Result(job.of) \in Path
    BY <1>0, <1>b, Paths DEF Rewriting, Now, Idle
  <2> QED BY <1>0, <1>g, <2>1, LocalKept DEF Rewriting, Kept
<1>h. ASSUME run' = Idle PROVE Running'
  BY <1>h DEF Running, Now, Idle
<1>i. ASSUME job' = Idle PROVE Rewriting'
  BY <1>i DEF Rewriting, Now, Idle
<1>1. ASSUME NEW a \in Fenced, StartRemote(a) PROVE Running' /\ Rewriting'
  <2>1. /\ run' = [at |-> "running", of |-> a] /\ UNCHANGED job
        /\ remote' = [remote EXCEPT ![LogOf(a, runs'[a])] = File(runs'[a], TRUE, 1)]
    BY <1>1 DEF StartRemote
  <2>2. runs'[a] \in 0 .. Runs[a]
    BY <1>b, FilesStep DEF Files
  <2>3. File(runs'[a], TRUE, 1) # NoFile
    <3>1. File(runs'[a], TRUE, 1) \in FileOf(a, 1 .. Whole)
      BY <1>b, <1>c, <2>2, FileFacts
    <3> QED BY <1>b, <3>1, FileFacts
  <2>4. \A p \in Path : p = LogOf(a, runs'[a]) => remote'[p] # NoFile
    BY <1>a, <2>1, <2>3
  <2>5. Running'
    BY <2>1, <2>4 DEF Running, Now, LogOf
  <2> QED BY <1>g, <2>1, <2>5
<1>2. CASE BeginResult
  <2>1. /\ Now(run, "running") /\ run' = [run EXCEPT !.at = "writing"]
        /\ remote' = [remote EXCEPT ![Result(run.of)] = File(runs[run.of], TRUE, 1)]
        /\ UNCHANGED <<runs, job>>
    BY <1>2 DEF BeginResult
  <2>2. ~Now(run, "idle") /\ run \in [at : {"running", "writing", "written"}, of : Fenced]
    BY <1>0, <2>1 DEF Running, Now, Idle
  <2>3. File(runs[run.of], TRUE, 1) # NoFile
    <3>1. File(runs[run.of], TRUE, 1) \in FileOf(run.of, 1 .. Whole)
      BY <1>c, <1>d, <2>2, FileFacts
    <3> QED BY <1>d, <2>2, <3>1, FileFacts
  <2>4. /\ run' \in [at : {"running", "writing", "written"}, of : Fenced]
        /\ run'.of = run.of
    BY <2>1, <2>2
  <2>5. \A p \in Path : remote[p] # NoFile \/ p = Result(run.of) => remote'[p] # NoFile
    BY <1>a, <2>1, <2>3
  <2>6. Running'
    BY <1>0, <2>1, <2>2, <2>4, <2>5 DEF Running, LogOf
  <2> QED BY <1>g, <2>1, <2>6
<1>3. CASE EndResult
  <2>1. /\ Now(run, "writing") /\ run' = [run EXCEPT !.at = "written"]
        /\ remote' = [remote EXCEPT ![Result(run.of)].size = Whole]
        /\ UNCHANGED <<runs, job>>
    BY <1>3 DEF EndResult
  <2>2. /\ ~Now(run, "idle") /\ ~Now(run, "running")
        /\ run \in [at : {"running", "writing", "written"}, of : Fenced]
    BY <1>0, <2>1 DEF Running, Now, Idle
  <2>3. /\ run' \in [at : {"running", "writing", "written"}, of : Fenced]
        /\ run'.of = run.of
    BY <2>1, <2>2
  <2>4. [remote[Result(run.of)] EXCEPT !.size = Whole] # NoFile
    <3>1. Result(run.of) \in Path /\ Result(run.of)[1] = run.of /\ remote[Result(run.of)] # NoFile
      BY <1>0, <1>d, <2>2, Paths DEF Running
    <3>2. remote[Result(run.of)] \in FileOf(run.of, 0 .. Whole)
      BY <1>a, <1>d, <2>2, <3>1, FileFacts DEF FileAt
    <3>3. [remote[Result(run.of)] EXCEPT !.size = Whole] \in FileOf(run.of, 0 .. Whole)
      BY <1>c, <1>d, <2>2, <3>2, FileFacts
    <3> QED BY <1>d, <2>2, <3>3, FileFacts
  <2>5. \A p \in Path : remote[p] # NoFile => remote'[p] # NoFile
    BY <1>a, <2>1, <2>4
  <2>6. Running'
    BY <1>0, <2>1, <2>2, <2>3, <2>5 DEF Running, LogOf
  <2> QED BY <1>g, <2>1, <2>6
<1>4. CASE EndRemote \/ KillRemote
  BY <1>4, <1>g, <1>h DEF EndRemote, KillRemote
<1>5. CASE FreshCheckout
  <2>1. run = Idle /\ UNCHANGED <<run, job>>
    BY <1>0, <1>5 DEF FreshCheckout, Running, Now
  <2> QED BY <1>g, <1>h, <2>1
<1>6. ASSUME NEW a \in Rewritten, WriteLog(a) PROVE Running' /\ Rewriting'
  <2>1. /\ runs' = [runs EXCEPT ![a] = @ + 1] /\ job' = [at |-> "logged", of |-> a]
        /\ UNCHANGED <<run, remote>>
    BY <1>6 DEF WriteLog
  <2>2. ~Now(run, "idle") => runs'[run.of] = runs[run.of]
    BY <1>0, <1>b, <1>d, <2>1 DEF Files
  <2>3. Rewriting'
    BY <2>1 DEF Rewriting, Now
  <2> QED BY <1>f, <2>1, <2>2, <2>3
<1>7. CASE BeginRewrite
  <2>1. /\ Now(job, "logged") /\ job' = [job EXCEPT !.at = "writing"]
        /\ UNCHANGED <<run, remote, runs>>
    BY <1>7 DEF BeginRewrite
  <2>2. PICK passed \in BOOLEAN :
          local' = [local EXCEPT ![Result(job.of)] = File(runs[job.of], passed, 1)]
    BY <1>7 DEF BeginRewrite
  <2>3. job \in [at : {"logged", "writing"}, of : Rewritten] /\ job.of \in Artifact
    BY <1>0, <1>b, <2>1 DEF Rewriting, Now, Idle
  <2>4. File(runs[job.of], passed, 1) # NoFile
    <3>1. File(runs[job.of], passed, 1) \in FileOf(job.of, 1 .. Whole)
      BY <1>0, <1>c, <2>3, FileFacts DEF Files
    <3> QED BY <2>3, <3>1, FileFacts
  <2>5. job' \in [at : {"logged", "writing"}, of : Rewritten] /\ job'.of = job.of
    BY <2>1, <2>3
  <2>6. local'[Result(job.of)] # NoFile
    BY <1>a, <2>2, <2>3, <2>4, Paths
  <2>7. Rewriting'
    BY <2>5, <2>6 DEF Rewriting
  <2> QED BY <1>f, <2>1, <2>7
<1>8. CASE EndRewrite
  BY <1>8, <1>f, <1>i DEF EndRewrite
<1>9. CASE Interrupt
  BY <1>9, <1>f, <1>g, <1>i DEF Interrupt
<1>10. CASE UNCHANGED <<remote, run, job, runs>>
  BY <1>10, <1>f, <1>g
<1> QED
  BY <1>1, <1>2, <1>3, <1>4, <1>5, <1>6, <1>7, <1>8, <1>9, <1>10
  DEF Next, RemoteStep, LocalStep, DownStep, StartDown, StageResults, BeginCopyDown,
      EndCopyDown, EndDown, SyncStep, StartSync, RefuseSync, BeginCopy, EndCopy, WriteIndex,
      vars

-----------------------------------------------------------------------------
(* sync-down. *)

\* The file it copies stays the one it began with.
LEMMA CopyingStep == IInv /\ [Next]_vars => Copying'
<1> SUFFICES ASSUME IInv, [Next]_vars PROVE Copying'
  OBVIOUS
<1>0. Files /\ Copying
  BY DEF IInv
<1>a. /\ DOMAIN local = Path
      /\ \A p \in Path : /\ FileAt(p, remote[p], 1 .. Whole)
                         /\ remote[p] # NoFile => p[1] \in Fenced
  BY <1>0 DEF Files
<1>b. Fenced \subseteq Artifact
  BY DEF Artifact
<1>c. ASSUME down' = Idle PROVE Copying'
  BY <1>c DEF Copying, Idle, Now
<1>d. ~Now(down, "idle") =>
        /\ down = [at |-> down.at, staged |-> down.staged]
        /\ down.at \in {"stage", "compare", "copy"}
        /\ DOMAIN down.staged = Path
        /\ \A p \in Path : /\ FileAt(p, down.staged[p], 1 .. Whole)
                           /\ down.staged[p] # NoFile => p[1] \in Fenced
  BY <1>0 DEF Copying, Now, Idle
<1>1. CASE StartDown
  <2> DEFINE staged == [p \in Path |-> IF Log(p) THEN remote[p] ELSE NoFile]
  <2>1. down' = [at |-> "stage", staged |-> staged]
    BY <1>1 DEF StartDown
  <2>2. DOMAIN staged = Path /\ \A p \in Path : /\ FileAt(p, staged[p], 1 .. Whole)
                                                /\ staged[p] # NoFile => p[1] \in Fenced
    BY <1>a DEF FileAt
  <2> HIDE DEF staged
  <2> QED BY <2>1, <2>2 DEF Copying, Now
<1>2. CASE StageResults
  <2> DEFINE staged == [p \in Path |-> IF Log(p) THEN down.staged[p] ELSE remote[p]]
  <2>1. down' = [at |-> "compare", staged |-> staged] /\ ~Now(down, "idle")
    BY <1>2 DEF StageResults, Now
  <2>2. DOMAIN staged = Path /\ \A p \in Path : /\ FileAt(p, staged[p], 1 .. Whole)
                                                /\ staged[p] # NoFile => p[1] \in Fenced
    BY <1>a, <1>d, <2>1 DEF FileAt
  <2> HIDE DEF staged
  <2> QED BY <2>1, <2>2 DEF Copying, Now
<1>3. CASE BeginCopyDown
  <2> DEFINE x == FirstOf(Left)
             staged == down.staged
  <2>1. /\ Now(down, "compare") /\ ~Now(down, "idle") /\ Left # {}
        /\ local' = [local EXCEPT ![x] = Cut(staged[x])]
        /\ down' = [down EXCEPT !.at = "copy"]
    BY <1>3 DEF BeginCopyDown, Left, Now
  <2>2. down' = [at |-> "copy", staged |-> staged]
    BY <1>d, <2>1
  <2>3. x \in Path /\ x[1] \in Artifact /\ staged[x] \in FileOf(x[1], 1 .. Whole)
        /\ staged[x] # local[x]
    BY <1>0, <1>b, <2>1, CopiedIsStaged
  <2>4. Cut(staged[x]) # staged[x]
    BY <2>3, FileFacts
  <2> HIDE DEF staged
  <2>5. local'[x] = Cut(staged[x]) /\ \A p \in Path \ {x} : local'[p] = local[p]
    BY <1>a, <2>1, <2>3
  <2>6. Left = {p \in There(staged) : local[p] # staged[p]}
        /\ Left' = {p \in There(staged) : local'[p] # staged[p]}
    BY <2>2 DEF Left, Unlike, There, staged
  <2>7. There(staged) \subseteq Path
    BY <1>d, <2>1 DEF There, staged
  <2>8. Left' = Left
    BY <2>3, <2>4, <2>5, <2>6, <2>7
  <2>9. local'[FirstOf(Left)] = Cut(down'.staged[FirstOf(Left)]) /\ Left' # {}
    BY <2>1, <2>2, <2>5, <2>8
  <2> QED BY <1>d, <2>1, <2>2, <2>8, <2>9 DEF Copying, staged
<1>4. CASE EndCopyDown
  <2>1. Now(down, "copy") /\ ~Now(down, "idle") /\ down' = [down EXCEPT !.at = "compare"]
    BY <1>4 DEF EndCopyDown, Now
  <2>2. down' = [at |-> "compare", staged |-> down.staged]
    BY <1>d, <2>1
  <2> QED BY <1>d, <2>1, <2>2 DEF Copying, Now
<1>5. CASE EndDown
  BY <1>5, <1>c DEF EndDown
<1>6. CASE UNCHANGED down /\ ~BeginCopyDown /\ ~EndCopyDown
  <2>1. CASE Now(down, "idle")
    BY <1>0, <1>6, <1>c, <2>1 DEF Copying, Now
  <2>2. CASE ~Now(down, "idle")
    <3>1. \A p \in Path : p[1] \in Fenced => local'[p] = local[p]
      BY <1>6, LocalKept
    <3>2. There(down.staged) \subseteq Path
          /\ \A p \in There(down.staged) : p[1] \in Fenced
      BY <1>d, <2>2 DEF There
    <3>3. Left' = Left
      BY <1>6, <3>1, <3>2 DEF Left, Unlike, There
    <3>4. ASSUME Now(down, "copy")
          PROVE  Left # {} /\ local'[FirstOf(Left)] = Cut(down.staged[FirstOf(Left)])
      <4>1. Left # {} /\ local[FirstOf(Left)] = Cut(down.staged[FirstOf(Left)])
        BY <1>0, <3>4 DEF Copying
      <4>2. FirstOf(Left) \in Path /\ FirstOf(Left)[1] \in Fenced
        BY <1>0, <2>2, <4>1, CopiedIsStaged
      <4> QED BY <3>1, <4>1, <4>2
    <3> QED BY <1>6, <1>d, <2>2, <3>3, <3>4 DEF Copying, Now
  <2> QED BY <2>1, <2>2
<1>7. CASE Interrupt
  <2>1. down' = Idle \/ UNCHANGED <<down, local>>
    BY <1>7 DEF Interrupt
  <2>2. CASE UNCHANGED <<down, local>>
    <3>1. Left' = Left
      BY <2>2 DEF Left, Unlike, There
    <3> QED BY <1>0, <2>2, <3>1 DEF Copying
  <2> QED BY <1>c, <2>1, <2>2
<1> QED
  BY <1>1, <1>2, <1>3, <1>4, <1>5, <1>6, <1>7
  DEF Next, StartRemote, RemoteStep, BeginResult, EndResult, EndRemote, KillRemote,
      FreshCheckout, WriteLog, LocalStep, BeginRewrite, EndRewrite, DownStep, SyncStep,
      StartSync, RefuseSync, BeginCopy, EndCopy, WriteIndex, vars

-----------------------------------------------------------------------------
(* sync-results. *)

\* A result that is in the tree as a whole and its log stay.
LEMMA ListedKept ==
  ASSUME IInv, [Next]_vars, NEW a \in Fenced, NEW n \in 0 .. Runs[a],
         local[LogOf(a, n)] # NoFile
  PROVE  /\ local'[LogOf(a, n)] # NoFile
         /\ local[Result(a)] = File(n, TRUE, Whole) => local'[Result(a)] = File(n, TRUE, Whole)
<1>1. a \in Artifact /\ LogOf(a, n) \in Path
  BY Paths DEF Artifact
<1>2. File(n, TRUE, Whole) # NoFile /\ File(n, TRUE, Whole).size = Whole
  <2>1. Whole \in 1 .. Whole
    BY DEF Whole
  <2>2. File(n, TRUE, Whole) \in FileOf(a, 0 .. Whole)
    BY <1>1, <2>1, FileFacts
  <2> QED BY <1>1, <2>2, FileFacts DEF File
<1> QED BY <1>1, <1>2, LocalKept DEF Kept

\* What has been listed stays true of the tree until the index is written.
LEMMA SyncingStep == IInv /\ [Next]_vars => Syncing'
<1> SUFFICES ASSUME IInv, [Next]_vars PROVE Syncing'
  OBVIOUS
<1>0. Files /\ Syncing
  BY DEF IInv
<1> DEFINE Sync == [at : {"read", "copy"}, todo : SUBSET Artifact, listed : [Artifact -> Nat]]
<1>a. /\ DOMAIN shown = Artifact /\ Fenced \subseteq Artifact
      /\ \A a \in Artifact : Result(a) \in Path /\ FileAt(Result(a), local[Result(a)], 0 .. Whole)
  BY <1>0, Paths DEF Files, Artifact
<1>b. ASSUME sync' = Idle PROVE Syncing'
  BY <1>b DEF Syncing, Idle, Now
<1>c. ~Now(sync, "idle") => sync \in Sync
  BY <1>0 DEF Syncing, Now, Idle
<1>1. CASE StartSync
  <2>1. CASE Found = {}
    BY <1>1, <1>b, <2>1 DEF StartSync
  <2>2. CASE Found # {}
    <3>1. /\ sync' = [at |-> "read", todo |-> Found, listed |-> Nobody]
          /\ index' = NoFile /\ UNCHANGED local
      BY <1>1, <2>2 DEF StartSync, Cleared
    <3>2. Found \subseteq Artifact /\ \A a \in Found : local[Result(a)] # NoFile
      BY DEF Found
    <3>3. Nobody \in [Artifact -> Nat] /\ \A a \in Artifact : Nobody[a] = 0
      BY DEF Nobody
    <3> QED BY <1>a, <3>1, <3>2, <3>3 DEF Syncing
  <2> QED BY <2>1, <2>2
<1>2. CASE RefuseSync \/ WriteIndex
  BY <1>2, <1>b DEF RefuseSync, WriteIndex
<1>3. CASE BeginCopy
  <2> DEFINE N == NextResult
             c == local[Result(N)]
  <2>1. /\ Now(sync, "read") /\ ~Now(sync, "idle") /\ sync.todo # {} /\ Valid(N)
        /\ shown' = [shown EXCEPT ![N] = Cut(c)]
        /\ sync' = [sync EXCEPT !.at = "copy", !.listed[N] = c.run]
        /\ UNCHANGED <<local, index>>
    BY <1>3 DEF BeginCopy, Now
  <2>2. N \in sync.todo /\ N \in Artifact /\ c # NoFile
    BY <1>0, <2>1, NextIsListed DEF Syncing
  <2>3. /\ c \in FileOf(N, 0 .. Whole) /\ c.run \in 0 .. Runs[N] /\ c.run \in Nat
        /\ N \in Fenced => c = File(c.run, TRUE, Whole)
        /\ local[LogOf(N, c.run)] # NoFile
    <3>1. c \in FileOf(N, 0 .. Whole)
      BY <1>a, <2>2, Paths DEF FileAt
    <3>2. /\ c.size = Whole /\ local[LogOf(N, c.run)] # NoFile
          /\ N \in Fenced => c.passed
      BY <2>1, JudgedAssumption DEF Valid
    <3>3. N \in Fenced => c.passed = TRUE
      BY <3>1, <3>2 DEF FileOf
    <3> HIDE DEF c
    <3>4. c = [run |-> c.run, passed |-> c.passed, size |-> c.size]
          /\ c.run \in 0 .. Runs[N]
      BY <3>1 DEF FileOf
    <3>5. Runs[N] \in Nat
      BY <2>2, Paths
    <3> QED BY <3>1, <3>2, <3>3, <3>4, <3>5 DEF File
  <2> HIDE DEF N, c
  <2>4. /\ sync' \in Sync /\ Now(sync', "copy") /\ sync'.todo = sync.todo
        /\ sync'.listed[N] = c.run
        /\ \A a \in Artifact \ {N} : sync'.listed[a] = sync.listed[a]
    BY <1>c, <2>1, <2>2, <2>3 DEF Now
  <2>5. NextResult' = N
    BY <2>4 DEF NextResult, N
  <2>6. ASSUME NEW a \in Fenced, sync'.listed[a] # 0
        PROVE  /\ sync'.listed[a] \in 0 .. Runs[a]
               /\ local[Result(a)] = File(sync'.listed[a], TRUE, Whole)
               /\ local[LogOf(a, sync'.listed[a])] # NoFile
               /\ \/ shown'[a] = local[Result(a)]
                  \/ a = N
    <3>1. CASE a = N
      BY <2>3, <2>4, <3>1 DEF c
    <3>2. CASE a # N
      <4>1. sync'.listed[a] = sync.listed[a] /\ shown'[a] = shown[a]
        BY <1>a, <2>1, <2>4, <3>2
      <4>2. ~Now(sync, "idle") /\ ~Now(sync, "copy")
        BY <2>1 DEF Now
      <4>3. sync.listed[a] # 0
        BY <2>6, <4>1
      <4>4. /\ sync.listed[a] \in 0 .. Runs[a]
            /\ local[Result(a)] = File(sync.listed[a], TRUE, Whole)
            /\ local[LogOf(a, sync.listed[a])] # NoFile
            /\ shown[a] = local[Result(a)]
        BY <1>0, <4>2, <4>3 DEF Syncing
      <4> QED BY <4>1, <4>4
    <3> QED BY <3>1, <3>2
  <2>7. index' = NoFile /\ \A a \in sync'.todo : local'[Result(a)] # NoFile
    <3>1. index = NoFile /\ \A a \in sync.todo : local[Result(a)] # NoFile
      BY <1>0, <2>1 DEF Syncing
    <3> QED BY <2>1, <2>4, <3>1
  <2>8. \A a \in Fenced : sync'.listed[a] # 0 =>
          /\ sync'.listed[a] \in 0 .. Runs[a]
          /\ local'[Result(a)] = File(sync'.listed[a], TRUE, Whole)
          /\ local'[LogOf(a, sync'.listed[a])] # NoFile
          /\ \/ shown'[a] = local'[Result(a)]
             \/ Now(sync', "copy") /\ a = NextResult'
    <3>1. local' = local /\ Now(sync', "copy")
      BY <2>1, <2>4
    <3> HIDE DEF Sync
    <3> QED BY <2>5, <2>6, <3>1
  <2>9. sync' \in Sync
    BY <2>4
  <2> QED
    <3> SUFFICES sync' = Idle \/ sync' \in Sync
      BY <2>7, <2>8 DEF Syncing
    <3> QED BY <2>9
<1>4. CASE EndCopy
  <2> DEFINE N == NextResult
  <2>1. /\ Now(sync, "copy") /\ ~Now(sync, "idle")
        /\ shown' = [shown EXCEPT ![N] = local[Result(N)]]
        /\ sync' = [sync EXCEPT !.at = "read", !.todo = @ \ {N}]
        /\ UNCHANGED <<local, index>>
    BY <1>4 DEF EndCopy, Now
  <2> HIDE DEF N
  <2>2. /\ sync' \in Sync /\ sync'.todo = sync.todo \ {N} /\ sync'.listed = sync.listed
    BY <1>c, <2>1
  <2>3. \A a \in Fenced : shown'[a] = IF a = N THEN local[Result(N)] ELSE shown[a]
    BY <1>a, <2>1
  <2>4. \A a \in Fenced : sync.listed[a] # 0 => shown'[a] = local[Result(a)]
    BY <1>0, <2>1, <2>3 DEF Syncing, N
  <2> QED BY <1>0, <2>1, <2>2, <2>4 DEF Syncing
<1>5. CASE UNCHANGED <<sync, shown, index>>
  <2>1. CASE Now(sync, "idle")
    BY <1>0, <1>5, <1>b, <2>1 DEF Syncing, Now
  <2>2. CASE ~Now(sync, "idle")
    <3>1. NextResult' = NextResult
      BY <1>5 DEF NextResult
    <3>2. \A a \in sync.todo : local'[Result(a)] # NoFile
      BY <1>0, <1>a, <1>c, <2>2, LocalKept DEF Syncing, Kept
    <3>3. ASSUME NEW a \in Fenced, sync.listed[a] # 0
          PROVE  /\ local'[Result(a)] = File(sync.listed[a], TRUE, Whole)
                 /\ local'[Result(a)] = local[Result(a)]
                 /\ local'[LogOf(a, sync.listed[a])] # NoFile
      BY <1>0, <2>2, <3>3, ListedKept DEF Syncing
    <3> QED BY <1>0, <1>5, <2>2, <3>1, <3>2, <3>3 DEF Syncing
  <2> QED BY <2>1, <2>2
<1>6. CASE Interrupt
  <2>1. \/ sync' = Idle
        \/ UNCHANGED <<sync, shown, index>>
        \/ Now(sync, "idle") /\ sync' = sync
    BY <1>6 DEF Interrupt
  <2> QED BY <1>0, <1>5, <1>b, <2>1 DEF Syncing, Now
<1> QED
  BY <1>1, <1>2, <1>3, <1>4, <1>5, <1>6
  DEF Next, StartRemote, RemoteStep, BeginResult, EndResult, EndRemote, KillRemote,
      FreshCheckout, WriteLog, LocalStep, BeginRewrite, EndRewrite, DownStep, StartDown,
      StageResults, BeginCopyDown, EndCopyDown, EndDown, SyncStep, vars

\* What the index stands for stays true after it is written.
LEMMA PublishedStep == IInv /\ [Next]_vars => Listed' /\ PublishedIsTrue'
<1> SUFFICES ASSUME IInv, [Next]_vars PROVE Listed' /\ PublishedIsTrue'
  OBVIOUS
<1>0. Syncing /\ Listed /\ PublishedIsTrue
  BY DEF IInv
<1>1. CASE index' = NoFile
  BY <1>1 DEF Listed, PublishedIsTrue
<1>2. CASE index' = index /\ \A a \in Fenced : shown'[a] = NoFile \/ shown'[a] = shown[a]
  <2>1. ASSUME index # NoFile, NEW a \in Fenced, index[a] # 0, shown[a] # NoFile
        PROVE  local'[LogOf(a, index[a])] # NoFile
    BY <1>0, <2>1, ListedKept DEF Listed, PublishedIsTrue
  <2> QED BY <1>0, <1>2, <2>1 DEF Listed, PublishedIsTrue
<1>3. CASE WriteIndex
  <2>1. Now(sync, "read") /\ ~Now(sync, "idle") /\ ~Now(sync, "copy")
        /\ index' = sync.listed /\ UNCHANGED <<local, shown>>
    BY <1>3 DEF WriteIndex, Now
  <2>2. \A a \in Fenced : sync.listed[a] # 0 =>
          /\ sync.listed[a] \in 0 .. Runs[a]
          /\ shown[a] = File(sync.listed[a], TRUE, Whole)
          /\ local[LogOf(a, sync.listed[a])] # NoFile
    BY <1>0, <2>1 DEF Syncing
  <2>3. \A a \in Fenced : 0 \in 0 .. Runs[a]
    BY Paths DEF Artifact
  <2> QED BY <2>1, <2>2, <2>3 DEF Listed, PublishedIsTrue
<1>4. CASE StartSync
  BY <1>1, <1>4 DEF StartSync, Cleared
<1>5. CASE BeginCopy \/ EndCopy
  <2>1. ~Now(sync, "idle") /\ index' = index
    BY <1>5 DEF BeginCopy, EndCopy, Now
  <2> QED BY <1>0, <1>1, <2>1 DEF Syncing
<1>6. CASE Interrupt
  <2>1. index' \in {index, NoFile}
    BY <1>6 DEF Interrupt, CutClear
  <2>2. \A a \in Fenced : shown'[a] = NoFile \/ shown'[a] = shown[a]
    BY <1>6 DEF Interrupt, CutClear, Artifact
  <2> QED BY <1>1, <1>2, <2>1, <2>2
<1>7. CASE UNCHANGED <<shown, index>>
  BY <1>2, <1>7
<1> QED
  BY <1>3, <1>4, <1>5, <1>6, <1>7
  DEF Next, StartRemote, RemoteStep, BeginResult, EndResult, EndRemote, KillRemote,
      FreshCheckout, WriteLog, LocalStep, BeginRewrite, EndRewrite, DownStep, StartDown,
      StageResults, BeginCopyDown, EndCopyDown, EndDown, SyncStep, RefuseSync, vars

-----------------------------------------------------------------------------
(* The theorem. *)

\* PublishedIsTrue always holds: whatever overlaps or is cut off, the reader sees
\* of a remote result that is listed the whole copy of the run listed, or nothing.
THEOREM FencedResultsAreTrue == Spec => []PublishedIsTrue
<1>1. Init => IInv
  <2> SUFFICES ASSUME Init PROVE IInv
    OBVIOUS
  <2>1. Files
    BY Paths DEF Init, Files, FileAt
  <2>2. Running /\ Rewriting /\ Copying /\ Syncing
    BY DEF Init, Running, Rewriting, Copying, Syncing, Now, Idle
  <2> QED BY <2>1, <2>2 DEF Init, IInv, Listed, PublishedIsTrue
<1>2. IInv /\ [Next]_vars => IInv'
  BY FilesStep, RunsStep, CopyingStep, SyncingStep, PublishedStep DEF IInv
<1>3. IInv => PublishedIsTrue
  BY DEF IInv
<1> QED BY <1>1, <1>2, <1>3, PTL DEF Spec
=============================================================================
