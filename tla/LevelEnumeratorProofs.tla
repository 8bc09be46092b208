----------------------- MODULE LevelEnumeratorProofs ------------------------
(***************************************************************************)
(* Proved for every game, every number of levels and directories, and      *)
(* every stop.  KeepInv: the files a level is read from and those its      *)
(* saved registry names are never deleted, and the config file never names *)
(* a level without a registry.  HandInv: the files the threads of a level  *)
(* work on stay apart.  GoodInv, unless a stop came at a bad moment: every *)
(* board is on its way to the merge, no file holds a board that is not of  *)
(* its level, and what a restart finds of a level is all of it or nothing. *)
(***************************************************************************)
EXTENDS LevelEnumeratorProps, FiniteSetTheorems, WellFoundedInduction, TLAPS

\* Files the level writes itself, and may delete.
IsFile(f) == "kind" \in DOMAIN f
Work(f) == IsFile(f) /\ f.kind \in {"solve", "run", "interim", "tmp"}
Kept(f) == IsFile(f) /\ f.kind \in {"seed", "merge"}

\* The fields of the records the threads keep.
Fields ==
  /\ DOMAIN main = {"pc", "level", "last", "restarted", "current", "skipped", "turn", "gone"}
  /\ DOMAIN flush = {"stage", "dir", "out", "snap", "srcs", "temps", "left"}
  /\ DOMAIN move = {"stage", "from", "to"}
  /\ DOMAIN job = {"file", "boards", "stage"}

\* Whatever a thread may delete, or will put where it may be deleted, is work
\* of the level.
WorkOnly ==
  /\ \A f \in DOMAIN disk : IsFile(f)
  /\ \A f \in solveReg \cup runReg \cup main.gone : Work(f)
  /\ \A f \in flush.srcs \cup flush.temps \cup flush.left : Work(f)
  /\ flush.stage \notin {"idle", "collected"} => Work(flush.out)
  /\ move.stage # "idle" => Work(move.from) /\ Work(move.to)
  /\ job # NoJob => Work(job.file)

\* While the main thread merges and saves, no other thread touches the
\* registries.
Alone ==
  /\ main.pc # "solve" => job = NoJob
  /\ main.pc \notin {"solve", "drain"} => move.stage = "idle"
  /\ main.pc \notin {"solve", "drain", "resume"} => flush.stage = "idle"

\* The merged level is on the NAS before its sources are deleted, and its
\* registry is saved before the config file names it.
MergedKept ==
  /\ main.pc \in {"delete", "save", "config"} => Merged \subseteq DOMAIN disk
  /\ main.pc = "config" => Level \in DOMAIN meta

KeptOnly ==
  /\ \A f \in main.current : Kept(f)
  /\ \A l \in DOMAIN meta : \A f \in meta[l] : Kept(f)

KeepInv ==
  /\ Fields /\ WorkOnly /\ Alone /\ MergedKept /\ KeptOnly
  /\ InputsKept /\ RestartFindsLevel

-----------------------------------------------------------------------------
\* What the two operators do to the set of files that exist.
LEMMA PutDomain == ASSUME NEW f, NEW boards
                   PROVE  DOMAIN Put(f, boards) = {f} \cup DOMAIN disk
BY DEF Put

LEMMA WithoutDomain == ASSUME NEW files
                       PROVE  DOMAIN Without(files) = DOMAIN disk \ files
BY DEF Without

\* A merge that begins has the sources it was given and deletes no others.
LEMMA NewFlush ==
  ASSUME NEW out, NEW dir, NEW files, Work(out), \A f \in files : Work(f)
  PROVE  LET m == MergeInto(out, dir, files)
         IN  /\ DOMAIN m = {"stage", "dir", "out", "snap", "srcs", "temps", "left"}
             /\ \A f \in m.srcs \cup m.temps \cup m.left : Work(f)
             /\ Work(m.out)
BY DEF MergeInto, Idle

\* The files a level writes are work; the seed and the merged level are not.
LEMMA Names ==
  ASSUME NEW level, NEW dir, NEW n
  PROVE  /\ \A kind \in {"solve", "run", "interim", "tmp"} : Work(Name(kind, level, dir, n))
         /\ Kept(MergeFile(level)) /\ Kept(Seed)
BY DEF Name, MergeFile, Seed, Work, Kept, IsFile

-----------------------------------------------------------------------------
\* The first run starts with the seed and nothing else.
LEMMA InitKeeps == Init => KeepInv
BY Names
   DEF Init, KeepInv, Fields, WorkOnly, Alone, MergedKept, KeptOnly, InputsKept,
       RestartFindsLevel, Thread0, Idle, Still, NoJob, Running, At, Seed, Name, IsFile, Kept

\* A process that ends, wherever it does, leaves the disk as it is.
LEMMA DownKeeps == ASSUME KeepInv, Down, UNCHANGED durable PROVE KeepInv'
BY DEF KeepInv, Fields, WorkOnly, Alone, MergedKept, KeptOnly, InputsKept,
       RestartFindsLevel, Thread0, Idle, Still, NoJob, Running, At, Down, durable

\* Every step keeps the invariant.  What is removed is work, and what a saved
\* registry names or a level is read from is not.
LEMMA StepKeeps == ASSUME KeepInv, Next PROVE KeepInv'
<1> USE DEF KeepInv, Fields, WorkOnly, Alone, MergedKept, KeptOnly, InputsKept,
            RestartFindsLevel, Running, At, Goto, Level, Merged, Sources, durable
<1>1. CASE PassOver
  BY <1>1 DEF PassOver, Looping, Behind, Complete
<1>2. CASE Solve
  BY <1>2 DEF Solve, Looping, Interrupted
<1>3. CASE Resume
  BY <1>3, Names DEF Resume, Looping, Found, FoundSolve, FoundRuns, Work, Kept, IsFile
<1>4. CASE ReadBatch
  BY <1>4 DEF ReadBatch
<1>5. CASE StartFlushBuffer
  BY <1>5, Names DEF StartFlushBuffer
<1>6. CASE FinishSolve
  BY <1>6 DEF FinishSolve
<1>7. CASE JoinThreads
  BY <1>7 DEF JoinThreads, Joined
<1>8. CASE Resumed
  BY <1>8 DEF Resumed, MergeFile
<1>9. CASE MergeToPartitions
  BY <1>9, PutDomain, Names DEF MergeToPartitions, MergeFile, Work, Kept, IsFile, Put
<1>10. CASE NothingToMerge
  BY <1>10 DEF NothingToMerge
<1>11. CASE DeleteMerged
  BY <1>11, WithoutDomain, Names DEF DeleteMerged, Work, Kept, IsFile, Without
<1>12. CASE MergeDone
  BY <1>12, DownKeeps DEF MergeDone
<1>13. CASE FRSave
  BY <1>13, Names DEF FRSave, Saved, Work, Kept, IsFile
<1>14. CASE WriteConfig
  BY <1>14, Names DEF WriteConfig, Work, Kept, IsFile
<1>15. CASE WriteHeader
  BY <1>15, PutDomain, Names DEF WriteHeader, Work, Kept, IsFile, Put
<1>16. CASE WriteBoards
  BY <1>16, PutDomain, Names DEF WriteBoards, Work, Kept, IsFile, Put
<1>17. CASE Register
  BY <1>17 DEF Register, NoJob
<1>18. CASE NoFlushNeeded
  BY <1>18 DEF NoFlushNeeded, Idle
<1>19. CASE Pass
  BY <1>19, PutDomain, Names DEF Pass, Batch, Target, Work, Kept, IsFile, Put
<1>20. CASE LastPass
  BY <1>20, PutDomain, Names DEF LastPass, Work, Kept, IsFile, Put
<1>21. CASE DeleteSource
  BY <1>21, WithoutDomain, Names DEF DeleteSource, Work, Kept, IsFile, Without
<1>22. CASE MergeFails
  BY <1>22, WithoutDomain, Names
    DEF MergeFails, AfterFlush, Idle, Work, Kept, IsFile, Without
<1>23. CASE RecordFlush
  BY <1>23 DEF RecordFlush, AfterFlush, Idle
<1>24. CASE CopyRun
  BY <1>24, PutDomain, Names DEF CopyRun, Work, Kept, IsFile, Put
<1>25. CASE CopyFails
  BY <1>25 DEF CopyFails, Still
<1>26. CASE UpdatePath
  BY <1>26 DEF UpdatePath
<1>27. CASE DeleteMoved
  BY <1>27, WithoutDomain, Names DEF DeleteMoved, Still, Work, Kept, IsFile, Without
<1>28. CASE Collect
  BY <1>28, Names, NewFlush DEF Collect
<1>29. CASE StartMove
  BY <1>29, Names DEF StartMove, Work, Kept, IsFile
<1>30. CASE CtrlC
  BY <1>30 DEF CtrlC
<1>31. CASE Restart
  BY <1>31, PutDomain, Names DEF Restart, Thread0, Work, Kept, IsFile, Put
<1>32. ASSUME NEW d, NEW to, FlushNvmeDir(d, to),
              UNCHANGED <<durable, main, job, solveReg, runReg, move>>,
              main.pc \in {"solve", "drain", "resume"}
       PROVE  KeepInv'
  <2> DEFINE out == Name("run", Level, to, seq.run)
  <2>1. Work(out)
    BY Names
  <2>2. \A f \in FlushFiles(d) : Work(f)
    BY DEF WorkOnly, FlushFiles
  <2>3. flush' = MergeInto(out, d, FlushFiles(d))
    BY <1>32 DEF FlushNvmeDir
  <2> HIDE DEF out
  <2> QED
    BY <1>32, <2>1, <2>2, <2>3, NewFlush
<1>33. CASE ResumeFlush
  BY <1>32, <1>33 DEF ResumeFlush, FlushNvmeDir
<1>34. ASSUME NEW d \in Fast, StartFlush(d) PROVE KeepInv'
  BY <1>32, <1>34 DEF StartFlush
<1>35. CASE Stop \/ StopAfterSolve \/ MergeStops \/ Crash
  BY <1>35, DownKeeps DEF Stop, StopAfterSolve, MergeStops, Crash
<1> QED
  BY <1>1, <1>2, <1>3, <1>4, <1>5, <1>6, <1>7, <1>8, <1>9, <1>10, <1>11, <1>12,
     <1>13, <1>14, <1>15, <1>16, <1>17, <1>18, <1>19, <1>20, <1>21, <1>22, <1>23, <1>24,
     <1>25, <1>26, <1>27, <1>28, <1>29, <1>30, <1>31, <1>33, <1>34, <1>35
  DEF Next, MainStep, WriterStep, FlushStep, MoveStep, MonitorStep

-----------------------------------------------------------------------------
\* The invariant holds for any game, any drives and any stops and restarts
\* (the level loop of main with PipelineRun, NVMeFlush and MergePhase).
THEOREM KeepInvariant == Spec => []KeepInv
<1>1. KeepInv /\ UNCHANGED vars => KeepInv'
  BY DEF vars, KeepInv, Fields, WorkOnly, Alone, MergedKept, KeptOnly, InputsKept,
         RestartFindsLevel, Running, At, Level, Merged, Sources
<1> QED
  BY <1>1, InitKeeps, StepKeeps, PTL DEF Spec

\* No flush, migration or merge ever deletes the boards a level is expanded from
\* or a file that ole_merge_level<n>.meta names: after any stop the level can be
\* solved anew, and a level passed over on a restart is there.
THEOREM InputsStay == Spec => []InputsKept
BY KeepInvariant, PTL DEF KeepInv

\* The level ole_run_config.json names has a registry whenever a process ends:
\* FRSave comes before the config file is written, and no registry is removed.
THEOREM RegistryFound == Spec => []RestartFindsLevel
BY KeepInvariant, PTL DEF KeepInv

-----------------------------------------------------------------------------
(* The levels of the game.                                                 *)

\* A set of numbers has a least one.
LEMMA LeastNumber ==
  ASSUME NEW S \in SUBSET Nat, S # {}
  PROVE  \E x \in S : \A y \in S : x <= y
<1>1. PICK n \in S : n \in Nat
  OBVIOUS
<1> DEFINE T == {y \in S : y <= n}
           Below(x) == {y \in T : y < x}
           B == {Below(x) : x \in T}
<1>2. IsFiniteSet(T)
  <2>1. \A y \in T : y \in 0..n
    BY <1>1
  <2>2. T \in SUBSET (0..n)
    BY <2>1
  <2>3. n \in Int
    BY <1>1
  <2> HIDE DEF T
  <2>4. IsFiniteSet(0..n)
    BY <2>3, FS_Interval
  <2> QED  BY <2>2, <2>4, FS_Subset
<1>3. \A U \in SUBSET T : U \in FiniteSubsetsOf(T)
  BY <1>2, FS_Subset DEF FiniteSubsetsOf
<1>4. n \in T /\ \A x : Below(x) \in SUBSET T
  BY <1>1
<1>5. B \subseteq FiniteSubsetsOf(T) /\ B # {}
  BY <1>3, <1>4
<1>6. PICK b \in B : \A y \in B : ~(<<y, b>> \in StrictSubsetOrdering(T))
  BY <1>2, <1>5, FS_StrictSubsetOrderingWellFounded, WFMin
<1>7. PICK x \in T : b = Below(x)
  OBVIOUS
<1>8. ASSUME NEW y \in T, y < x PROVE FALSE
  <2>1. x \in Nat /\ y \in Nat
    BY <1>7, <1>8
  <2>2. Below(y) \subseteq Below(x) /\ y \in Below(x) /\ y \notin Below(y)
    <3>1. \A z \in T : z \in Nat /\ (z < y => z < x)
      BY <1>8, <2>1
    <3>2. y \in Below(x)
      BY <1>8
    <3>3. y \notin Below(y)
      BY <2>1
    <3> QED  BY <3>1, <3>2, <3>3
  <2>3. <<Below(y), Below(x)>> \in StrictSubsetOrdering(T)
    BY <2>2 DEF StrictSubsetOrdering
  <2> QED  BY <1>6, <1>7, <2>3
<1> QED  BY <1>7, <1>8

\* The function that Reach is said to be, up to a level.
Onward(boards) == UNION {Kids[b] : b \in boards}
Upto(g, m) == /\ DOMAIN g = 0..m /\ g[0] = {Root}
              /\ \A n \in 1..m : g[n] = Onward(g[n - 1])

\* Two functions that follow the recursion agree as far as both go.
LEMMA UptoUnique ==
  ASSUME NEW m \in Nat, NEW k \in Nat, NEW g, NEW h, Upto(g, m), Upto(h, k)
  PROVE  \A n \in Nat : n <= m /\ n <= k => g[n] = h[n]
<1> DEFINE S == {n \in Nat : n <= m /\ n <= k /\ g[n] # h[n]}
<1> SUFFICES ASSUME S # {} PROVE FALSE
  OBVIOUS
<1>1. PICK n \in S : \A y \in S : n <= y
  BY LeastNumber
<1>2. n # 0
  BY DEF Upto
<1>3. n - 1 \in Nat /\ n - 1 \notin S
  BY <1>1, <1>2
<1>4. g[n - 1] = h[n - 1]
  BY <1>3
<1>5. n \in 1..m /\ n \in 1..k
  BY <1>2
<1> QED  BY <1>4, <1>5 DEF Upto

\* One that follows it exists for every bound.
LEMMA UptoExists == ASSUME NEW m \in Nat PROVE \E g : Upto(g, m)
<1> DEFINE S == {n \in Nat : ~ \E g : Upto(g, n)}
<1> SUFFICES ASSUME S # {} PROVE FALSE
  OBVIOUS
<1>1. PICK n \in S : \A y \in S : n <= y
  BY LeastNumber
<1>2. n # 0
  <2> DEFINE g == [i \in 0..0 |-> {Root}]
  <2>1. Upto(g, 0)
    BY DEF Upto
  <2> QED  BY <2>1
<1>3. PICK g : Upto(g, n - 1)
  BY <1>1, <1>2
<1> DEFINE h == [i \in 0..n |-> IF i = n THEN Onward(g[n - 1]) ELSE g[i]]
<1>4. Upto(h, n)
  <2>1. DOMAIN h = 0..n /\ h[0] = {Root}
    BY <1>2, <1>3 DEF Upto
  <2>2. ASSUME NEW i \in 1..n PROVE h[i] = Onward(h[i - 1])
    <3>1. h[i - 1] = g[i - 1]
      OBVIOUS
    <3>2. CASE i = n
      BY <3>1, <3>2
    <3>3. CASE i # n
      <4>1. h[i] = g[i] /\ i \in 1..(n - 1)
        BY <3>3
      <4> QED  BY <3>1, <4>1, <1>3 DEF Upto
    <3> QED  BY <3>2, <3>3
  <2> QED  BY <2>1, <2>2 DEF Upto
<1> QED  BY <1>4

\* Level 0 is the first board; the next level is what this one leads to.
LEMMA ReachIs ==
  /\ Reach[0] = {Root}
  /\ \A n \in Nat : Reach[n + 1] = UNION {Kids[b] : b \in Reach[n]}
<1> DEFINE Prefix(n) == CHOOSE g : Upto(g, n)
           f == [n \in Nat |-> Prefix(n)[n]]
           Eq(h) == h = [n \in Nat |-> IF n = 0 THEN {Root} ELSE UNION {Kids[b] : b \in h[n - 1]}]
<1>1. \A n \in Nat : Upto(Prefix(n), n)
  BY UptoExists
<1> HIDE DEF Prefix
<1>2. f[0] = {Root}
  BY <1>1 DEF Upto
<1>3. ASSUME NEW n \in Nat, n # 0 PROVE f[n] = Onward(f[n - 1])
  <2>1. n - 1 \in Nat /\ n \in 1..n
    BY <1>3
  <2>2. Prefix(n)[n] = Onward(Prefix(n)[n - 1])
    BY <1>1, <2>1 DEF Upto
  <2>3. Prefix(n)[n - 1] = Prefix(n - 1)[n - 1]
    BY <1>1, <2>1, UptoUnique
  <2> QED  BY <2>1, <2>2, <2>3
<1>4. Eq(f)
  <2> DEFINE rhs == [n \in Nat |-> IF n = 0 THEN {Root} ELSE UNION {Kids[b] : b \in f[n - 1]}]
  <2>1. DOMAIN f = Nat /\ DOMAIN rhs = Nat
    OBVIOUS
  <2>2. ASSUME NEW n \in Nat PROVE f[n] = rhs[n]
    <3>1. n # 0 => f[n] = UNION {Kids[b] : b \in f[n - 1]}
      BY <1>3 DEF Onward
    <3> QED  BY <1>2, <3>1
  <2>3. f = rhs
    BY <2>1, <2>2
  <2> QED  BY <2>3
<1> HIDE DEF f
<1>5. Reach = CHOOSE h : Eq(h)
  BY DEF Reach
<1>6. Eq(Reach)
  BY <1>4, <1>5
<1> HIDE DEF Eq
<1>7. Reach = [n \in Nat |-> IF n = 0 THEN {Root} ELSE UNION {Kids[b] : b \in Reach[n - 1]}]
  BY <1>6 DEF Eq
<1>8. ASSUME NEW n \in Nat PROVE Reach[n + 1] = UNION {Kids[b] : b \in Reach[n]}
  <2>1. n + 1 \in Nat /\ n + 1 # 0 /\ (n + 1) - 1 = n
    OBVIOUS
  <2> QED  BY <1>7, <2>1
<1> QED  BY <1>7, <1>8

\* Every level's boards are boards of the game.
LEMMA ReachKnown == \A n \in Nat : Reach[n] \subseteq DOMAIN Kids
<1> DEFINE S == {n \in Nat : ~(Reach[n] \subseteq DOMAIN Kids)}
<1> SUFFICES ASSUME S # {} PROVE FALSE
  OBVIOUS
<1>1. PICK n \in S : \A y \in S : n <= y
  BY LeastNumber
<1>2. n # 0
  BY ReachIs, LevelEnumeratorAssumption
<1>3. n - 1 \in Nat /\ Reach[n - 1] \subseteq DOMAIN Kids /\ (n - 1) + 1 = n
  BY <1>1, <1>2
<1>4. Reach[n] = UNION {Kids[b] : b \in Reach[n - 1]}
  BY <1>3, ReachIs
<1> QED  BY <1>3, <1>4, LevelEnumeratorAssumption

-----------------------------------------------------------------------------
(* What the threads have in hand.                                          *)

IsName(f) == DOMAIN f = {"kind", "level", "dir", "n"} /\ f.level \in Nat /\ f.n \in Nat
Own(f, kinds) == IsName(f) /\ f.kind \in kinds /\ f.level = Level

Solving == main.pc \in {"solve", "drain"}
Working == main.pc \in {"solve", "drain", "resume", "merge", "delete", "save"}
Busy == flush.stage \notin {"idle", "collected"}
Moving == move.stage # "idle"

OnDisk == /\ \A f \in DOMAIN disk : IsName(f)
          /\ \E k \in Nat : \A f \in DOMAIN disk : f.kind = "run" => f.n < k
OneFile == DOMAIN meta \subseteq Nat /\ \A l \in DOMAIN meta : meta[l] \subseteq {MergeFile(l)}
Counters == /\ DOMAIN seq = {"solve", "run", "interim", "tmp"}
            /\ seq.solve \in Nat /\ seq.run \in Nat /\ seq.interim \in Nat /\ seq.tmp \in Nat
Shapes ==
  /\ Level \in Nat /\ main.turn \in Nat
  /\ main.last \in Nat \cup {-1} /\ config \in Nat \cup {-1}
  /\ main.pc \in {"level", "config", "down"} \/ Working
  /\ OnDisk /\ OneFile /\ Counters

\* PipelineRun; a stop leaves boards unread, and only then.
Reading ==
  /\ DOMAIN pipe = {"todo", "acc", "filled", "partial"} /\ pipe.filled \in Nat
  /\ pipe.acc # {} => pipe.filled > 0
  /\ ~At("solve") => pipe.todo = {} /\ pipe.acc = {} /\ pipe.filled = 0
  /\ pipe.partial => shutdown /\ Solving /\ pipe.todo = {}

\* The registries name files of the level, and of the run files the migration
\* may move no two have the same number.
Registered ==
  Working \/ At("config") =>
    /\ \A f \in solveReg : Own(f, {"solve"})
    /\ \A f \in runReg : Own(f, {"run", "interim"})
Numbered ==
  /\ Solving => /\ \A f \in solveReg : f.n < seq.solve
                /\ \A f, g \in runReg : f.kind = "run" /\ g.kind = "run" /\ f.n = g.n => f = g
                /\ \A f \in runReg : f.kind = "interim" => f.n < seq.interim /\ f.dir = NAS
  /\ Solving \/ At("resume") => \A f \in runReg : f.kind = "run" => f.n < seq.run

\* The file a writer is writing is its own.
Writing ==
  job # NoJob =>
    /\ At("solve") /\ job.stage \in {"open", "write", "register"}
    /\ Own(job.file, {"solve"}) /\ job.file.n < seq.solve
    /\ job.file \notin solveReg \cup flush.snap
    /\ job.stage = "register" => job.file \in DOMAIN disk /\ disk[job.file] = job.boards

\* A merge reads registered files and writes a file that is nobody's; what it
\* has still to read, to delete, and its temporary files follow its stage.
Resting == /\ flush.snap = {} /\ flush.srcs = {} /\ flush.temps = {} /\ flush.left = {}
           /\ flush.dir = NAS
Flushing ==
  /\ flush.stage \in {"idle", "collected", "pass", "del", "final", "record"}
  /\ ~Busy => Resting
  /\ Busy =>
       /\ main.pc \in {"solve", "drain", "resume"}
       /\ flush.srcs \subseteq flush.snap
       /\ flush.srcs \cap flush.left = {} /\ flush.temps \cap flush.left = {}
       /\ \A f \in flush.left : f \in flush.snap \/ f.kind = "tmp"
       /\ \A f \in flush.temps : IsName(f) /\ f.kind = "tmp" /\ f.n < seq.tmp
       /\ ~MultiPass => flush.temps = {}
       /\ flush.dir \in Fast \cup {NAS}
       /\ flush.dir = NAS => Solving
FlushFilesOwn ==
  Busy =>
    /\ flush.dir # NAS =>
         /\ Own(flush.out, {"run"}) /\ flush.out.n < seq.run
         /\ \A f \in runReg : f.kind = "run" => f.n # flush.out.n
         /\ Moving => move.from.n # flush.out.n
         /\ \A f \in flush.snap : Own(f, {"solve"}) /\ f \in solveReg
    /\ flush.dir = NAS =>
         /\ Own(flush.out, {"interim"}) /\ flush.out.n < seq.interim /\ flush.out.dir = NAS
         /\ \A f \in runReg \cup flush.snap : f.kind = "interim" => f.n # flush.out.n
         /\ \A f \in flush.snap : Own(f, {"run", "interim"})
FlushStages ==
  /\ flush.stage = "pass" => flush.left = {} /\ (flush.temps = {} => flush.srcs = flush.snap)
  /\ flush.stage = "del" /\ flush.temps = {} => flush.srcs = {} /\ flush.out \in DOMAIN disk
  /\ flush.stage = "final" => flush.left = {} /\ flush.srcs = {} /\ flush.temps # {}
  /\ flush.stage = "record" => flush.left = {} /\ flush.srcs = {} /\ flush.temps = {}
                               /\ flush.out \in DOMAIN disk

\* A migration copies a file to a name that is nobody's, and deletes it only when
\* the registry names the copy.
Migrating ==
  /\ move.stage \in {"idle", "copy", "update", "delete"}
  /\ Moving =>
       /\ Solving
       /\ Own(move.from, {"run"}) /\ Own(move.to, {"run"})
       /\ move.from.n = move.to.n /\ move.from.n < seq.run /\ move.from # move.to
       /\ \A f \in runReg : f.kind = "run" /\ f.n = move.from.n => f \in {move.from, move.to}
  /\ move.stage \in {"copy", "update"} => move.to \notin runReg \cup flush.snap
  /\ move.stage = "update" => /\ move.to \in DOMAIN disk
                              /\ move.from \in DOMAIN disk => disk[move.to] = disk[move.from]
  /\ move.stage = "delete" => move.from \notin runReg

HandInv ==
  /\ KeepInv /\ Shapes /\ Reading /\ Registered /\ Numbered /\ Writing
  /\ Flushing /\ FlushFilesOwn /\ FlushStages /\ Migrating

-----------------------------------------------------------------------------
\* The records' fields and the idle threads, out of the first invariant.
LEMMA FieldsOf == ASSUME KeepInv PROVE Fields /\ Alone
BY DEF KeepInv

\* A file name's parts.
LEMMA NamesAre ==
  ASSUME NEW kind, NEW level \in Nat, NEW dir, NEW n \in Nat
  PROVE  LET f == Name(kind, level, dir, n)
         IN  IsName(f) /\ f.kind = kind /\ f.level = level /\ f.dir = dir /\ f.n = n
BY DEF Name, IsName

\* A file written holds what was written, and the others what they held.
LEMMA PutNew == ASSUME NEW f, NEW boards PROVE Put(f, boards)[f] = boards
BY DEF Put

LEMMA PutOld == ASSUME NEW f, NEW boards, NEW g \in DOMAIN disk, g # f
                PROVE  Put(f, boards)[g] = disk[g]
BY DEF Put

LEMMA WithoutOld == ASSUME NEW files, NEW g \in DOMAIN disk \ files
                    PROVE  Without(files)[g] = disk[g]
BY DEF Without

\* A resumed run numbers its run files behind those it finds.
LEMMA ResumeNumbers ==
  ASSUME Shapes
  PROVE  /\ SetFlushSeqMin(FoundRuns(Level)) \in Nat
         /\ \A f \in FoundRuns(Level) : f.n < SetFlushSeqMin(FoundRuns(Level))
<1> DEFINE used == {f.n + 1 : f \in FoundRuns(Level)} \cup {seq.run}
           S == {k \in Nat : \A u \in used : u <= k}
<1>1. PICK k \in Nat : \A f \in DOMAIN disk : f.kind = "run" => f.n < k
  BY DEF Shapes, OnDisk
<1>2. \A f \in FoundRuns(Level) : f.n \in Nat /\ f.n < k
  BY <1>1 DEF Shapes, OnDisk, FoundRuns, Found, IsName
<1>3. used \subseteq Nat /\ seq.run \in used
  BY <1>2 DEF Shapes, Counters
<1>4. S # {}
  <2>1. k + seq.run \in Nat
    BY DEF Shapes, Counters
  <2>2. \A u \in used : u <= k + seq.run
    BY <1>1, <1>2 DEF Shapes, Counters
  <2> QED  BY <2>1, <2>2
<1>5. PICK m \in S : \A y \in S : m <= y
  BY <1>4, LeastNumber
<1>6. m \in used
  <2> SUFFICES ASSUME m \notin used PROVE FALSE
    OBVIOUS
  <2>1. \A u \in used : u \in Nat /\ u <= m /\ u # m
    BY <1>3
  <2>2. m # 0 /\ m \in Nat
    <3>1. seq.run \in Nat /\ seq.run <= m /\ seq.run # m /\ m \in Nat
      BY <1>3, <2>1
    <3> QED  BY <3>1
  <2>3. m - 1 \in S
    BY <2>1, <2>2
  <2> QED  BY <1>5, <2>3
<1>7. \A u \in used : u <= m
  OBVIOUS
<1> HIDE DEF S
<1>8. SetFlushSeqMin(FoundRuns(Level)) = CHOOSE n \in used : \A u \in used : u <= n
  BY DEF SetFlushSeqMin
<1>9. /\ SetFlushSeqMin(FoundRuns(Level)) \in used
      /\ \A u \in used : u <= SetFlushSeqMin(FoundRuns(Level))
  BY <1>6, <1>7, <1>8
<1>10. \A f \in FoundRuns(Level) : f.n + 1 \in used
  OBVIOUS
<1>11. used \subseteq Nat
  BY <1>3
<1> HIDE DEF used
<1>12. \A f \in FoundRuns(Level) : f.n + 1 <= SetFlushSeqMin(FoundRuns(Level))
  BY <1>9, <1>10
<1>13. SetFlushSeqMin(FoundRuns(Level)) \in Nat
  BY <1>9, <1>11
<1> QED  BY <1>2, <1>12, <1>13

-----------------------------------------------------------------------------
(* Every step keeps what the threads have in hand.                         *)

\* What is known of the files on disk outlives a write and a delete.
LEMMA FileWritten ==
  ASSUME OnDisk, NEW f, NEW boards, IsName(f), disk' = Put(f, boards)
  PROVE  OnDisk'
<1>1. PICK k \in Nat : \A g \in DOMAIN disk : g.kind = "run" => g.n < k
  BY DEF OnDisk
<1>2. DOMAIN disk' = DOMAIN disk \cup {f}
  BY PutDomain, PutNew, PutOld
<1>3. k + f.n + 1 \in Nat /\ \A g \in DOMAIN disk' : g.kind = "run" => g.n < k + f.n + 1
  <2>1. f.n \in Nat /\ f.n < k + f.n + 1
    BY DEF IsName
  <2>2. ASSUME NEW g \in DOMAIN disk, g.kind = "run" PROVE g.n < k + f.n + 1
    BY <1>1, <2>1, <2>2 DEF OnDisk, IsName
  <2> QED  BY <1>2, <2>1, <2>2
<1>4. \A g \in DOMAIN disk' : IsName(g)
  BY <1>2 DEF OnDisk
<1> QED  BY <1>3, <1>4 DEF OnDisk

LEMMA FilesRemoved ==
  ASSUME OnDisk, NEW files, disk' = Without(files)
  PROVE  OnDisk'
<1>1. DOMAIN disk' \subseteq DOMAIN disk
  BY WithoutDomain, WithoutOld
<1> QED  BY <1>1 DEF OnDisk

\* Every file on disk has a name, and the run files' numbers have a bound.
LEMMA OnDiskStep == ASSUME HandInv, Next PROVE OnDisk'
<1> USE DEF HandInv
<1>1. OnDisk
  BY DEF Shapes
<1>2. UNCHANGED disk => OnDisk'
  BY <1>1 DEF OnDisk
<1>3. CASE WriteHeader
  BY <1>1, <1>3, FileWritten DEF WriteHeader, Writing, Own
<1>4. CASE WriteBoards
  BY <1>1, <1>4, FileWritten DEF WriteBoards, Writing, Own
<1>5. CASE Pass
  <2>1. IsName(Target)
    <3>1. IsName(flush.out)
      BY <1>5 DEF Pass, FlushFilesOwn, Own, Busy
    <3>2. IsName(Name("tmp", 0, flush.out.dir, seq.tmp))
      BY NamesAre DEF Shapes, Counters
    <3> QED  BY <3>1, <3>2 DEF Target
  <2> QED  BY <1>1, <1>5, <2>1, FileWritten DEF Pass
<1>6. CASE LastPass
  BY <1>1, <1>6, FileWritten DEF LastPass, FlushFilesOwn, Own, Busy
<1>7. CASE CopyRun
  BY <1>1, <1>7, FileWritten DEF CopyRun, Migrating, Moving, Own
<1>8. CASE MergeToPartitions
  <2>1. IsName(MergeFile(Level))
    BY NamesAre DEF Shapes, MergeFile
  <2> QED  BY <1>1, <1>8, <2>1, FileWritten DEF MergeToPartitions
<1>9. CASE Restart
  <2>1. IsName(Seed)
    BY NamesAre DEF Seed
  <2> QED  BY <1>1, <1>2, <1>9, <2>1, FileWritten DEF Restart
<1>10. CASE DeleteSource \/ MergeFails \/ DeleteMoved \/ DeleteMerged
  BY <1>1, <1>10, FilesRemoved DEF DeleteSource, MergeFails, DeleteMoved, DeleteMerged
<1>11. CASE Stop \/ PassOver \/ Solve \/ Resume \/ ReadBatch \/ StartFlushBuffer \/ FinishSolve
  BY <1>2, <1>11 DEF Stop, PassOver, Solve, Resume, ReadBatch, StartFlushBuffer, FinishSolve,
      durable
<1>12. CASE JoinThreads \/ StopAfterSolve \/ ResumeFlush \/ Resumed \/ NothingToMerge
         \/ MergeStops
  BY <1>2, <1>12 DEF JoinThreads, StopAfterSolve, ResumeFlush, Resumed, NothingToMerge,
      MergeStops, durable
<1>13. CASE MergeDone \/ FRSave \/ WriteConfig \/ Register \/ NoFlushNeeded \/ RecordFlush
  BY <1>2, <1>13 DEF MergeDone, FRSave, WriteConfig, Register, NoFlushNeeded, RecordFlush,
      durable
<1>14. CASE CopyFails \/ UpdatePath \/ Collect \/ StartMove \/ CtrlC \/ Crash
  BY <1>2, <1>14 DEF CopyFails, UpdatePath, Collect, StartMove, CtrlC, Crash, durable
<1>15. ASSUME NEW d \in Fast, StartFlush(d) PROVE OnDisk'
  BY <1>2, <1>15 DEF StartFlush, durable
<1> QED
  BY <1>3, <1>4, <1>5, <1>6, <1>7, <1>8, <1>9, <1>10, <1>11, <1>12, <1>13, <1>14, <1>15
  DEF Next, MainStep, WriterStep, FlushStep, MoveStep, MonitorStep


\* What a process that ends leaves behind.
LEMMA DownIs ==
  ASSUME Down
  PROVE  /\ main'.pc = "down" /\ main'.level = 0 /\ main'.turn = 0 /\ main'.last = -1
            /\ main'.current = {}
         /\ pipe' = NoPipe /\ job' = NoJob /\ solveReg' = {} /\ runReg' = {}
         /\ flush' = Idle /\ move' = Still /\ seq' = NewSeq /\ ~shutdown'
BY DEF Down, Thread0

\* The counters stay numbers.
LEMMA CountersStep == ASSUME HandInv, Next PROVE Counters'
<1> USE DEF HandInv, Shapes, Counters, Level
<1>1. UNCHANGED seq => Counters'
  OBVIOUS
<1>2. Down => Counters'
  BY DownIs DEF NewSeq
<1>3. CASE Stop \/ StopAfterSolve \/ MergeStops \/ Crash \/ MergeDone
  BY <1>1, <1>2, <1>3 DEF Stop, StopAfterSolve, MergeStops, Crash, MergeDone
<1>4. CASE Solve
  BY <1>4 DEF Solve
<1>5. CASE StartFlushBuffer
  BY <1>5 DEF StartFlushBuffer
<1>6. CASE Collect
  BY <1>6 DEF Collect
<1>7. CASE Pass
  BY <1>7 DEF Pass
<1>8. CASE Resume
  BY <1>8, ResumeNumbers DEF Resume
<1>9. CASE ResumeFlush
  BY <1>9 DEF ResumeFlush, FlushNvmeDir
<1>10. ASSUME NEW d \in Fast, StartFlush(d) PROVE Counters'
  BY <1>10 DEF StartFlush, FlushNvmeDir
<1>11. CASE PassOver \/ ReadBatch \/ FinishSolve \/ JoinThreads \/ Resumed
         \/ MergeToPartitions \/ NothingToMerge \/ DeleteMerged \/ FRSave \/ WriteConfig
  BY <1>1, <1>11 DEF PassOver, ReadBatch, FinishSolve, JoinThreads, Resumed, MergeToPartitions,
      NothingToMerge, DeleteMerged, FRSave, WriteConfig
<1>12. CASE WriterStep \/ MoveStep \/ StartMove \/ CtrlC \/ Restart
  BY <1>1, <1>12 DEF WriterStep, WriteHeader, WriteBoards, Register, MoveStep, CopyRun,
      CopyFails, UpdatePath, DeleteMoved, StartMove, CtrlC, Restart
<1>13. CASE NoFlushNeeded \/ LastPass \/ DeleteSource \/ MergeFails \/ RecordFlush
  BY <1>1, <1>13 DEF NoFlushNeeded, LastPass, DeleteSource, MergeFails, RecordFlush
<1> QED
  BY <1>3, <1>4, <1>8, <1>9, <1>10, <1>11, <1>12, <1>13,
     <1>5, <1>6, <1>7
  DEF Next, MainStep, FlushStep, MonitorStep

\* The types of what the threads hold.
LEMMA ShapesStep == ASSUME HandInv, Next PROVE Shapes'
<1> USE DEF HandInv, Shapes, At, Goto, Level, Working
<1>1. OnDisk' /\ Counters'
  BY OnDiskStep, CountersStep
<1>2. Fields
  BY FieldsOf
<1>3. UNCHANGED <<meta, config, main>> => Shapes'
  BY <1>1 DEF OneFile
<1>4. Down /\ UNCHANGED durable => Shapes'
  BY <1>1, DownIs DEF durable, OneFile
<1>5. CASE Stop \/ StopAfterSolve \/ MergeStops \/ Crash
  BY <1>4, <1>5 DEF Stop, StopAfterSolve, MergeStops, Crash
<1>6. CASE Solve
  BY <1>1, <1>2, <1>6 DEF Solve, Fields, durable, OneFile
<1>7. CASE PassOver
  BY <1>1, <1>2, <1>7 DEF PassOver, Fields, durable, OneFile
<1>8. CASE Resume
  BY <1>1, <1>2, <1>8 DEF Resume, Fields, durable, OneFile
<1>9. CASE FinishSolve \/ JoinThreads \/ Resumed \/ NothingToMerge \/ MergeToPartitions
        \/ DeleteMerged
  BY <1>1, <1>2, <1>9
  DEF FinishSolve, JoinThreads, Resumed, NothingToMerge, MergeToPartitions, DeleteMerged,
      Fields, durable, OneFile
<1>10. CASE MergeDone
  BY <1>1, <1>2, <1>4, <1>10 DEF MergeDone, Fields, durable, OneFile
<1>11. CASE FRSave
  BY <1>1, <1>2, <1>11 DEF FRSave, Saved, Merged, Fields, OneFile
<1>12. CASE WriteConfig
  BY <1>1, <1>2, <1>12 DEF WriteConfig, Fields, OneFile
<1>13. CASE ResumeFlush
  BY <1>1, <1>2, <1>13 DEF ResumeFlush, FlushNvmeDir, Fields, durable, OneFile
<1>14. CASE MergeFails \/ RecordFlush
  BY <1>1, <1>2, <1>14 DEF MergeFails, RecordFlush, AfterFlush, Fields, durable, OneFile
<1>15. CASE Restart
  BY <1>1, <1>15 DEF Restart, Thread0, OneFile
<1>16. CASE ReadBatch \/ StartFlushBuffer \/ WriterStep \/ NoFlushNeeded \/ Pass \/ LastPass
         \/ DeleteSource
  BY <1>3, <1>16 DEF ReadBatch, StartFlushBuffer, WriterStep, WriteHeader, WriteBoards,
      Register, NoFlushNeeded, Pass, LastPass, DeleteSource, durable
<1>17. CASE MoveStep \/ Collect \/ StartMove \/ CtrlC
  BY <1>3, <1>17 DEF MoveStep, CopyRun, CopyFails, UpdatePath, DeleteMoved, Collect, StartMove,
      CtrlC, durable
<1>18. ASSUME NEW d \in Fast, StartFlush(d) PROVE Shapes'
  BY <1>3, <1>18 DEF StartFlush, durable
<1> QED
  BY <1>5, <1>6, <1>7, <1>8, <1>9, <1>10, <1>11, <1>12, <1>13, <1>14, <1>15, <1>16, <1>17, <1>18
  DEF Next, MainStep, FlushStep, MonitorStep

\* The pipeline is empty outside the solve phase, and cut short only by a stop.
LEMMA ReadingStep == ASSUME HandInv, Next PROVE Reading'
<1> USE DEF HandInv, Reading, At, Goto, Solving
<1>1. Fields
  BY FieldsOf
<1>2. UNCHANGED <<pipe, main, shutdown>> => Reading'
  OBVIOUS
<1>3. Down => Reading'
  BY DownIs DEF NoPipe
<1>4. CASE Stop \/ StopAfterSolve \/ MergeStops \/ Crash \/ MergeDone
  BY <1>1, <1>2, <1>3, <1>4 DEF Stop, StopAfterSolve, MergeStops, Crash, MergeDone, Fields
<1>5. CASE PassOver
  BY <1>1, <1>5 DEF PassOver, Looping, Fields
<1>6. CASE Solve
  <2>1. DOMAIN pipe' = {"todo", "acc", "filled", "partial"} /\ pipe'.acc = {} /\ pipe'.filled = 0
        /\ ~pipe'.partial /\ main'.pc = "solve"
    BY <1>1, <1>6 DEF Solve, NoPipe, Fields
  <2> QED  BY <2>1
<1>7. CASE Resume
  BY <1>1, <1>7 DEF Resume, NoPipe, Fields
<1>8. CASE ReadBatch
  <2>1. PICK rest : pipe' = [todo |-> IF shutdown THEN {} ELSE rest,
                  acc |-> pipe'.acc, filled |-> pipe.filled + 1,
                  partial |-> shutdown /\ rest # {}]
    BY <1>8 DEF ReadBatch
  <2>2. main' = main /\ shutdown' = shutdown /\ main.pc = "solve"
    BY <1>8 DEF ReadBatch
  <2>3. DOMAIN pipe' = {"todo", "acc", "filled", "partial"} /\ pipe'.filled = pipe.filled + 1
    BY <2>1
  <2>4. pipe'.partial => shutdown
    <3> SUFFICES ASSUME ~shutdown PROVE ~pipe'.partial
      OBVIOUS
    <3>1. (shutdown /\ rest # {}) = FALSE
      OBVIOUS
    <3>2. pipe' = [todo |-> IF shutdown THEN {} ELSE rest,
                   acc |-> pipe'.acc, filled |-> pipe.filled + 1, partial |-> FALSE]
      BY <2>1, <3>1
    <3> QED  BY <3>2
  <2>5. shutdown => pipe'.todo = {}
    BY <2>1
  <2> QED  BY <2>2, <2>3, <2>4, <2>5
<1>9. CASE StartFlushBuffer
  BY <1>9 DEF StartFlushBuffer
<1>10. CASE FinishSolve \/ JoinThreads \/ Resumed \/ NothingToMerge
  BY <1>1, <1>10 DEF FinishSolve, JoinThreads, Resumed, NothingToMerge, Fields
<1>11. CASE MergeToPartitions \/ DeleteMerged \/ FRSave \/ WriteConfig
  BY <1>1, <1>11 DEF MergeToPartitions, DeleteMerged, FRSave, WriteConfig, Fields
<1>12. CASE ResumeFlush \/ MergeFails \/ RecordFlush
  BY <1>1, <1>12 DEF ResumeFlush, MergeFails, RecordFlush, AfterFlush, Fields
<1>13. CASE Restart
  BY <1>13 DEF Restart, Thread0
<1>14. CASE CtrlC
  BY <1>14 DEF CtrlC
<1>15. CASE WriterStep \/ MoveStep
  BY <1>2, <1>15 DEF WriterStep, WriteHeader, WriteBoards, Register, MoveStep, CopyRun,
      CopyFails, UpdatePath, DeleteMoved
<1>16. CASE NoFlushNeeded \/ Pass \/ LastPass \/ DeleteSource \/ MonitorStep
  BY <1>2, <1>16 DEF NoFlushNeeded, Pass, LastPass, DeleteSource, MonitorStep, Collect,
      StartMove, StartFlush
<1> QED
  BY <1>4, <1>5, <1>6, <1>7, <1>8, <1>9, <1>10, <1>11, <1>12, <1>13, <1>14, <1>15, <1>16
  DEF Next, MainStep, FlushStep

\* The registries name files of this level.
LEMMA RegisteredStep == ASSUME HandInv, Next PROVE Registered'
<1> USE DEF HandInv, Registered, At, Goto, Working, Level, Own
<1>1. Fields
  BY FieldsOf
<1>2. UNCHANGED <<solveReg, runReg, main>> => Registered'
  OBVIOUS
<1>3. Down => Registered'
  BY DownIs
<1>4. CASE Stop \/ StopAfterSolve \/ MergeStops \/ Crash \/ MergeDone
  BY <1>1, <1>2, <1>3, <1>4 DEF Stop, StopAfterSolve, MergeStops, Crash, MergeDone, Fields
<1>5. CASE PassOver \/ WriteConfig \/ Restart
  BY <1>1, <1>5 DEF PassOver, Looping, WriteConfig, Restart, Thread0, Fields
<1>6. CASE Solve
  BY <1>1, <1>6 DEF Solve, Fields
<1>7. CASE Resume
  BY <1>1, <1>7 DEF Resume, Fields, FoundSolve, FoundRuns, Found, Shapes, OnDisk
<1>8. CASE Register
  BY <1>8 DEF Register, Writing
<1>9. CASE FinishSolve \/ JoinThreads \/ Resumed \/ NothingToMerge
  BY <1>1, <1>9 DEF FinishSolve, JoinThreads, Resumed, NothingToMerge, Fields
<1>10. CASE MergeToPartitions \/ DeleteMerged \/ FRSave
  BY <1>1, <1>10 DEF MergeToPartitions, DeleteMerged, FRSave, Fields
<1>11. CASE ResumeFlush \/ MergeFails
  BY <1>1, <1>11 DEF ResumeFlush, MergeFails, AfterFlush, Fields
<1>12. CASE RecordFlush
  <2>1. Own(flush.out, {"run", "interim"})
    BY <1>12 DEF RecordFlush, FlushFilesOwn, Busy
  <2>2. main'.level = main.level /\ main'.pc = main.pc
    BY <1>1, <1>12 DEF RecordFlush, AfterFlush, Fields
  <2>3. solveReg' \subseteq solveReg /\ runReg' \subseteq runReg \cup {flush.out}
    BY <1>12 DEF RecordFlush
  <2> QED  BY <2>1, <2>2, <2>3
<1>13. CASE UpdatePath
  BY <1>13 DEF UpdatePath, Migrating, Moving
<1>14. CASE ReadBatch \/ StartFlushBuffer \/ WriteHeader \/ WriteBoards \/ CopyRun
         \/ CopyFails \/ DeleteMoved \/ CtrlC
  BY <1>2, <1>14 DEF ReadBatch, StartFlushBuffer, WriteHeader, WriteBoards, CopyRun, CopyFails,
      DeleteMoved, CtrlC
<1>15. CASE NoFlushNeeded \/ Pass \/ LastPass \/ DeleteSource \/ MonitorStep
  BY <1>2, <1>15 DEF NoFlushNeeded, Pass, LastPass, DeleteSource, MonitorStep, Collect,
      StartMove, StartFlush
<1> QED
  BY <1>4, <1>5, <1>6, <1>7, <1>8, <1>9, <1>10, <1>11, <1>12, <1>13, <1>14, <1>15
  DEF Next, MainStep, WriterStep, FlushStep, MoveStep

\* Files get numbers that no registered file has.
LEMMA NumberedStep == ASSUME HandInv, Next PROVE Numbered'
<1> USE DEF HandInv, Numbered, At, Goto, Solving
<1>1. Fields /\ Counters
  BY FieldsOf DEF Shapes
<1>2. UNCHANGED <<solveReg, runReg, main, seq>> => Numbered'
  OBVIOUS
<1>3. Down => Numbered'
  BY DownIs
<1>4. CASE Stop \/ StopAfterSolve \/ MergeStops \/ Crash \/ MergeDone
  BY <1>1, <1>2, <1>3, <1>4 DEF Stop, StopAfterSolve, MergeStops, Crash, MergeDone, Fields
<1>5. CASE PassOver \/ WriteConfig \/ Restart
  BY <1>1, <1>5 DEF PassOver, Looping, WriteConfig, Restart, Thread0, Fields
<1>6. CASE Solve
  BY <1>1, <1>6 DEF Solve, Fields
<1>7. CASE Resume
  BY <1>1, <1>7, ResumeNumbers DEF Resume, Fields, Counters
<1>8. CASE Register
  BY <1>8 DEF Register, Writing
<1>9. CASE FinishSolve \/ JoinThreads \/ Resumed \/ NothingToMerge
  BY <1>1, <1>9 DEF FinishSolve, JoinThreads, Resumed, NothingToMerge, Fields
<1>10. CASE MergeToPartitions \/ DeleteMerged \/ FRSave
  BY <1>1, <1>10 DEF MergeToPartitions, DeleteMerged, FRSave, Fields
<1>11. CASE MergeFails
  BY <1>1, <1>11 DEF MergeFails, AfterFlush, Fields
<1>12. CASE RecordFlush
  <2>1. main'.pc = main.pc /\ seq' = seq
    BY <1>1, <1>12 DEF RecordFlush, AfterFlush, Fields
  <2>2. CASE flush.dir = NAS
    <3>1. flush.out.kind = "interim" /\ flush.out.n < seq.interim /\ flush.out.dir = NAS
      BY <1>12, <2>2 DEF RecordFlush, FlushFilesOwn, Busy, Own
    <3>2. solveReg' = solveReg /\ runReg' \subseteq {flush.out}
      BY <1>12, <2>2 DEF RecordFlush
    <3> QED  BY <2>1, <3>1, <3>2
  <2>3. CASE flush.dir # NAS
    <3>1. /\ flush.out.kind = "run" /\ flush.out.n < seq.run
          /\ \A f \in runReg : f.kind = "run" => f.n # flush.out.n
      BY <1>12, <2>3 DEF RecordFlush, FlushFilesOwn, Busy, Own
    <3>2. solveReg' \subseteq solveReg /\ runReg' \subseteq runReg \cup {flush.out}
      BY <1>12, <2>3 DEF RecordFlush
    <3> QED  BY <2>1, <3>1, <3>2
  <2> QED  BY <2>2, <2>3
<1>13. CASE UpdatePath
  <2>1. CASE move.from \in runReg
    <3>1. /\ runReg' = (runReg \ {move.from}) \cup {move.to} /\ solveReg' = solveReg /\ seq' = seq
          /\ main' = main
      BY <1>13, <2>1 DEF UpdatePath
    <3>2. move.to.kind = "run" /\ move.from.n = move.to.n /\ move.from.n < seq.run /\ Solving
          /\ move.from.kind = "run"
      BY <1>13 DEF UpdatePath, Migrating, Moving, Own
    <3> QED  BY <2>1, <3>1, <3>2
  <2> QED  BY <1>2, <1>13, <2>1 DEF UpdatePath
<1>14. CASE StartFlushBuffer
  BY <1>1, <1>14 DEF StartFlushBuffer, Registered, Working, Own, IsName, Counters
<1>15. CASE Collect
  BY <1>1, <1>15 DEF Collect, Registered, Working, Own, IsName, Counters
<1>16. ASSUME NEW d, NEW to, FlushNvmeDir(d, to), UNCHANGED <<solveReg, runReg>>,
              main.pc \in {"solve", "drain", "resume"}, main'.pc = main.pc
       PROVE  Numbered'
  BY <1>1, <1>16 DEF FlushNvmeDir, Registered, Working, Own, IsName, Counters
<1>17. CASE ResumeFlush
  BY <1>1, <1>16, <1>17 DEF ResumeFlush, Fields
<1>18. ASSUME NEW d \in Fast, StartFlush(d) PROVE Numbered'
  <2>1. main.pc \in {"solve", "drain", "resume"}
    BY <1>18 DEF StartFlush, KeepInv, Alone
  <2> QED  BY <2>1, <1>16, <1>18 DEF StartFlush
<1>19. CASE ReadBatch \/ WriteHeader \/ WriteBoards \/ CopyRun \/ CopyFails \/ DeleteMoved
         \/ CtrlC
  BY <1>2, <1>19 DEF ReadBatch, WriteHeader, WriteBoards, CopyRun, CopyFails, DeleteMoved, CtrlC
<1>20. CASE NoFlushNeeded \/ LastPass \/ DeleteSource \/ StartMove
  BY <1>2, <1>20 DEF NoFlushNeeded, LastPass, DeleteSource, StartMove
<1>21. CASE Pass
  BY <1>21 DEF Pass
<1> QED
  BY <1>4, <1>5, <1>6, <1>7, <1>8, <1>9, <1>10, <1>11, <1>12, <1>13, <1>14, <1>15, <1>17, <1>18,
     <1>19, <1>20, <1>21
  DEF Next, MainStep, WriterStep, FlushStep, MoveStep, MonitorStep

\* A merge overwrites and deletes only what it reads and its own files.
LEMMA FlushTouches ==
  ASSUME HandInv, FlushStep,
         NEW f \in DOMAIN disk, f.kind # "tmp", f \notin flush.snap, Busy => f # flush.out
  PROVE  f \in DOMAIN disk' /\ disk'[f] = disk[f]
<1> USE DEF HandInv, Flushing, Busy
<1>1. CASE NoFlushNeeded \/ RecordFlush
  BY <1>1 DEF NoFlushNeeded, RecordFlush, durable
<1>2. CASE Pass
  <2>1. f # Target
    <3>1. f # flush.out
      BY <1>2 DEF Pass
    <3>2. Name("tmp", 0, flush.out.dir, seq.tmp).kind = "tmp"
      BY DEF Name
    <3> QED  BY <3>1, <3>2 DEF Target
  <2>2. PICK batch : disk' = Put(Target, Boards(batch))
    BY <1>2 DEF Pass
  <2> QED  BY <2>1, <2>2 DEF Put
<1>3. CASE LastPass
  BY <1>3 DEF LastPass, Put
<1>4. CASE DeleteSource
  BY <1>4 DEF DeleteSource, Without
<1>5. CASE MergeFails
  BY <1>5 DEF MergeFails, Without
<1> QED  BY <1>1, <1>2, <1>3, <1>4, <1>5 DEF FlushStep

\* A file that is left is as it was.
LEMMA FlushSame ==
  ASSUME HandInv, FlushStep, NEW f \in DOMAIN disk', f.kind # "tmp", Busy => f # flush.out
  PROVE  f \in DOMAIN disk /\ disk'[f] = disk[f]
<1> USE DEF HandInv, Busy
<1>1. CASE NoFlushNeeded \/ RecordFlush
  BY <1>1 DEF NoFlushNeeded, RecordFlush, durable
<1>2. CASE Pass
  <2>1. f # Target
    <3>1. f # flush.out
      BY <1>2 DEF Pass
    <3>2. Name("tmp", 0, flush.out.dir, seq.tmp).kind = "tmp"
      BY DEF Name
    <3> QED  BY <3>1, <3>2 DEF Target
  <2>2. PICK batch : disk' = Put(Target, Boards(batch))
    BY <1>2 DEF Pass
  <2> QED  BY <2>1, <2>2 DEF Put
<1>3. CASE LastPass
  BY <1>3 DEF LastPass, Put
<1>4. CASE DeleteSource
  BY <1>4 DEF DeleteSource, Without
<1>5. CASE MergeFails
  BY <1>5 DEF MergeFails, Without
<1> QED  BY <1>1, <1>2, <1>3, <1>4, <1>5 DEF FlushStep

\* Nor does the migration touch any file but its own two.
LEMMA MoveTouches ==
  ASSUME HandInv, MoveStep,
         NEW f \in DOMAIN disk, move.stage = "copy" => f # move.to,
         move.stage = "delete" => f # move.from
  PROVE  f \in DOMAIN disk' /\ disk'[f] = disk[f]
<1>1. CASE CopyFails \/ UpdatePath
  BY <1>1 DEF CopyFails, UpdatePath, durable
<1>2. CASE CopyRun
  BY <1>2 DEF CopyRun, Put
<1>3. CASE DeleteMoved
  BY <1>3 DEF DeleteMoved, Without
<1> QED  BY <1>1, <1>2, <1>3 DEF MoveStep

\* The file being written is in no registry and in no merge.
LEMMA WritingStep == ASSUME HandInv, Next PROVE Writing'
<1> USE DEF HandInv, Writing, At, Goto, Level
<1>1. Fields /\ Counters /\ Alone
  BY FieldsOf DEF Shapes
<1>2. job = NoJob /\ job' = job => Writing'
  OBVIOUS
<1>3. Down => Writing'
  BY DownIs
<1>4. CASE Stop \/ StopAfterSolve \/ MergeStops \/ Crash \/ MergeDone
  BY <1>1, <1>2, <1>3, <1>4 DEF Stop, StopAfterSolve, MergeStops, Crash, MergeDone, Alone
<1>5. CASE PassOver \/ WriteConfig \/ Restart \/ Solve \/ Resume
  BY <1>1, <1>2, <1>5 DEF PassOver, Looping, WriteConfig, Restart, Solve, Resume, Alone
<1>6. CASE FinishSolve \/ JoinThreads \/ Resumed \/ NothingToMerge \/ MergeToPartitions
        \/ DeleteMerged \/ FRSave \/ ResumeFlush
  BY <1>1, <1>2, <1>6 DEF FinishSolve, JoinThreads, Resumed, NothingToMerge, MergeToPartitions,
      DeleteMerged, FRSave, ResumeFlush, Alone
<1>7. CASE StartFlushBuffer
  <2>1. CASE pipe.acc = {}
    BY <1>2, <1>7, <2>1 DEF StartFlushBuffer
  <2>2. CASE pipe.acc # {}
    <3>1. PICK d \in Fast : /\ job' = [file |-> Name("solve", Level, d, seq.solve),
                                       boards |-> pipe.acc, stage |-> "open"]
                            /\ seq' = [seq EXCEPT !.solve = @ + 1]
      BY <1>7, <2>2 DEF StartFlushBuffer
    <3> DEFINE f == Name("solve", Level, d, seq.solve)
    <3>2. IsName(f) /\ f.kind = "solve" /\ f.level = Level /\ f.n = seq.solve
      BY <1>1, NamesAre DEF Shapes, Counters
    <3>3. f \notin solveReg
      BY <1>1, <1>7, <3>2 DEF StartFlushBuffer, Numbered, Solving, Counters, Registered,
          Working, Own, IsName
    <3>4. f \notin flush.snap
      BY <1>1, <1>7, <3>2, <3>3 DEF Flushing, Resting, FlushFilesOwn, Busy, Own
    <3>5. seq'.solve = seq.solve + 1 /\ seq.solve \in Nat
      BY <1>1, <3>1 DEF Counters
    <3>6. main' = main /\ solveReg' = solveReg /\ flush' = flush /\ main.pc = "solve"
      BY <1>7 DEF StartFlushBuffer
    <3> HIDE DEF f
    <3>7. job'.file = f /\ job'.stage = "open"
      BY <3>1 DEF f
    <3> QED  BY <3>2, <3>3, <3>4, <3>5, <3>6, <3>7 DEF Own
  <2> QED  BY <2>1, <2>2
<1>8. CASE WriteHeader
  BY <1>1, <1>8 DEF WriteHeader, Own, Fields
<1>9. CASE WriteBoards
  <2>1. job'.stage = "register" /\ job'.file = job.file /\ job'.boards = job.boards
    BY <1>1, <1>9 DEF WriteBoards, Fields
  <2>2. job.file \in DOMAIN disk' /\ disk'[job.file] = job.boards
    BY <1>9 DEF WriteBoards, Put
  <2>3. job # NoJob /\ UNCHANGED <<main, solveReg, flush, seq>>
    BY <1>9 DEF WriteBoards
  <2> QED  BY <2>1, <2>2, <2>3 DEF Own
<1>10. ASSUME job # NoJob, job' = job, solveReg' \subseteq solveReg, seq'.solve = seq.solve,
              main'.pc = main.pc, main'.level = main.level,
             flush'.snap \subseteq flush.snap \cup runReg \cup solveReg,
             job.file \in DOMAIN disk => job.file \in DOMAIN disk'
             /\ disk'[job.file] = disk[job.file]
       PROVE  Writing'
  <2>1. job.file \notin runReg
    BY <1>10 DEF Registered, Working, Own
  <2> QED  BY <1>10, <2>1 DEF Own
<1>11. CASE Register
  BY <1>11 DEF Register
<1>12. ASSUME job # NoJob, FlushStep
       PROVE  Writing'
  <2>1. job.file.kind = "solve" /\ job.file \notin flush.snap
    BY <1>12 DEF Own
  <2>2. Busy => job.file # flush.out
    BY <1>12, <2>1 DEF FlushFilesOwn, Own
  <2>3. job.file \in DOMAIN disk => job.file \in DOMAIN disk' /\ disk'[job.file] = disk[job.file]
    BY <1>12, <2>1, <2>2, FlushTouches
  <2>4. job' = job /\ main'.pc = main.pc /\ main'.level = main.level
        /\ flush'.snap \subseteq flush.snap
    <3>1. CASE NoFlushNeeded
      BY <3>1 DEF NoFlushNeeded, Idle
    <3>2. CASE LastPass \/ DeleteSource
      <4>1. flush'.snap = flush.snap
        BY <1>1, <3>2 DEF LastPass, DeleteSource, Fields
      <4> QED  BY <3>2, <4>1 DEF LastPass, DeleteSource
    <3>3. CASE Pass
      <4>1. flush'.snap = flush.snap
        BY <1>1, <3>3 DEF Pass, Fields
      <4> QED  BY <3>3, <4>1 DEF Pass
    <3>4. CASE MergeFails \/ RecordFlush
      <4>1. AfterFlush => flush'.snap = {} /\ main'.pc = main.pc /\ main'.level = main.level
        BY <1>1 DEF AfterFlush, Fields, Idle
      <4> QED  BY <3>4, <4>1 DEF MergeFails, RecordFlush
    <3> QED  BY <1>12, <3>1, <3>3, <3>4, <3>2 DEF FlushStep
  <2>5. solveReg' \subseteq solveReg /\ seq'.solve = seq.solve
    BY <1>1, <1>12 DEF FlushStep, NoFlushNeeded, Pass, LastPass, DeleteSource, MergeFails,
        RecordFlush, Counters
  <2> QED  BY <1>10, <1>12, <2>3, <2>4, <2>5
<1>13. ASSUME job # NoJob, MoveStep
       PROVE  Writing'
  <2>1. job.file \in DOMAIN disk => job.file \in DOMAIN disk' /\ disk'[job.file] = disk[job.file]
    BY <1>13, MoveTouches DEF Own, Migrating, Moving
  <2>2. UNCHANGED <<job, main, seq, flush, solveReg>>
    BY <1>13 DEF MoveStep, CopyRun, CopyFails, UpdatePath, DeleteMoved
  <2> QED  BY <1>10, <1>13, <2>1, <2>2
<1>14. ASSUME job # NoJob, Collect \/ StartMove \/ CtrlC \/ ReadBatch
       PROVE  Writing'
  <2>1. UNCHANGED <<job, main, solveReg, disk>> /\ seq'.solve = seq.solve
    BY <1>1, <1>14 DEF Collect, StartMove, CtrlC, ReadBatch, Counters, durable
  <2>2. flush'.snap \subseteq flush.snap \cup runReg
    BY <1>14 DEF Collect, StartMove, CtrlC, ReadBatch, MergeInto, Idle
  <2> QED  BY <1>10, <1>14, <2>1, <2>2
<1>15. ASSUME job # NoJob, NEW d \in Fast, StartFlush(d)
       PROVE  Writing'
  <2>1. UNCHANGED <<job, main, solveReg, disk>> /\ seq'.solve = seq.solve
    BY <1>1, <1>15 DEF StartFlush, FlushNvmeDir, Counters, durable
  <2>2. flush'.snap \subseteq solveReg
    BY <1>15 DEF StartFlush, FlushNvmeDir, FlushFiles, MergeInto, Idle
  <2> QED  BY <1>10, <1>15, <2>1, <2>2
<1>16. CASE job = NoJob /\ job' = NoJob
  BY <1>2, <1>16
<1>17. FlushStep \/ MoveStep \/ Collect \/ StartMove \/ CtrlC \/ ReadBatch => job' = job
  BY DEF FlushStep, NoFlushNeeded, Pass, LastPass, DeleteSource, MergeFails, RecordFlush,
         MoveStep, CopyRun, CopyFails, UpdatePath, DeleteMoved, Collect, StartMove, CtrlC,
         ReadBatch
<1>18. \A d \in Fast : StartFlush(d) => job' = job
  BY DEF StartFlush
<1> QED
  BY <1>4, <1>5, <1>6, <1>7, <1>8, <1>9, <1>11, <1>12, <1>13, <1>14, <1>15, <1>16, <1>17, <1>18
  DEF Next, MainStep, WriterStep, MonitorStep

\* What a pass of a merge does.
LEMMA PassIs ==
  ASSUME HandInv, Pass
  PROVE  \E batch \in SUBSET flush.srcs :
           /\ batch \subseteq DOMAIN disk /\ (~MultiPass => batch = flush.srcs)
           /\ disk' = Put(Target, Boards(batch))
           /\ flush'.stage = "del" /\ flush'.left = batch /\ flush'.srcs = flush.srcs \ batch
           /\ flush'.temps = flush.temps \cup (IF MultiPass THEN {Target} ELSE {})
           /\ flush'.snap = flush.snap /\ flush'.dir = flush.dir /\ flush'.out = flush.out
           /\ seq'.tmp = seq.tmp + (IF MultiPass THEN 1 ELSE 0)
           /\ seq'.solve = seq.solve /\ seq'.run = seq.run /\ seq'.interim = seq.interim
<1>1. Fields /\ Counters
  BY FieldsOf DEF HandInv, Shapes
<1>2. PICK batch \in Batch :
        /\ batch \subseteq DOMAIN disk
        /\ disk' = Put(Target, Boards(batch))
        /\ flush' = [flush EXCEPT !.stage = "del", !.left = batch, !.srcs = @ \ batch,
                                  !.temps = @ \cup IF MultiPass THEN {Target} ELSE {}]
  BY DEF Pass
<1>3. batch \subseteq flush.srcs /\ (~MultiPass => batch = flush.srcs)
  BY DEF Batch
<1>4. seq' = [seq EXCEPT !.tmp = @ + IF MultiPass THEN 1 ELSE 0]
  BY DEF Pass
<1>5. /\ flush'.stage = "del" /\ flush'.left = batch /\ flush'.srcs = flush.srcs \ batch
      /\ flush'.temps = flush.temps \cup (IF MultiPass THEN {Target} ELSE {})
      /\ flush'.snap = flush.snap /\ flush'.dir = flush.dir /\ flush'.out = flush.out
  BY <1>1, <1>2 DEF Fields
<1>6. /\ seq'.tmp = seq.tmp + (IF MultiPass THEN 1 ELSE 0)
      /\ seq'.solve = seq.solve /\ seq'.run = seq.run /\ seq'.interim = seq.interim
  BY <1>1, <1>4 DEF Counters
<1> QED  BY <1>2, <1>3, <1>5, <1>6

\* What the pass over the temporary files does.
LEMMA LastPassIs ==
  ASSUME HandInv, LastPass
  PROVE  /\ flush'.stage = "del" /\ flush'.left = flush.temps /\ flush'.temps = {}
         /\ flush'.srcs = flush.srcs /\ flush'.snap = flush.snap /\ flush'.dir = flush.dir
         /\ flush'.out = flush.out
BY FieldsOf DEF LastPass, Fields

\* What deleting one source does.
LEMMA DeleteSourceIs ==
  ASSUME HandInv, DeleteSource
  PROVE  \E f \in flush.left :
           /\ disk' = Without({f})
           /\ flush'.left = flush.left \ {f}
           /\ flush'.srcs = flush.srcs /\ flush'.snap = flush.snap /\ flush'.dir = flush.dir
           /\ flush'.out = flush.out /\ flush'.temps = flush.temps
           /\ flush'.stage = IF flush.left \ {f} # {} THEN "del"
                             ELSE IF flush.srcs # {} THEN "pass"
                             ELSE IF flush.temps # {} THEN "final" ELSE "record"
<1>1. Fields
  BY FieldsOf DEF HandInv
<1>2. PICK f \in flush.left :
        /\ disk' = Without({f})
        /\ flush' = [flush EXCEPT
             !.left = flush.left \ {f},
             !.stage = IF flush.left \ {f} # {} THEN "del"
                       ELSE IF flush.srcs # {} THEN "pass"
                       ELSE IF flush.temps # {} THEN "final" ELSE "record"]
  BY DEF DeleteSource
<1> QED  BY <1>1, <1>2 DEF Fields

\* A merge that ends leaves nothing behind, and the main thread where it is.
LEMMA AfterFlushIs ==
  ASSUME HandInv, AfterFlush
  PROVE  /\ flush'.stage \in {"idle", "collected"} /\ Resting'
         /\ main'.pc = main.pc /\ main'.level = main.level /\ main'.current = main.current
         /\ main'.last = main.last /\ main'.restarted = main.restarted /\ main'.gone = main.gone
BY FieldsOf DEF AfterFlush, Fields, Idle, Resting

\* What a merge begins with.
LEMMA NewFlushIs ==
  ASSUME NEW out, NEW dir, NEW files, flush' = MergeInto(out, dir, files)
  PROVE  /\ flush'.stage = "pass" /\ flush'.dir = dir /\ flush'.out = out /\ flush'.snap = files
         /\ flush'.srcs = files /\ flush'.temps = {} /\ flush'.left = {}
BY DEF MergeInto, Idle

\* A flush takes the directory's solver files and the next run number.
LEMMA FlushNvmeDirIs ==
  ASSUME HandInv, NEW d \in Fast, NEW to, FlushNvmeDir(d, to)
  PROVE  /\ flush'.stage = "pass" /\ flush'.dir = d /\ flush'.snap = FlushFiles(d)
         /\ flush'.srcs = flush'.snap /\ flush'.temps = {} /\ flush'.left = {}
         /\ IsName(flush'.out) /\ flush'.out.kind = "run" /\ flush'.out.level = Level
         /\ flush'.out.n = seq.run
         /\ seq'.run = seq.run + 1 /\ seq'.solve = seq.solve /\ seq'.interim = seq.interim
         /\ seq'.tmp = seq.tmp
<1>1. flush' = MergeInto(Name("run", Level, to, seq.run), d, FlushFiles(d))
  BY DEF FlushNvmeDir
<1>2. Counters /\ Level \in Nat
  BY DEF HandInv, Shapes
<1>3. seq' = [seq EXCEPT !.run = @ + 1]
  BY DEF FlushNvmeDir
<1> QED  BY <1>1, <1>2, <1>3, NewFlushIs, NamesAre DEF Counters

\* A collection takes the run files and the next interim number.
LEMMA CollectIs ==
  ASSUME HandInv, Collect
  PROVE  /\ flush'.stage = "pass" /\ flush'.dir = NAS /\ flush'.snap = runReg
         /\ flush'.srcs = flush'.snap /\ flush'.temps = {} /\ flush'.left = {}
         /\ IsName(flush'.out) /\ flush'.out.kind = "interim" /\ flush'.out.level = Level
         /\ flush'.out.n = seq.interim /\ flush'.out.dir = NAS
         /\ seq'.interim = seq.interim + 1 /\ seq'.solve = seq.solve /\ seq'.run = seq.run
         /\ seq'.tmp = seq.tmp
<1>1. flush' = MergeInto(Name("interim", Level, NAS, seq.interim), NAS, runReg)
  BY DEF Collect
<1>2. Counters /\ Level \in Nat
  BY DEF HandInv, Shapes
<1>3. seq' = [seq EXCEPT !.interim = @ + 1]
  BY DEF Collect
<1> QED  BY <1>1, <1>2, <1>3, NewFlushIs, NamesAre DEF Counters

\* Fast directories are not the NAS.
LEMMA FastDirs == NAS \notin Fast /\ Moderate \cap Fast = {}
BY LevelEnumeratorAssumption

\* The directory whose turn it is, is a Fast one.
LEMMA TurnFast == ASSUME NEW t \in Nat, t < NumFast PROVE t \in Fast
BY LevelEnumeratorAssumption DEF Fast

\* What a merge has still to read and to delete stays apart.
LEMMA FlushingStep == ASSUME HandInv, Next PROVE Flushing'
<1> USE DEF HandInv, Flushing, Busy, Solving, MultiPass
<1>1. Fields /\ Alone /\ Counters
  BY FieldsOf DEF Shapes
<1>2. ASSUME UNCHANGED flush, UNCHANGED seq, main'.pc = main.pc PROVE Flushing'
  BY <1>2 DEF Resting
<1>3. ASSUME ~Busy, flush' = flush PROVE Flushing'
  BY <1>3 DEF Resting
<1>4. Down => Flushing'
  BY DownIs DEF Idle, Resting
<1>5. CASE Stop \/ StopAfterSolve \/ MergeStops \/ Crash \/ MergeDone
  BY <1>1, <1>3, <1>4, <1>5 DEF Stop, StopAfterSolve, MergeStops, Crash, MergeDone, Alone, At
<1>6. CASE PassOver \/ Solve \/ Resume \/ MergeToPartitions \/ NothingToMerge
  BY <1>1, <1>3, <1>6 DEF PassOver, Solve, Resume, MergeToPartitions, NothingToMerge, Looping,
      Alone, At
<1>7. CASE DeleteMerged \/ FRSave \/ WriteConfig \/ Restart \/ JoinThreads \/ Resumed
  BY <1>1, <1>3, <1>7 DEF DeleteMerged, FRSave, WriteConfig, Restart, JoinThreads, Joined,
      Resumed, Alone, At
<1>8. CASE FinishSolve
  BY <1>1, <1>8 DEF FinishSolve, At, Goto, Fields, Resting
<1>9. CASE StartFlushBuffer
  <2>1. seq'.tmp = seq.tmp
    BY <1>1, <1>9 DEF StartFlushBuffer, Counters
  <2>2. UNCHANGED <<flush, main>>
    BY <1>9 DEF StartFlushBuffer
  <2> QED  BY <2>1, <2>2 DEF Resting
<1>10. CASE NoFlushNeeded
  BY <1>10 DEF NoFlushNeeded, Idle, Resting
<1>11. CASE Pass
  <2>1. PICK batch \in SUBSET flush.srcs :
           /\ (~MultiPass => batch = flush.srcs)
           /\ flush'.stage = "del" /\ flush'.left = batch /\ flush'.srcs = flush.srcs \ batch
           /\ flush'.temps = flush.temps \cup (IF MultiPass THEN {Target} ELSE {})
           /\ flush'.snap = flush.snap /\ flush'.dir = flush.dir
           /\ seq'.tmp = seq.tmp + (IF MultiPass THEN 1 ELSE 0)
    BY <1>11, PassIs
  <2>2. Busy /\ main' = main
    BY <1>11 DEF Pass
  <2>3. \A f \in batch : f.kind # "tmp"
    BY <2>2 DEF FlushFilesOwn, Own
  <2>4. CASE MultiPass
    <3>1. IsName(Target) /\ Target.kind = "tmp" /\ Target.n = seq.tmp
      BY <1>1, <2>4, NamesAre DEF Target, Counters
    <3>2. seq'.tmp = seq.tmp + 1 /\ seq.tmp \in Nat
      BY <1>1, <2>1, <2>4 DEF Counters
    <3>3. flush'.temps = flush.temps \cup {Target}
      BY <2>1, <2>4
    <3>4. \A f \in flush'.temps : IsName(f) /\ f.kind = "tmp" /\ f.n < seq'.tmp
      BY <2>2, <3>1, <3>2, <3>3 DEF IsName
    <3> QED  BY <2>1, <2>2, <2>3, <2>4, <3>4
  <2>5. CASE ~MultiPass
    <3>1. flush'.temps = flush.temps /\ seq'.tmp = seq.tmp
      BY <1>1, <2>1, <2>5 DEF Counters
    <3> QED  BY <2>1, <2>2, <2>3, <2>5, <3>1
  <2> QED  BY <2>4, <2>5
<1>12. CASE LastPass
  <2>1. seq' = seq /\ main' = main /\ flush.stage = "final"
    BY <1>12 DEF LastPass
  <2> QED  BY <1>12, <2>1, LastPassIs DEF FlushStages
<1>13. CASE DeleteSource
  <2>1. seq' = seq /\ main' = main /\ flush.stage = "del"
    BY <1>13 DEF DeleteSource
  <2> QED  BY <1>13, <2>1, DeleteSourceIs
<1>14. CASE MergeFails \/ RecordFlush
  BY <1>14, AfterFlushIs DEF MergeFails, RecordFlush
<1>15. CASE Collect
  BY <1>15, CollectIs DEF Collect, At
<1>16. ASSUME NEW d \in Fast, NEW to, FlushNvmeDir(d, to),
              main.pc \in {"solve", "drain", "resume"}, main'.pc = main.pc
       PROVE  Flushing'
  BY <1>16, FlushNvmeDirIs, FastDirs
<1>17. CASE ResumeFlush
  <2>1. CASE UNCHANGED flush
    <3>1. (seq' = seq /\ main'.pc = main.pc) \/ ~Busy
      BY <1>17 DEF ResumeFlush
    <3> QED  BY <1>3, <1>17, <2>1 DEF ResumeFlush
  <2>2. ASSUME NEW to, FlushNvmeDir(main.turn, to), UNCHANGED main PROVE Flushing'
    <3>1. main.turn \in Fast
      BY <1>17, TurnFast DEF ResumeFlush, Shapes
    <3> QED  BY <1>16, <1>17, <2>2, <3>1 DEF ResumeFlush, At
  <2> QED  BY <1>17, <2>1, <2>2 DEF ResumeFlush
<1>18. ASSUME NEW d \in Fast, StartFlush(d) PROVE Flushing'
  <2>1. main.pc \in {"solve", "drain", "resume"}
    BY <1>1, <1>18 DEF StartFlush, Alone, At
  <2> QED  BY <2>1, <1>16, <1>18 DEF StartFlush
<1>19. CASE ReadBatch \/ WriteHeader \/ WriteBoards \/ Register \/ CtrlC
  BY <1>2, <1>19 DEF ReadBatch, WriteHeader, WriteBoards, Register, CtrlC
<1>20. CASE MoveStep \/ StartMove
  BY <1>2, <1>20 DEF MoveStep, CopyRun, CopyFails, UpdatePath, DeleteMoved, StartMove
<1> QED
  BY <1>5, <1>6, <1>7, <1>8, <1>9, <1>10, <1>11, <1>12, <1>13, <1>14, <1>15, <1>17, <1>18,
      <1>19, <1>20
  DEF Next, MainStep, WriterStep, FlushStep, MonitorStep

\* A merge's output keeps a number of its own.
LEMMA FlushFilesOwnStep == ASSUME HandInv, Next PROVE FlushFilesOwn'
<1> USE DEF HandInv, Flushing, FlushFilesOwn, Busy, Solving, Own, Moving, Level
<1>1. Fields /\ Alone /\ Counters
  BY FieldsOf DEF Shapes
<1>2. ASSUME UNCHANGED <<flush, solveReg, runReg, move>>, main'.level = main.level,
             seq'.run = seq.run, seq'.interim = seq.interim
      PROVE  FlushFilesOwn'
  BY <1>2
<1>3. ASSUME flush'.stage \in {"idle", "collected"} PROVE FlushFilesOwn'
  BY <1>3
<1>4. ASSUME ~Busy, flush' = flush PROVE FlushFilesOwn'
  BY <1>4
<1>5. Down => FlushFilesOwn'
  BY <1>3, DownIs DEF Idle
<1>6. CASE Stop \/ StopAfterSolve \/ MergeStops \/ Crash \/ MergeDone
  BY <1>1, <1>4, <1>5, <1>6 DEF Stop, StopAfterSolve, MergeStops, Crash, MergeDone, Alone, At
<1>7. CASE PassOver \/ Solve \/ Resume \/ MergeToPartitions \/ NothingToMerge
  BY <1>1, <1>4, <1>7 DEF PassOver, Solve, Resume, MergeToPartitions, NothingToMerge, Looping,
      Alone, At
<1>8. CASE DeleteMerged \/ FRSave \/ WriteConfig \/ Restart \/ JoinThreads \/ Resumed
  BY <1>1, <1>4, <1>8 DEF DeleteMerged, FRSave, WriteConfig, Restart, JoinThreads, Joined,
      Resumed, Alone, At
<1>9. CASE FinishSolve
  BY <1>1, <1>2, <1>9 DEF FinishSolve, At, Goto, Fields
<1>10. CASE StartFlushBuffer
  <2>1. seq'.run = seq.run /\ seq'.interim = seq.interim
    BY <1>1, <1>10 DEF StartFlushBuffer, Counters
  <2> QED  BY <1>2, <1>10, <2>1 DEF StartFlushBuffer
<1>11. CASE NoFlushNeeded \/ MergeFails \/ RecordFlush
  BY <1>3, <1>11, AfterFlushIs DEF NoFlushNeeded, MergeFails, RecordFlush, Idle
<1>12. ASSUME flush'.snap = flush.snap, flush'.dir = flush.dir, flush'.out = flush.out, Busy,
              UNCHANGED <<solveReg, runReg, move, main>>, seq'.run = seq.run,
              seq'.interim = seq.interim
       PROVE  FlushFilesOwn'
  BY <1>12
<1>13. CASE Pass
  BY <1>12, <1>13, PassIs DEF Pass
<1>14. CASE LastPass
  BY <1>12, <1>14, LastPassIs DEF LastPass
<1>15. CASE DeleteSource
  BY <1>12, <1>15, DeleteSourceIs DEF DeleteSource
<1>16. CASE Collect
  <2>1. \A f \in runReg : IsName(f) /\ f.kind \in {"run", "interim"} /\ f.level = main.level
                          /\ (f.kind = "interim" => f.n < seq.interim)
    BY <1>16 DEF Collect, Registered, Working, Numbered, At
  <2>2. seq.interim \in Nat
    BY <1>1 DEF Counters
  <2>3. main' = main /\ runReg' = runReg
    BY <1>16 DEF Collect
  <2> QED  BY <1>16, <2>1, <2>2, <2>3, CollectIs DEF IsName
<1>17. ASSUME NEW d \in Fast, NEW to, FlushNvmeDir(d, to),
              main.pc \in {"solve", "drain", "resume"},
              UNCHANGED <<solveReg, runReg, move>>, main'.level = main.level
       PROVE  FlushFilesOwn'
  <2>1. \A f \in runReg : IsName(f) /\ (f.kind = "run" => f.n < seq.run)
    BY <1>17 DEF Registered, Working, Numbered, At
  <2>2. \A f \in FlushFiles(d) : IsName(f) /\ f.kind = "solve" /\ f.level = main.level
        /\ f \in solveReg
    BY <1>17 DEF Registered, Working, FlushFiles
  <2>3. seq.run \in Nat
    BY <1>1 DEF Counters
  <2>4. move.stage # "idle" => move.from.n \in Nat /\ move.from.n < seq.run
    BY DEF Migrating, IsName
  <2>5. /\ flush'.dir = d /\ flush'.snap = FlushFiles(d)
        /\ IsName(flush'.out) /\ flush'.out.kind = "run" /\ flush'.out.level = Level
        /\ flush'.out.n = seq.run /\ seq'.run = seq.run + 1
    BY <1>17, FlushNvmeDirIs
  <2>6. d # NAS
    BY FastDirs
  <2> QED  BY <1>17, <2>1, <2>2, <2>3, <2>4, <2>5, <2>6 DEF IsName
<1>18. CASE ResumeFlush
  <2>1. CASE UNCHANGED flush
    <3>1. ~Busy
      BY <1>18 DEF ResumeFlush
    <3> QED  BY <1>4, <2>1, <3>1
  <2>2. ASSUME NEW to, FlushNvmeDir(main.turn, to), UNCHANGED main PROVE FlushFilesOwn'
    <3>1. main.turn \in Fast
      BY <1>18, TurnFast DEF ResumeFlush, Shapes
    <3> QED  BY <1>17, <1>18, <2>2, <3>1 DEF ResumeFlush, At
  <2> QED  BY <1>18, <2>1, <2>2 DEF ResumeFlush
<1>19. ASSUME NEW d \in Fast, StartFlush(d) PROVE FlushFilesOwn'
  <2>1. main.pc \in {"solve", "drain", "resume"}
    BY <1>1, <1>19 DEF StartFlush, Alone, At
  <2> QED  BY <2>1, <1>17, <1>19 DEF StartFlush
<1>20. CASE Register
  BY <1>20 DEF Register
<1>21. CASE UpdatePath
  <2>1. UNCHANGED <<flush, solveReg, main, seq>> /\ move'.stage # "idle" => move'.from = move.from
    BY <1>1, <1>21 DEF UpdatePath, Fields
  <2>2. \A f \in runReg' : f \in runReg \/ f = move.to
    BY <1>21 DEF UpdatePath
  <2>3. move.stage # "idle"
    BY <1>21 DEF UpdatePath
  <2>4. move.to.kind = "run" /\ move.to.n = move.from.n
    BY <2>3 DEF Migrating
  <2>5. move'.from = move.from /\ UNCHANGED <<flush, solveReg, main, seq>>
    BY <1>1, <1>21 DEF UpdatePath, Fields
  <2> QED  BY <2>2, <2>3, <2>4, <2>5
<1>22. CASE StartMove
  <2>1. PICK f \in runReg, d \in Moderate :
          f.dir \in Fast /\ move' = [stage |-> "copy", from |-> f, to |-> [f EXCEPT !.dir = d]]
    BY <1>22 DEF StartMove
  <2>2. f.kind = "run"
    BY <1>22, <2>1, FastDirs DEF StartMove, Registered, Working, Numbered, At
  <2>3. UNCHANGED <<flush, solveReg, runReg, main, seq>> /\ move'.from = f
    BY <1>22, <2>1 DEF StartMove
  <2> QED  BY <2>2, <2>3
<1>23. CASE CopyRun
  BY <1>1, <1>23 DEF CopyRun, Fields
<1>24. CASE CopyFails \/ DeleteMoved
  BY <1>24 DEF CopyFails, DeleteMoved, Still
<1>25. CASE ReadBatch \/ WriteHeader \/ WriteBoards \/ CtrlC
  BY <1>2, <1>25 DEF ReadBatch, WriteHeader, WriteBoards, CtrlC
<1> QED
  BY <1>6, <1>7, <1>8, <1>9, <1>10, <1>11, <1>13, <1>14, <1>15, <1>16, <1>18, <1>19, <1>20,
      <1>21,
     <1>22, <1>23, <1>24, <1>25
  DEF Next, MainStep, WriterStep, FlushStep, MoveStep, MonitorStep

\* The output of a merge is nobody else's file.
LEMMA OutApart ==
  ASSUME HandInv, Busy
  PROVE  /\ flush.out \notin flush.snap \cup flush.left \cup flush.temps \cup solveReg \cup runReg
         /\ Moving => flush.out # move.from /\ flush.out # move.to
         /\ flush.out.kind \in {"run", "interim"}
<1> USE DEF HandInv
<1>1. CASE flush.dir = NAS
  <2>1. /\ flush.out.kind = "interim"
        /\ \A f \in runReg \cup flush.snap : f.kind = "interim" => f.n # flush.out.n
    BY <1>1 DEF FlushFilesOwn, Own
  <2>2. \A f \in solveReg : f.kind = "solve"
    BY DEF Flushing, Registered, Working, Own
  <2>3. Moving => move.from.kind = "run" /\ move.to.kind = "run"
    BY DEF Migrating, Own
  <2>4. flush.out \notin flush.snap \cup runReg \cup solveReg
    BY <2>1, <2>2
  <2>5. \A f \in flush.left \cup flush.temps : f \in flush.snap \/ f.kind = "tmp"
    BY DEF Flushing
  <2> QED  BY <2>1, <2>3, <2>4, <2>5
<1>2. CASE flush.dir # NAS
  <2>1. /\ flush.out.kind = "run"
        /\ \A f \in runReg : f.kind = "run" => f.n # flush.out.n
        /\ \A f \in flush.snap : f.kind = "solve"
        /\ Moving => move.from.n # flush.out.n
    BY <1>2 DEF FlushFilesOwn, Own
  <2>2. \A f \in solveReg : f.kind = "solve"
    BY DEF Flushing, Registered, Working, Own
  <2>3. Moving => move.from.n = move.to.n
    BY DEF Migrating
  <2>4. flush.out \notin flush.snap \cup runReg \cup solveReg
    BY <2>1, <2>2
  <2>5. \A f \in flush.left \cup flush.temps : f \in flush.snap \/ f.kind = "tmp"
    BY DEF Flushing
  <2> QED  BY <2>1, <2>3, <2>4, <2>5
<1> QED  BY <1>1, <1>2

\* What is left to read and to delete follows the stage.
LEMMA FlushStagesStep == ASSUME HandInv, Next PROVE FlushStages'
<1> USE DEF HandInv, FlushStages, Busy
<1>1. Fields /\ Alone
  BY FieldsOf
<1>2. ASSUME flush' = flush, DOMAIN disk \subseteq DOMAIN disk' PROVE FlushStages'
  BY <1>2
<1>3. ASSUME flush'.stage \in {"idle", "collected"} PROVE FlushStages'
  BY <1>3
<1>4. ASSUME ~Busy, flush' = flush PROVE FlushStages'
  BY <1>4 DEF Flushing
<1>5. Down => FlushStages'
  BY <1>3, DownIs DEF Idle
<1>6. CASE Stop \/ StopAfterSolve \/ MergeStops \/ Crash \/ MergeDone
  BY <1>1, <1>4, <1>5, <1>6 DEF Stop, StopAfterSolve, MergeStops, Crash, MergeDone, Alone, At
<1>7. CASE PassOver \/ Solve \/ Resume \/ MergeToPartitions \/ NothingToMerge
  BY <1>1, <1>4, <1>7 DEF PassOver, Solve, Resume, MergeToPartitions, NothingToMerge, Looping,
      Alone, At
<1>8. CASE DeleteMerged \/ FRSave \/ WriteConfig \/ Restart \/ JoinThreads \/ Resumed
  BY <1>1, <1>4, <1>8 DEF DeleteMerged, FRSave, WriteConfig, Restart, JoinThreads, Joined,
      Resumed, Alone, At
<1>9. CASE FinishSolve \/ StartFlushBuffer \/ ReadBatch \/ Register \/ CtrlC
  BY <1>2, <1>9 DEF FinishSolve, StartFlushBuffer, ReadBatch, Register, CtrlC, durable
<1>10. CASE WriteHeader \/ WriteBoards \/ CopyRun
  BY <1>2, <1>10 DEF WriteHeader, WriteBoards, CopyRun, Put
<1>11. CASE NoFlushNeeded \/ MergeFails \/ RecordFlush
  BY <1>3, <1>11, AfterFlushIs DEF NoFlushNeeded, MergeFails, RecordFlush, Idle
<1>12. CASE Pass
  <2>1. PICK batch \in SUBSET flush.srcs :
           /\ (~MultiPass => batch = flush.srcs)
           /\ disk' = Put(Target, Boards(batch))
           /\ flush'.stage = "del" /\ flush'.srcs = flush.srcs \ batch
           /\ flush'.temps = flush.temps \cup (IF MultiPass THEN {Target} ELSE {})
           /\ flush'.out = flush.out
    BY <1>12, PassIs
  <2>2. CASE MultiPass
    BY <2>1, <2>2
  <2>3. CASE ~MultiPass
    BY <2>1, <2>3, PutDomain DEF Target
  <2> QED  BY <2>2, <2>3
<1>13. CASE LastPass
  <2>1. flush.stage = "final" /\ flush.out \in DOMAIN disk'
    BY <1>13, PutDomain DEF LastPass
  <2> QED  BY <1>13, <2>1, LastPassIs
<1>14. CASE DeleteSource
  <2>1. flush.stage = "del"
    BY <1>14 DEF DeleteSource
  <2>2. PICK f \in flush.left :
           /\ disk' = Without({f})
           /\ flush'.left = flush.left \ {f}
           /\ flush'.srcs = flush.srcs /\ flush'.snap = flush.snap
           /\ flush'.out = flush.out /\ flush'.temps = flush.temps
           /\ flush'.stage = IF flush.left \ {f} # {} THEN "del"
                             ELSE IF flush.srcs # {} THEN "pass"
                             ELSE IF flush.temps # {} THEN "final" ELSE "record"
    BY <1>14, DeleteSourceIs
  <2>3. f # flush.out
    BY <2>1, OutApart
  <2>4. flush.out \in DOMAIN disk => flush.out \in DOMAIN disk'
    BY <2>2, <2>3, WithoutDomain
  <2> QED  BY <2>1, <2>2, <2>4
<1>15. CASE DeleteMoved
  <2>1. flush' = flush /\ disk' = Without({move.from}) /\ Moving
    BY <1>15 DEF DeleteMoved, Moving
  <2>2. Busy /\ flush.out \in DOMAIN disk => flush.out \in DOMAIN disk'
    BY <2>1, OutApart, WithoutDomain
  <2> QED  BY <2>1, <2>2
<1>16. CASE CopyFails \/ UpdatePath \/ StartMove
  BY <1>2, <1>16 DEF CopyFails, UpdatePath, StartMove, durable
<1>17. CASE Collect
  BY <1>17, CollectIs
<1>18. CASE ResumeFlush
  <2>1. CASE UNCHANGED flush
    BY <1>2, <1>18, <2>1 DEF ResumeFlush, durable
  <2>2. ASSUME NEW to, FlushNvmeDir(main.turn, to) PROVE FlushStages'
    <3>1. main.turn \in Fast
      BY <1>18, TurnFast DEF ResumeFlush, Shapes
    <3> QED  BY <2>2, <3>1, FlushNvmeDirIs
  <2> QED  BY <1>18, <2>1, <2>2 DEF ResumeFlush
<1>19. ASSUME NEW d \in Fast, StartFlush(d) PROVE FlushStages'
  BY <1>19, FlushNvmeDirIs DEF StartFlush
<1> QED
  BY <1>6, <1>7, <1>8, <1>9, <1>10, <1>11, <1>12, <1>13, <1>14, <1>15, <1>16, <1>17, <1>18,
      <1>19
  DEF Next, MainStep, WriterStep, FlushStep, MoveStep, MonitorStep

\* A migration's two names stay its own.
LEMMA MigratingStep == ASSUME HandInv, Next PROVE Migrating'
<1> USE DEF HandInv, Migrating, Moving, Solving, Own, Level
<1>1. Fields /\ Alone /\ Counters
  BY FieldsOf DEF Shapes
<1>2. ASSUME move.stage = "idle", move' = move PROVE Migrating'
  BY <1>2
<1>3. Down => Migrating'
  BY DownIs DEF Still
<1>4. CASE Stop \/ StopAfterSolve \/ MergeStops \/ Crash \/ MergeDone
  BY <1>1, <1>2, <1>3, <1>4 DEF Stop, StopAfterSolve, MergeStops, Crash, MergeDone, Alone, At
<1>5. CASE PassOver \/ Solve \/ Resume \/ MergeToPartitions \/ NothingToMerge
  BY <1>1, <1>2, <1>5 DEF PassOver, Solve, Resume, MergeToPartitions, NothingToMerge, Looping,
      Alone, At
<1>6. CASE DeleteMerged \/ FRSave \/ WriteConfig \/ Restart \/ JoinThreads \/ Resumed
        \/ ResumeFlush
  BY <1>1, <1>2, <1>6 DEF DeleteMerged, FRSave, WriteConfig, Restart, JoinThreads, Joined,
      Resumed, ResumeFlush, Alone, At
<1>7. ASSUME move' = move, main'.pc \in {"solve", "drain"} \/ main'.pc = main.pc,
             main'.level = main.level,
             seq'.run \in Nat, seq.run <= seq'.run, runReg' \subseteq runReg,
             move.to \notin flush'.snap \/ move.to \in flush.snap \cup runReg,
             move.stage = "update" => move.to \in DOMAIN disk' /\ disk'[move.to] = disk[move.to],
             move.stage = "update" /\ move.from \in DOMAIN disk' =>
                move.from \in DOMAIN disk /\ disk'[move.from] = disk[move.from]
      PROVE  Migrating'
  BY <1>1, <1>7 DEF IsName, Counters
<1>8. CASE FinishSolve \/ StartFlushBuffer \/ ReadBatch \/ Register \/ CtrlC
  <2>1. /\ move' = move /\ main'.level = main.level /\ runReg' = runReg /\ flush' = flush
           /\ disk' = disk
        /\ main'.pc \in {"solve", "drain"} \/ main'.pc = main.pc
    BY <1>1, <1>8 DEF FinishSolve, StartFlushBuffer, ReadBatch, Register, CtrlC, Goto, Fields,
        durable
  <2>2. seq'.run = seq.run
    BY <1>1, <1>8 DEF FinishSolve, StartFlushBuffer, ReadBatch, Register, CtrlC, Counters
  <2> QED  BY <1>1, <1>7, <2>1, <2>2 DEF Counters
<1>9. CASE WriteHeader \/ WriteBoards
  <2>1. job # NoJob /\ UNCHANGED <<move, main, runReg, flush, seq>>
    BY <1>9 DEF WriteHeader, WriteBoards
  <2>2. \E b : disk' = Put(job.file, b)
    BY <1>9 DEF WriteHeader, WriteBoards
  <2>3. job.file.kind = "solve"
    BY <2>1 DEF Writing
  <2>4. \A g \in DOMAIN disk : g # job.file => disk'[g] = disk[g]
    BY <2>2 DEF Put
  <2>5. DOMAIN disk' = {job.file} \cup DOMAIN disk
    BY <2>2 DEF Put
  <2>6. Moving => move.from # job.file /\ move.to # job.file
    BY <2>3
  <2> QED  BY <1>1, <1>7, <2>1, <2>4, <2>5, <2>6 DEF Counters
<1>10. CASE RecordFlush
  <2>1. AfterFlush /\ UNCHANGED <<disk, move, seq>> /\ flush.stage = "record"
    BY <1>10 DEF RecordFlush, durable
  <2>2. runReg' \subseteq runReg \cup {flush.out}
    BY <1>10 DEF RecordFlush
  <2>3. Moving => flush.out # move.from /\ flush.out # move.to
                  /\ (flush.out.kind = "run" => flush.out.n # move.from.n)
    <3>1. Busy
      BY <2>1 DEF Busy
    <3>2. flush.dir = NAS => flush.out.kind = "interim"
      BY <3>1 DEF FlushFilesOwn
    <3> QED  BY <3>1, <3>2, OutApart DEF FlushFilesOwn
  <2>4. main'.pc = main.pc /\ main'.level = main.level /\ flush'.snap = {}
    BY <2>1, AfterFlushIs DEF Resting
  <2> QED  BY <2>1, <2>2, <2>3, <2>4
<1>11. CASE NoFlushNeeded \/ Pass \/ LastPass \/ DeleteSource \/ MergeFails
  <2>1. UNCHANGED <<move, runReg>> /\ main'.pc = main.pc /\ main'.level = main.level
    BY <1>11, AfterFlushIs DEF NoFlushNeeded, Pass, LastPass, DeleteSource, MergeFails
  <2>2. seq'.run = seq.run
    BY <1>11, PassIs DEF NoFlushNeeded, LastPass, DeleteSource, MergeFails
  <2>3. flush'.snap = flush.snap \/ flush'.snap = {}
    <3>1. NoFlushNeeded => flush'.snap = {}
      BY DEF NoFlushNeeded, Idle
    <3>2. MergeFails => flush'.snap = {}
      BY AfterFlushIs DEF MergeFails, Resting
    <3>3. Pass => flush'.snap = flush.snap
      BY PassIs
    <3>4. LastPass \/ DeleteSource => flush'.snap = flush.snap
      BY LastPassIs, DeleteSourceIs
    <3> QED  BY <1>11, <3>1, <3>2, <3>3, <3>4
  <2>4. ASSUME move.stage = "update"
        PROVE  move.to \in DOMAIN disk' /\ disk'[move.to] = disk[move.to]
    <3>1. move.to \notin flush.snap /\ move.to.kind = "run" /\ (Busy => move.to # flush.out)
      BY <2>4, OutApart
    <3> QED  BY <1>11, <2>4, <3>1, FlushTouches DEF FlushStep
  <2>5. ASSUME move.stage = "update", move.from \in DOMAIN disk'
        PROVE  move.from \in DOMAIN disk /\ disk'[move.from] = disk[move.from]
    <3>1. move.from.kind = "run" /\ (Busy => move.from # flush.out)
      BY <2>5, OutApart
    <3> QED  BY <1>11, <2>5, <3>1, FlushSame DEF FlushStep
  <2> QED  BY <1>1, <1>7, <2>1, <2>2, <2>3, <2>4, <2>5 DEF Counters
<1>12. CASE CopyRun
  <2>1. /\ move.stage = "copy" /\ move.from \in DOMAIN disk
           /\ disk' = Put(move.to, disk[move.from])
        /\ move' = [move EXCEPT !.stage = "update"] /\ UNCHANGED <<main, runReg, flush, seq>>
    BY <1>12 DEF CopyRun
  <2>2. move.from # move.to
    BY <2>1
  <2>3. disk'[move.to] = disk[move.from] /\ disk'[move.from] = disk[move.from]
        /\ move.to \in DOMAIN disk'
    BY <2>1, <2>2 DEF Put
  <2>4. move'.stage = "update" /\ move'.from = move.from /\ move'.to = move.to
    BY <1>1, <2>1 DEF Fields
  <2> QED  BY <2>1, <2>3, <2>4
<1>13. CASE CopyFails \/ DeleteMoved
  BY <1>13 DEF CopyFails, DeleteMoved, Still
<1>14. CASE UpdatePath
  <2>1. move'.stage = "delete" /\ move'.from = move.from /\ move'.to = move.to
    BY <1>1, <1>14 DEF UpdatePath, Fields
  <2>2. move.from \notin runReg' /\ runReg' \subseteq runReg \cup {move.to}
    BY <1>14 DEF UpdatePath
  <2>3. UNCHANGED <<main, flush, seq>> /\ move.stage = "update"
    BY <1>14 DEF UpdatePath
  <2> QED  BY <2>1, <2>2, <2>3
<1>15. CASE StartMove
  <2>1. PICK f \in runReg, d \in Moderate :
          f.dir \in Fast /\ move' = [stage |-> "copy", from |-> f, to |-> [f EXCEPT !.dir = d]]
    BY <1>15 DEF StartMove
  <2>2. main.pc = "solve" /\ UNCHANGED <<main, flush, seq, runReg>>
        /\ (flush.stage = "idle" \/ flush.dir # NAS)
    BY <1>15 DEF StartMove, At
  <2>3. IsName(f) /\ f.kind = "run" /\ f.level = main.level /\ f.n < seq.run
    BY <2>1, <2>2, FastDirs DEF Registered, Working, Numbered
  <2> DEFINE t == [f EXCEPT !.dir = d]
  <2>4. IsName(t) /\ t.kind = "run" /\ t.level = main.level /\ t.n = f.n /\ t.dir = d
    BY <2>3 DEF IsName
  <2>5. t # f
    BY <2>1, <2>4, FastDirs
  <2>6. \A g \in runReg : g.kind = "run" /\ g.n = f.n => g = f
    BY <2>1, <2>2, <2>3 DEF Numbered
  <2>7. t \notin runReg
    BY <2>4, <2>5, <2>6
  <2>8. t \notin flush.snap
    BY <2>2, <2>4 DEF Flushing, Resting, Busy, FlushFilesOwn
  <2>9. move'.stage = "copy" /\ move'.from = f /\ move'.to = t
    BY <2>1
  <2> HIDE DEF t
  <2> QED  BY <2>2, <2>3, <2>4, <2>5, <2>6, <2>7, <2>8, <2>9
<1>16. CASE Collect
  <2>1. UNCHANGED <<move, main, disk, runReg>>
    BY <1>16 DEF Collect, durable
  <2> QED  BY <1>1, <1>7, <1>16, <2>1, CollectIs DEF Counters
<1>17. ASSUME NEW d \in Fast, StartFlush(d) PROVE Migrating'
  <2>1. UNCHANGED <<move, main, disk, runReg>>
    BY <1>17 DEF StartFlush, durable
  <2>2. PICK to : FlushNvmeDir(d, to)
    BY <1>17 DEF StartFlush
  <2>3. flush'.snap \subseteq solveReg /\ seq'.run = seq.run + 1
    BY <2>2, FlushNvmeDirIs DEF FlushFiles
  <2>4. Moving => move.to \notin solveReg
    BY DEF Registered, Working
  <2> QED  BY <1>1, <1>2, <1>7, <2>1, <2>3, <2>4 DEF Counters
<1> QED
  BY <1>4, <1>5, <1>6, <1>8, <1>9, <1>10, <1>11, <1>12, <1>13, <1>14, <1>15, <1>16, <1>17
  DEF Next, MainStep, WriterStep, FlushStep, MoveStep, MonitorStep

\* No thread has anything in hand at first, and no step disturbs what they have.
LEMMA InitHand == Init => HandInv
<1> SUFFICES ASSUME Init PROVE HandInv
  OBVIOUS
<1>1. /\ main.pc = "level" /\ main.level = 0 /\ main.turn = 0 /\ main.last = -1 /\ config = -1
      /\ DOMAIN disk = {Seed} /\ meta = <<>> /\ seq = NewSeq /\ pipe = NoPipe /\ job = NoJob
      /\ flush = Idle /\ move = Still
  BY DEF Init, Thread0
<1>2. OnDisk
  BY <1>1 DEF OnDisk, Seed, Name, IsName
<1>3. Shapes
  BY <1>1, <1>2 DEF Shapes, OneFile, Counters, NewSeq, Level
<1> QED
  BY <1>1, <1>3, InitKeeps
  DEF HandInv, Reading, Registered, Numbered, Writing, Flushing, FlushFilesOwn, FlushStages,
      Migrating, Moving, Busy, Resting, Idle, Still, NoPipe, At, Solving, Working

LEMMA HandStep == ASSUME HandInv, Next PROVE HandInv'
BY StepKeeps, ShapesStep, ReadingStep, RegisteredStep, NumberedStep, WritingStep, FlushingStep,
   FlushFilesOwnStep, FlushStagesStep, MigratingStep DEF HandInv

-----------------------------------------------------------------------------
(* What no thread loses.                                                   *)

\* A board is in one of the files of a set.
In(x, files) == \E f \in files : f \in DOMAIN disk /\ x \in disk[f]
Ready == IF flush.stage = "record" \/ (flush.stage = "del" /\ flush.temps = {})
           THEN {flush.out} ELSE {}

\* What a merge of solver files has read and not yet to delete is deleted; what it
\* has to delete is in its own files; and what it collects on the NAS is, while
\* the migration has taken no source away, in what it has read or has still to read.
Deleted == Busy /\ flush.dir # NAS =>
             \A f \in flush.snap : f \in flush.srcs \cup flush.left \/ f \notin DOMAIN disk
Covered == Busy => \A f \in flush.left : f \in DOMAIN disk =>
                     \A x \in disk[f] : In(x, flush.temps \cup Ready)
Collected == Busy /\ flush.dir = NAS /\ flush.srcs \subseteq DOMAIN disk =>
  /\ \A x : In(x, runReg) => In(x, flush.srcs \cup flush.temps \cup Ready)
  /\ move.stage = "update" /\ move.from \in runReg =>
       \A x : In(x, {move.to}) => In(x, flush.srcs \cup flush.temps \cup Ready)

\* A registered file exists, unless the merge that replaces it has deleted it.
Exist == main.pc \in {"solve", "drain", "resume", "merge"} =>
           \A f \in solveReg \cup runReg :
             f \in DOMAIN disk \/ (Busy /\ f \in flush.snap \ flush.srcs)

\* A board led to by one that was read is on its way to the merge.
Piles == solveReg \cup runReg \cup flush.temps \cup Ready
Carried(x) == \/ In(x, Piles)
              \/ x \in pipe.acc \/ (job # NoJob /\ x \in job.boards)
KidsCarried == main.pc \in {"solve", "drain", "resume", "merge"} /\ ~pipe.partial =>
          \A b \in Reach[Level] : b \notin pipe.todo => \A x \in Kids[b] : Carried(x)

\* No file holds a board that is not of its level.
Sound ==
  /\ \A f \in DOMAIN disk : f.kind \in {"solve", "run", "interim"}
     => disk[f] \subseteq Reach[f.level + 1]
  /\ \A f \in flush.temps : f \in DOMAIN disk => disk[f] \subseteq Reach[Level + 1]
  /\ pipe.todo \subseteq Reach[Level] /\ pipe.acc \subseteq Reach[Level + 1]
  /\ job # NoJob => job.boards \subseteq Reach[Level + 1]

\* The files a restart finds of a level that is not complete hold all of it, or
\* there are none.
DurableAt(l) == \/ l \in DOMAIN meta /\ meta[l] # {}
                \/ FoundSolve(l) \cup FoundRuns(l) = {}
                \/ \A x \in Reach[l + 1] : In(x, FoundSolve(l) \cup FoundRuns(l))
Durable == \A l \in Nat : l # Level \/ main.pc \in {"level", "down", "config"} => DurableAt(l)

Exactly(files, n) == \A x : In(x, files) <=> x \in Reach[n]
Levels ==
  /\ Seed \in DOMAIN disk /\ disk[Seed] = {Root}
  /\ \A l \in DOMAIN meta : Exactly(meta[l], l + 1)
  /\ \A f \in main.current : f = Seed \/ \E l \in DOMAIN meta : f \in meta[l]
  /\ ~At("down") => Exactly(main.current, IF Behind THEN main.last + 1 ELSE Level)
  /\ Working \/ At("config") => ~Behind
  /\ Working => ~Complete
Merging ==
  /\ At("delete") => /\ main.gone \subseteq Sources /\ Sources # {}
                     /\ main.gone = Sources =>
                          Sources \subseteq DOMAIN disk /\ Exactly(Sources, Level + 1)
                     /\ MergeFile(Level) \in DOMAIN disk
                        /\ disk[MergeFile(Level)] = Reach[Level + 1]
  /\ At("save") => Exactly(Merged, Level + 1)
  /\ At("config") => Level \in DOMAIN meta /\ meta[Level] = Merged

GoodInv ==
  /\ Deleted /\ Covered /\ Collected /\ Exist /\ KidsCarried
  /\ Sound /\ Durable /\ Levels /\ Merging
-----------------------------------------------------------------------------
\* No process has ended at a bad moment, and no merge failed that had deleted
\* sources already.
Undisturbed == ~unsafe /\ ~cut

\* What has disturbed the files is remembered.
LEMMA UndisturbedBefore == ASSUME Next, Undisturbed' PROVE Undisturbed
<1>1. ~unsafe' /\ ~cut'
  BY DEF Undisturbed
<1>2. CASE Stop \/ StopAfterSolve \/ MergeStops \/ Crash \/ MergeDone
  BY <1>1, <1>2 DEF Stop, StopAfterSolve, MergeStops, Crash, MergeDone, Down, Undisturbed
<1>3. CASE MergeFails
  BY <1>1, <1>3 DEF MergeFails, Undisturbed
<1>4. CASE MainStep /\ ~(Stop \/ StopAfterSolve \/ MergeStops \/ MergeDone)
  BY <1>1, <1>4 DEF Undisturbed, MainStep, PassOver, Solve, Resume, ReadBatch,
    StartFlushBuffer, FinishSolve, JoinThreads, ResumeFlush, Resumed, MergeToPartitions,
    NothingToMerge, DeleteMerged, FRSave, WriteConfig
<1>5. CASE NoFlushNeeded \/ Pass \/ LastPass \/ DeleteSource \/ RecordFlush
  <2>1. UNCHANGED <<unsafe, cut>>
    BY <1>5 DEF NoFlushNeeded, Pass, LastPass, DeleteSource, RecordFlush
  <2> QED  BY <1>1, <2>1 DEF Undisturbed
<1>6. CASE WriterStep \/ MoveStep \/ MonitorStep \/ CtrlC \/ Restart
  BY <1>1, <1>6 DEF Undisturbed, WriterStep, MoveStep, MonitorStep, WriteHeader,
    WriteBoards, Register, CopyRun, CopyFails, UpdatePath, DeleteMoved, Collect,
    StartMove, StartFlush, CtrlC, Restart
<1> QED  BY <1>2, <1>3, <1>4, <1>5, <1>6 DEF Next, FlushStep


\* What reading a batch does.
LEMMA ReadBatchIs ==
  ASSUME HandInv, ReadBatch
  PROVE  \E b : /\ b = CHOOSE y \in pipe.todo : \A z \in pipe.todo : y <= z
                /\ pipe'.acc = pipe.acc \cup Kids[b]
                /\ pipe'.todo = IF shutdown THEN {} ELSE pipe.todo \ {b}
                /\ shutdown /\ pipe.todo \ {b} # {} => pipe'.partial
                /\ ~shutdown => ~pipe'.partial
<1> DEFINE b == CHOOSE y \in pipe.todo : \A z \in pipe.todo : y <= z
<1>1. pipe' = [todo |-> IF shutdown THEN {} ELSE pipe.todo \ {b},
               acc |-> pipe.acc \cup Kids[b], filled |-> pipe.filled + 1,
               partial |-> shutdown /\ pipe.todo \ {b} # {}]
  BY DEF ReadBatch
<1> HIDE DEF b
<1>2. /\ pipe'.acc = pipe.acc \cup Kids[b]
      /\ pipe'.todo = IF shutdown THEN {} ELSE pipe.todo \ {b}
  BY <1>1
<1>3. ASSUME shutdown /\ pipe.todo \ {b} # {} PROVE pipe'.partial
  <2>1. (shutdown /\ pipe.todo \ {b} # {}) = TRUE
    BY <1>3
  <2>2. pipe' = [todo |-> IF shutdown THEN {} ELSE pipe.todo \ {b},
               acc |-> pipe.acc \cup Kids[b], filled |-> pipe.filled + 1,
               partial |-> TRUE]
    BY <1>1, <2>1
  <2> QED  BY <2>2
<1>4. ASSUME ~shutdown PROVE ~pipe'.partial
  <2>1. (shutdown /\ pipe.todo \ {b} # {}) = FALSE
    BY <1>4
  <2>2. pipe' = [todo |-> IF shutdown THEN {} ELSE pipe.todo \ {b},
               acc |-> pipe.acc \cup Kids[b], filled |-> pipe.filled + 1,
               partial |-> FALSE]
    BY <1>1, <2>1
  <2> QED  BY <2>2
<1> QED  BY <1>2, <1>3, <1>4 DEF b

\* A file written or deleted leaves the others as they are.
LEMMA Others ==
  ASSUME NEW f, (\E b : disk' = Put(f, b)) \/ disk' = Without({f})
  PROVE  \A g \in DOMAIN disk : g # f => g \in DOMAIN disk' /\ disk'[g] = disk[g]
BY DEF Put, Without

\* The kinds of the files on the way to the merge.
LEMMA PileKinds ==
  ASSUME HandInv, main.pc \in {"solve", "drain", "resume", "merge"}
  PROVE  /\ \A f \in solveReg : f.kind = "solve" /\ IsName(f) /\ f.level = Level
         /\ \A f \in runReg : f.kind \in {"run", "interim"} /\ IsName(f) /\ f.level = Level
         /\ \A f \in flush.temps : f.kind = "tmp" /\ IsName(f)
         /\ \A f \in Ready : f.kind \in {"run", "interim"} /\ IsName(f) /\ f.level = Level
            /\ Busy /\ f = flush.out
<1> USE DEF HandInv
<1>1. \A f \in Ready : Busy /\ f = flush.out
  BY DEF Ready, Busy
<1>2. Busy => flush.out.kind \in {"run", "interim"} /\ IsName(flush.out)
      /\ flush.out.level = Level
  BY DEF FlushFilesOwn, Own
<1>3. \A f \in flush.temps : f.kind = "tmp" /\ IsName(f)
  BY DEF Flushing, Resting
<1> QED
  BY <1>1, <1>2, <1>3 DEF Registered, Working, Own

\* No board on its way to the merge is lost: the registries and the files a merge
\* has written are none of the files a step overwrites or deletes, but for what the
\* merge itself has read before.
LEMMA CarriedStays ==
  ASSUME HandInv, GoodInv, Next, Undisturbed', NEW x, Carried(x),
         main.pc \in {"solve", "drain", "resume", "merge"},
         main'.pc \in {"solve", "drain", "resume", "merge"}
  PROVE  Carried(x)'
<1> USE DEF HandInv, Carried, In
<1>1. Fields /\ Counters
  BY FieldsOf DEF Shapes
<1>2. ASSUME Piles \subseteq Piles',
             \A f \in Piles : f \in DOMAIN disk => f \in DOMAIN disk' /\ disk'[f] = disk[f],
             x \in pipe.acc => x \in pipe'.acc, job' = job \/ job = NoJob
      PROVE  Carried(x)'
  BY <1>2
<1>3. CASE ReadBatch
  BY <1>2, <1>3, ReadBatchIs DEF ReadBatch, Piles, Ready, durable
<1>4. CASE StartFlushBuffer
  <2>1. CASE pipe.acc = {}
    BY <1>2, <1>4, <2>1 DEF StartFlushBuffer, Piles, Ready, durable
  <2>2. CASE pipe.acc # {}
    <3>1. job'.boards = pipe.acc /\ job'.stage = "open"
      BY <1>4, <2>2 DEF StartFlushBuffer
    <3>2. job' # NoJob /\ job = NoJob
      BY <1>4, <3>1 DEF StartFlushBuffer, NoJob
    <3>3. UNCHANGED <<disk, solveReg, runReg, flush>>
      BY <1>4 DEF StartFlushBuffer, durable
    <3> QED  BY <3>1, <3>2, <3>3 DEF Piles, Ready
  <2> QED  BY <2>1, <2>2
<1>5. CASE WriteHeader \/ WriteBoards
  <2>1. job # NoJob /\ UNCHANGED <<solveReg, runReg, flush, pipe>>
        /\ \E b : disk' = Put(job.file, b)
    BY <1>5 DEF WriteHeader, WriteBoards
  <2>2. job.file \notin Piles
    <3>1. job.file.kind = "solve" /\ job.file \notin solveReg
      BY <2>1 DEF Writing, Own
    <3> QED  BY <3>1, PileKinds DEF Piles
  <2>3. job' # NoJob /\ job'.boards = job.boards
    BY <1>1, <1>5 DEF WriteHeader, WriteBoards, NoJob, Fields
  <2>4. \A f \in DOMAIN disk : f # job.file => f \in DOMAIN disk' /\ disk'[f] = disk[f]
    BY <2>1 DEF Put
  <2>5. Piles' = Piles
    BY <2>1 DEF Piles, Ready
  <2> QED  BY <2>1, <2>2, <2>3, <2>4, <2>5
<1>6. CASE Register
  <2>1. job # NoJob /\ job.file \in DOMAIN disk /\ disk[job.file] = job.boards
    BY <1>6 DEF Register, Writing
  <2>2. UNCHANGED <<disk, runReg, flush, pipe>> /\ solveReg' = solveReg \cup {job.file}
        /\ job' = NoJob
    BY <1>6 DEF Register, durable
  <2>3. Piles' = Piles \cup {job.file}
    BY <2>2 DEF Piles, Ready
  <2> QED  BY <2>1, <2>2, <2>3
<1>7. CASE FinishSolve \/ JoinThreads \/ Resumed \/ CopyFails \/ StartMove \/ CtrlC
  BY <1>2, <1>7 DEF FinishSolve, JoinThreads, Resumed, CopyFails, StartMove, CtrlC, Piles,
      Ready, durable
<1>8. CASE NoFlushNeeded \/ Collect
  <2>1. flush.temps = {} /\ Ready = {}
    BY <1>8 DEF NoFlushNeeded, Collect, Flushing, Busy, Resting, Ready
  <2>2. UNCHANGED <<disk, solveReg, runReg, pipe, job>>
    BY <1>8 DEF NoFlushNeeded, Collect, durable
  <2> QED  BY <1>2, <2>1, <2>2 DEF Piles
<1>9. ASSUME NEW d \in Fast, StartFlush(d) PROVE Carried(x)'
  <2>1. flush.temps = {} /\ Ready = {}
    BY <1>9 DEF StartFlush, Flushing, Busy, Resting, Ready
  <2>2. UNCHANGED <<disk, solveReg, runReg, pipe, job>>
    BY <1>9 DEF StartFlush, durable
  <2> QED  BY <1>2, <2>1, <2>2 DEF Piles
<1>10. CASE ResumeFlush
  <2>1. flush.temps = {} /\ Ready = {}
    BY <1>10 DEF ResumeFlush, Flushing, Busy, Resting, Ready
  <2>2. UNCHANGED <<disk, solveReg, runReg, pipe, job>>
    BY <1>10 DEF ResumeFlush, durable
  <2> QED  BY <1>2, <2>1, <2>2 DEF Piles
<1>11. CASE Pass
  <2>1. PICK batch \in SUBSET flush.srcs :
           /\ disk' = Put(Target, Boards(batch)) /\ flush'.stage = "del"
           /\ flush'.temps = flush.temps \cup (IF MultiPass THEN {Target} ELSE {})
    BY <1>11, PassIs
  <2>2. UNCHANGED <<solveReg, runReg, pipe, job>> /\ flush.stage = "pass" /\ Busy /\ Ready = {}
    BY <1>11 DEF Pass, Busy, Ready
  <2>3. Target \notin Piles
    <3>1. CASE MultiPass
      <4>1. Target.kind = "tmp" /\ Target.n = seq.tmp
        BY <1>1, <3>1, NamesAre DEF Target, Counters
      <4>2. \A f \in flush.temps : f.n < seq.tmp /\ f.n \in Nat
        BY <2>2 DEF Flushing, IsName
      <4> QED  BY <1>1, <2>2, <4>1, <4>2, PileKinds DEF Piles, Counters
    <3>2. CASE ~MultiPass
      BY <2>2, <3>2, OutApart DEF Target, Piles
    <3> QED  BY <3>1, <3>2
  <2>4. \A f \in Piles : f \in DOMAIN disk => f \in DOMAIN disk' /\ disk'[f] = disk[f]
    BY <2>1, <2>3, Others
  <2>5. Piles \subseteq Piles'
    BY <2>1, <2>2 DEF Piles
  <2> QED  BY <1>2, <2>2, <2>4, <2>5
<1>12. CASE LastPass
  <2>1. disk' = Put(flush.out, Boards(flush.temps)) /\ UNCHANGED <<solveReg, runReg, pipe, job>>
        /\ flush.stage = "final" /\ Busy /\ Ready = {}
    BY <1>12 DEF LastPass, Busy, Ready
  <2>2. flush'.stage = "del" /\ flush'.temps = {} /\ flush'.out = flush.out
    BY <1>12, LastPassIs
  <2>3. Ready' = {flush.out} /\ Piles' = solveReg \cup runReg \cup {flush.out}
    BY <2>1, <2>2 DEF Ready, Piles
  <2>4. flush.out \in DOMAIN disk' /\ disk'[flush.out] = Boards(flush.temps)
    BY <2>1 DEF Put
  <2>5. In(x, flush.temps) => x \in Boards(flush.temps)
    BY DEF Boards
  <2>6. \A f \in solveReg \cup runReg : f \in DOMAIN disk => f \in DOMAIN disk'
        /\ disk'[f] = disk[f]
    BY <2>1, OutApart, Others
  <2> QED  BY <2>1, <2>3, <2>4, <2>5, <2>6 DEF Piles
<1>13. CASE DeleteSource
  <2>1. PICK f \in flush.left :
           /\ disk' = Without({f}) /\ flush'.srcs = flush.srcs /\ flush'.temps = flush.temps
           /\ flush'.out = flush.out
           /\ flush'.stage = IF flush.left \ {f} # {} THEN "del"
                             ELSE IF flush.srcs # {} THEN "pass"
                             ELSE IF flush.temps # {} THEN "final" ELSE "record"
    BY <1>13, DeleteSourceIs
  <2>2. UNCHANGED <<solveReg, runReg, pipe, job>> /\ flush.stage = "del" /\ Busy
    BY <1>13 DEF DeleteSource, Busy
  <2>3. Ready' = Ready
    BY <2>1, <2>2 DEF Ready, FlushStages
  <2>4. Piles' = Piles
    BY <2>1, <2>2, <2>3 DEF Piles
  <2>5. f \notin flush.temps \cup Ready
    BY <2>2, OutApart, PileKinds DEF Flushing
  <2>6. \A g \in DOMAIN disk : g # f => g \in DOMAIN disk' /\ disk'[g] = disk[g]
    BY <2>1 DEF Without
  <2>7. ASSUME f \in DOMAIN disk, x \in disk[f] PROVE In(x, flush.temps \cup Ready)
    BY <2>2, <2>7 DEF GoodInv, Covered
  <2>8. In(x, Piles) => \E g \in Piles : g \in DOMAIN disk /\ x \in disk[g] /\ g # f
    BY <2>5, <2>7 DEF Piles
  <2> QED  BY <2>2, <2>4, <2>6, <2>8
<1>14. CASE MergeFails
  <2>1. flush.temps = {} /\ Ready = {}
    BY <1>14 DEF MergeFails, Ready, Undisturbed
  <2>2. \A g \in DOMAIN disk : g \in DOMAIN disk' /\ disk'[g] = disk[g]
    BY <1>14, <2>1 DEF MergeFails, Without
  <2>3. UNCHANGED <<solveReg, runReg, pipe, job>>
    BY <1>14 DEF MergeFails
  <2> QED  BY <1>2, <2>1, <2>2, <2>3 DEF Piles
<1>15. CASE RecordFlush
  <2>1. /\ flush.stage = "record" /\ Busy /\ Ready = {flush.out} /\ UNCHANGED <<disk, pipe, job>>
        /\ flush.temps = {} /\ flush.srcs = {} /\ flush.left = {} /\ flush.out \in DOMAIN disk
    BY <1>15 DEF RecordFlush, durable, Busy, Ready, FlushStages
  <2>2. disk[flush.out] # {} => flush.out \in runReg'
    BY <1>15 DEF RecordFlush
  <2>3. x \in disk[flush.out] => Carried(x)'
    BY <2>1, <2>2 DEF Piles
  <2>4. CASE flush.dir = NAS
    <3>1. In(x, runReg) => In(x, {flush.out})
      BY <2>1, <2>4 DEF GoodInv, Collected
    <3>2. solveReg' = solveReg
      BY <1>15, <2>4 DEF RecordFlush
    <3> QED  BY <2>1, <2>3, <3>1, <3>2 DEF Piles
  <2>5. CASE flush.dir # NAS
    <3>1. \A f \in flush.snap : f \notin DOMAIN disk
      BY <2>1, <2>5 DEF GoodInv, Deleted
    <3>2. solveReg' = solveReg \ flush.snap /\ runReg \subseteq runReg'
      BY <1>15, <2>5 DEF RecordFlush
    <3> QED  BY <2>1, <2>3, <3>1, <3>2 DEF Piles
  <2> QED  BY <2>4, <2>5
<1>16. CASE CopyRun
  <2>1. disk' = Put(move.to, disk[move.from]) /\ UNCHANGED <<solveReg, runReg, flush, pipe, job>>
        /\ move.stage = "copy" /\ Moving
    BY <1>16 DEF CopyRun, Moving
  <2>2. move.to \notin Piles
    <3>1. move.to.kind = "run" /\ move.to \notin runReg
      BY <2>1 DEF Migrating, Own
    <3>2. move.to \notin Ready
      BY <2>1, PileKinds, OutApart
    <3> QED  BY <3>1, <3>2, PileKinds DEF Piles
  <2>3. \A f \in Piles : f \in DOMAIN disk => f \in DOMAIN disk' /\ disk'[f] = disk[f]
    BY <2>1, <2>2, Others
  <2> QED  BY <1>2, <2>1, <2>3 DEF Piles, Ready
<1>17. CASE UpdatePath
  <2>1. UNCHANGED <<disk, solveReg, flush, pipe, job>> /\ move.stage = "update"
    BY <1>17 DEF UpdatePath, durable
  <2>2. CASE move.from \in runReg
    <3>1. runReg' = (runReg \ {move.from}) \cup {move.to}
      BY <1>17, <2>2 DEF UpdatePath
    <3>2. move.to \in DOMAIN disk
          /\ (move.from \in DOMAIN disk => disk[move.to] = disk[move.from])
      BY <2>1 DEF Migrating
    <3> QED  BY <2>1, <3>1, <3>2 DEF Piles, Ready
  <2>3. CASE move.from \notin runReg
    BY <1>2, <1>17, <2>1, <2>3 DEF UpdatePath, Piles, Ready
  <2> QED  BY <2>2, <2>3
<1>18. CASE DeleteMoved
  <2>1. disk' = Without({move.from}) /\ UNCHANGED <<solveReg, runReg, flush, pipe, job>>
        /\ move.stage = "delete" /\ Moving
    BY <1>18 DEF DeleteMoved, Moving
  <2>2. move.from \notin Piles
    <3>1. move.from.kind = "run" /\ move.from \notin runReg
      BY <2>1 DEF Migrating, Own
    <3>2. move.from \notin Ready
      BY <2>1, PileKinds, OutApart
    <3> QED  BY <3>1, <3>2, PileKinds DEF Piles
  <2>3. \A f \in Piles : f \in DOMAIN disk => f \in DOMAIN disk' /\ disk'[f] = disk[f]
    BY <2>1, <2>2, Others
  <2> QED  BY <1>2, <2>1, <2>3 DEF Piles, Ready
<1>19. CASE Stop \/ PassOver \/ Solve \/ Resume \/ StopAfterSolve \/ MergeToPartitions
         \/ NothingToMerge \/ MergeStops
  BY <1>1, <1>19, DownIs DEF Stop, PassOver, Solve, Resume, Looping, At, StopAfterSolve,
      MergeToPartitions, NothingToMerge, MergeStops, Goto, Fields
<1>20. CASE DeleteMerged \/ MergeDone \/ FRSave \/ WriteConfig \/ Crash \/ Restart
  BY <1>1, <1>20, DownIs DEF DeleteMerged, MergeDone, FRSave, WriteConfig, Crash, Restart, At
<1> QED
  BY <1>3, <1>4, <1>5, <1>6, <1>7, <1>8, <1>9, <1>10, <1>11, <1>12, <1>13, <1>14, <1>15, <1>16,
      <1>17,
     <1>18, <1>19, <1>20
  DEF Next, MainStep, WriterStep, FlushStep, MoveStep, MonitorStep

-----------------------------------------------------------------------------
(* What a step does to the files.                                          *)

\* A file that a level writes for itself.
LevelsOwn(f) == f.kind = "tmp" \/ Own(f, {"solve", "run", "interim"})

\* A step writes one file or deletes some, and these are of the level.
LEMMA DiskTouch ==
  ASSUME HandInv, Merging, Next
  PROVE  \/ disk' = disk \/ MergeToPartitions \/ Restart
         \/ \E g, b : disk' = Put(g, b) /\ LevelsOwn(g)
         \/ \E files : disk' = Without(files) /\ \A g \in files : LevelsOwn(g)
<1> USE DEF HandInv, LevelsOwn
<1>1. CASE WriteHeader \/ WriteBoards
  BY <1>1 DEF WriteHeader, WriteBoards, Writing, Own
<1>2. CASE Pass
  <2>1. Busy /\ \E b : disk' = Put(Target, b)
    BY <1>2 DEF Pass, Busy
  <2>2. MultiPass => Target.kind = "tmp"
    BY DEF Target, Name
  <2>3. ~MultiPass => Own(Target, {"solve", "run", "interim"})
    BY <2>1 DEF Target, FlushFilesOwn, Own
  <2> QED  BY <2>1, <2>2, <2>3
<1>3. CASE LastPass
  BY <1>3 DEF LastPass, Busy, FlushFilesOwn, Own
<1>4. CASE DeleteSource
  <2>1. PICK f \in flush.left : disk' = Without({f})
    BY <1>4 DEF DeleteSource
  <2>2. Busy
    BY <1>4 DEF DeleteSource, Busy
  <2>3. LevelsOwn(f)
    BY <2>2 DEF Flushing, FlushFilesOwn, Own
  <2>4. \A g \in {f} : LevelsOwn(g)
    BY <2>3
  <2> QED  BY <2>1, <2>4
<1>5. CASE MergeFails
  <2>1. disk' = Without(flush.temps)
    BY <1>5 DEF MergeFails
  <2>2. \A g \in flush.temps : LevelsOwn(g)
    BY DEF Flushing, Resting
  <2> QED  BY <2>1, <2>2
<1>6. CASE CopyRun
  BY <1>6 DEF CopyRun, Migrating, Moving, Own
<1>7. CASE DeleteMoved
  <2>1. disk' = Without({move.from})
    BY <1>7 DEF DeleteMoved
  <2>2. \A g \in {move.from} : LevelsOwn(g)
    BY <1>7 DEF DeleteMoved, Migrating, Moving, Own
  <2> QED  BY <2>1, <2>2
<1>8. CASE MergeToPartitions
  BY <1>8
<1>9. CASE DeleteMerged
  <2>1. PICK f \in main.gone : disk' = Without({f})
    BY <1>9 DEF DeleteMerged
  <2>2. LevelsOwn(f)
    BY <1>9, <2>1 DEF DeleteMerged, Merging, Sources, Registered, Working, At, Own
  <2>3. \A g \in {f} : LevelsOwn(g)
    BY <2>2
  <2> QED  BY <2>1, <2>3
<1>10. CASE Restart
  BY <1>10
<1>11. CASE MainStep /\ ~MergeToPartitions /\ ~DeleteMerged
  BY <1>11 DEF MainStep, Stop, PassOver, Solve, Resume, ReadBatch, StartFlushBuffer,
      FinishSolve, JoinThreads,
    StopAfterSolve, ResumeFlush, Resumed, NothingToMerge, MergeStops, MergeDone, FRSave,
    WriteConfig, durable
<1>12. CASE Register \/ NoFlushNeeded \/ RecordFlush \/ CopyFails \/ UpdatePath
  BY <1>12 DEF Register, NoFlushNeeded, RecordFlush, CopyFails, UpdatePath, durable
<1>13. CASE MonitorStep \/ CtrlC \/ Crash
  BY <1>13 DEF MonitorStep, Collect, StartMove, StartFlush, CtrlC, Crash, durable
<1> QED
  BY <1>1, <1>2, <1>3, <1>4, <1>5, <1>6, <1>7, <1>8, <1>9, <1>10, <1>11, <1>12, <1>13
  DEF Next, WriterStep, FlushStep, MoveStep

\* A file is there after the step if it was before, and holds the same boards.
Same(f) == /\ f \in DOMAIN disk <=> f \in DOMAIN disk'
           /\ f \in DOMAIN disk => disk'[f] = disk[f]

\* What is not of the level, or is a merged level or the seed, stays as it is.
LEMMA ElsewhereSame ==
  ASSUME HandInv, Merging, Next, NEW f, f.kind \in {"solve", "run", "interim", "merge", "seed"},
         f.kind \in {"solve", "run", "interim"} => f.level # Level,
         MergeToPartitions => f # MergeFile(Level),
         f = Seed => Seed \in DOMAIN disk /\ disk[Seed] = {Root}
  PROVE  Same(f)
<1> USE DEF LevelsOwn, Own, Same
<1>1. CASE disk' = disk
  BY <1>1
<1>2. CASE MergeToPartitions
  BY <1>2 DEF MergeToPartitions, Put
<1>3. CASE Restart
  BY <1>3 DEF Restart, Put
<1>4. ASSUME NEW g, NEW b, disk' = Put(g, b), LevelsOwn(g) PROVE Same(f)
  <2>1. f # g
    BY <1>4
  <2> QED  BY <1>4, <2>1 DEF Put
<1>5. ASSUME NEW files, disk' = Without(files), \A g \in files : LevelsOwn(g) PROVE Same(f)
  <2>1. f \notin files
    BY <1>5
  <2> QED  BY <1>5, <2>1 DEF Without
<1>6. disk' = disk \/ MergeToPartitions \/ Restart
      \/ (\E g, b : disk' = Put(g, b) /\ LevelsOwn(g))
      \/ \E files : disk' = Without(files) /\ \A g \in files : LevelsOwn(g)
  BY DiskTouch
<1> QED  BY <1>1, <1>2, <1>3, <1>4, <1>5, <1>6

\* Outside the solve phase and a resumed flush the main thread is alone.
LEMMA OthersIdle ==
  ASSUME HandInv, main.pc \notin {"solve", "drain", "resume"}
  PROVE  /\ ~Busy /\ Resting /\ Ready = {} /\ flush.stage = "idle" /\ ~Moving /\ job = NoJob
         /\ pipe.todo = {} /\ pipe.acc = {} /\ ~pipe.partial
<1> QED
  BY FieldsOf DEF HandInv, Alone, Busy, Ready, Flushing, Moving, Reading, At, Solving

\* Steps that leave the flush and the files it works on as they are.
LEMMA FlushApart ==
  ASSUME HandInv, Busy, WriteHeader \/ WriteBoards \/ CopyRun
  PROVE  \E g, b : /\ disk' = Put(g, b) /\ UNCHANGED <<flush, solveReg, runReg>>
                   /\ g \notin flush.snap \cup flush.left \cup flush.temps \cup Ready
                      \cup solveReg \cup runReg
                   /\ CopyRun => g = move.to /\ b = disk[move.from] /\ move.from \in DOMAIN disk
                   /\ ~CopyRun => g.kind = "solve"
<1> USE DEF HandInv
<1>1. main.pc \in {"solve", "drain", "resume", "merge"}
  BY DEF Flushing
<1>2. CASE WriteHeader \/ WriteBoards
  <2>1. UNCHANGED <<flush, solveReg, runReg, move>> /\ job # NoJob
        /\ \E b : disk' = Put(job.file, b)
    BY <1>2 DEF WriteHeader, WriteBoards
  <2>2. job.file.kind = "solve" /\ job.file \notin solveReg \cup flush.snap
    BY <2>1 DEF Writing, Own
  <2>3. job.file \notin flush.left \cup flush.temps \cup Ready \cup runReg
    BY <2>2, <1>1, PileKinds DEF Flushing
  <2>4. ~CopyRun
    <3>1. CopyRun => move'.stage = "update" /\ move.stage = "copy"
      BY FieldsOf DEF CopyRun, Fields
    <3> QED  BY <2>1, <3>1
  <2> QED  BY <2>1, <2>2, <2>3, <2>4
<1>3. CASE CopyRun
  <2>1. disk' = Put(move.to, disk[move.from]) /\ UNCHANGED <<flush, solveReg, runReg>>
        /\ move.stage = "copy" /\ Moving /\ move.from \in DOMAIN disk
    BY <1>3 DEF CopyRun, Moving
  <2>2. move.to.kind = "run" /\ move.to \notin runReg \cup flush.snap
    BY <2>1 DEF Migrating, Own
  <2>3. move.to \notin Ready
    BY <1>1, <2>1, OutApart, PileKinds
  <2>4. move.to \notin flush.left \cup flush.temps \cup solveReg
    BY <2>2, <1>1, PileKinds DEF Flushing
  <2> QED  BY <1>3, <2>1, <2>2, <2>3, <2>4
<1> QED  BY <1>2, <1>3

\* The file a migration deletes is none that a merge has written.
LEMMA DeleteMovedApart ==
  ASSUME HandInv, DeleteMoved
  PROVE  /\ disk' = Without({move.from}) /\ UNCHANGED <<flush, solveReg, runReg, main, job, pipe>>
         /\ move'.stage = "idle" /\ move.from.kind = "run"
         /\ move.from \notin flush.temps \cup Ready \cup solveReg \cup runReg
<1> USE DEF HandInv
<1>1. disk' = Without({move.from}) /\ UNCHANGED <<flush, solveReg, runReg, main, job, pipe>>
      /\ move.stage = "delete" /\ Moving /\ move'.stage = "idle"
  BY DEF DeleteMoved, Moving, Still
<1>2. move.from.kind = "run" /\ move.from \notin runReg /\ Solving
  BY <1>1 DEF Migrating, Own
<1>3. main.pc \in {"solve", "drain", "resume", "merge"}
  BY <1>2 DEF Solving
<1>4. move.from \notin Ready
  BY <1>1, <1>3, PileKinds, OutApart
<1> QED  BY <1>1, <1>2, <1>3, <1>4, PileKinds

\* What the other steps do to a merge in hand.
LEMMA FlushGoesOn ==
  ASSUME HandInv, Next, Busy', ~Pass, ~LastPass, ~DeleteSource, ~WriteHeader, ~WriteBoards,
         ~CopyRun, ~DeleteMoved
  PROVE  \/ Busy /\ UNCHANGED <<flush, disk>>
         \/ /\ ~Busy /\ UNCHANGED <<disk, solveReg, runReg, move>> /\ flush'.stage = "pass"
            /\ flush'.srcs = flush'.snap /\ flush'.temps = {} /\ flush'.left = {}
            /\ \/ Collect /\ flush'.dir = NAS /\ flush'.snap = runReg
               \/ flush'.dir # NAS /\ flush'.snap \subseteq solveReg
<1> USE DEF HandInv
<1>1. Fields
  BY FieldsOf
<1>2. ~Down
  BY DownIs DEF Busy, Idle
<1>3. CASE Stop \/ StopAfterSolve \/ MergeStops \/ Crash
  BY <1>2, <1>3 DEF Stop, StopAfterSolve, MergeStops, Crash
<1>4. CASE PassOver \/ Solve \/ Resume \/ MergeToPartitions \/ NothingToMerge \/ DeleteMerged
        \/ MergeDone
  <2>1. flush' = flush /\ main.pc \notin {"solve", "drain", "resume"}
    BY <1>2, <1>4 DEF PassOver, Solve, Resume, MergeToPartitions, NothingToMerge, DeleteMerged,
        MergeDone, At, Looping
  <2> QED  BY <2>1, OthersIdle DEF Busy
<1>5. CASE FRSave \/ WriteConfig \/ Restart
  <2>1. flush' = flush /\ main.pc \notin {"solve", "drain", "resume"}
    BY <1>5 DEF FRSave, WriteConfig, Restart, At
  <2> QED  BY <2>1, OthersIdle DEF Busy
<1>6. CASE ReadBatch \/ StartFlushBuffer \/ FinishSolve \/ JoinThreads \/ Resumed \/ CtrlC
  BY <1>6 DEF ReadBatch, StartFlushBuffer, FinishSolve, JoinThreads, Resumed, CtrlC, durable,
      Busy
<1>7. CASE Register \/ StartMove \/ CopyFails \/ UpdatePath
  BY <1>7 DEF Register, StartMove, CopyFails, UpdatePath, durable, Busy
<1>8. CASE NoFlushNeeded \/ MergeFails \/ RecordFlush
  <2>1. flush'.stage \in {"idle", "collected"}
    BY <1>8, AfterFlushIs DEF NoFlushNeeded, MergeFails, RecordFlush, Idle
  <2> QED  BY <2>1 DEF Busy
<1>9. CASE Collect
  <2>1. ~Busy /\ UNCHANGED <<disk, solveReg, runReg, move>>
    BY <1>9 DEF Collect, Busy, durable
  <2>2. /\ flush'.stage = "pass" /\ flush'.dir = NAS /\ flush'.snap = runReg
        /\ flush'.srcs = flush'.snap /\ flush'.temps = {} /\ flush'.left = {}
    BY <1>9, CollectIs
  <2> QED  BY <1>9, <2>1, <2>2
<1>10. ASSUME NEW d \in Fast, NEW to, FlushNvmeDir(d, to),
              UNCHANGED <<disk, solveReg, runReg, move>>, ~Busy
      PROVE  /\ ~Busy /\ UNCHANGED <<disk, solveReg, runReg, move>> /\ flush'.stage = "pass"
             /\ flush'.srcs = flush'.snap /\ flush'.temps = {} /\ flush'.left = {}
             /\ flush'.dir # NAS /\ flush'.snap \subseteq solveReg
  BY <1>10, FlushNvmeDirIs, FastDirs DEF FlushFiles
<1>11. CASE ResumeFlush
  <2>1. CASE UNCHANGED flush
    BY <1>11, <2>1 DEF ResumeFlush, durable, Busy
  <2>2. ASSUME NEW to, FlushNvmeDir(main.turn, to) PROVE \E d \in Fast : FlushNvmeDir(d, to)
    <3>1. main.turn \in Fast
      BY <1>11, TurnFast DEF ResumeFlush, Shapes
    <3> QED  BY <2>2, <3>1
  <2>3. ~Busy /\ UNCHANGED <<disk, solveReg, runReg, move>>
    BY <1>11 DEF ResumeFlush, durable, Busy
  <2> QED  BY <1>10, <1>11, <2>1, <2>2, <2>3 DEF ResumeFlush
<1>12. ASSUME NEW d \in Fast, StartFlush(d)
       PROVE  /\ ~Busy /\ UNCHANGED <<disk, solveReg, runReg, move>> /\ flush'.stage = "pass"
              /\ flush'.srcs = flush'.snap /\ flush'.temps = {} /\ flush'.left = {}
              /\ flush'.dir # NAS /\ flush'.snap \subseteq solveReg
  <2>1. ~Busy /\ UNCHANGED <<disk, solveReg, runReg, move>>
    BY <1>12 DEF StartFlush, durable, Busy
  <2> QED  BY <1>10, <1>12, <2>1 DEF StartFlush
<1> QED
  BY <1>3, <1>4, <1>5, <1>6, <1>7, <1>8, <1>9, <1>11, <1>12
  DEF Next, MainStep, WriterStep, FlushStep, MoveStep, MonitorStep

\* What a merge step does to the disk and to the merge, in one place.
LEMMA PassApart ==
  ASSUME HandInv, Pass
  PROVE  /\ Busy /\ Ready = {} /\ flush.left = {}
            /\ UNCHANGED <<main, solveReg, runReg, move, job, pipe>>
         /\ Target \notin flush.snap \cup flush.srcs \cup flush.temps \cup solveReg \cup runReg
         /\ Moving => Target # move.to /\ Target # move.from
         /\ MultiPass => Target.kind = "tmp"
         /\ ~MultiPass => Target = flush.out
<1> USE DEF HandInv
<1>1. Busy /\ Ready = {} /\ flush.left = {}
      /\ UNCHANGED <<main, solveReg, runReg, move, job, pipe>>
  BY DEF Pass, Busy, Ready, FlushStages
<1>2. main.pc \in {"solve", "drain", "resume", "merge"}
  BY <1>1 DEF Flushing
<1>3. CASE MultiPass
  <2>1. Target.kind = "tmp" /\ Target.n = seq.tmp
    BY <1>3, NamesAre DEF Target, Counters, Shapes
  <2>2. \A f \in flush.temps : f.n < seq.tmp /\ f.n \in Nat
    BY <1>1 DEF Flushing, IsName
  <2>3. Target \notin flush.temps
    BY <2>1, <2>2 DEF Shapes, Counters
  <2>4. \A f \in flush.snap : f.kind # "tmp"
    BY <1>1 DEF FlushFilesOwn, Own
  <2>5. Moving => move.from.kind = "run" /\ move.to.kind = "run"
    BY DEF Migrating, Own
  <2>6. flush.srcs \subseteq flush.snap
    BY <1>1 DEF Flushing
  <2> QED  BY <1>1, <1>2, <1>3, <2>1, <2>3, <2>4, <2>5, <2>6, PileKinds
<1>4. CASE ~MultiPass
  <2>1. flush.srcs \subseteq flush.snap
    BY <1>1 DEF Flushing
  <2> QED  BY <1>1, <1>4, <2>1, OutApart DEF Target
<1> QED  BY <1>3, <1>4

\* The pass over the temporary files makes the output ready.
LEMMA LastPassApart ==
  ASSUME HandInv, LastPass
  PROVE  /\ Busy /\ Ready = {} /\ flush.left = {} /\ flush.srcs = {}
         /\ UNCHANGED <<main, solveReg, runReg, move, job, pipe>>
         /\ disk' = Put(flush.out, Boards(flush.temps)) /\ Ready' = {flush.out}
<1> USE DEF HandInv
<1>1. /\ Busy /\ Ready = {} /\ flush.left = {} /\ flush.srcs = {}
      /\ UNCHANGED <<main, solveReg, runReg, move, job, pipe>>
      /\ disk' = Put(flush.out, Boards(flush.temps))
  BY DEF LastPass, Busy, Ready, FlushStages
<1> QED  BY <1>1, LastPassIs DEF Ready

\* A source deleted is one the merge has read, and none of its own files.
LEMMA DeleteApart ==
  ASSUME HandInv, DeleteSource
  PROVE  /\ Busy /\ flush.stage = "del" /\ Ready' = Ready
            /\ UNCHANGED <<main, solveReg, runReg, move, job, pipe>>
         /\ \A f \in flush.left : f \notin flush.srcs \cup flush.temps \cup Ready
<1> USE DEF HandInv
<1>1. Busy /\ flush.stage = "del" /\ UNCHANGED <<main, solveReg, runReg, move, job, pipe>>
  BY DEF DeleteSource, Busy
<1>2. Ready' = Ready
  BY <1>1, DeleteSourceIs DEF Ready, FlushStages
<1>3. main.pc \in {"solve", "drain", "resume", "merge"}
  BY <1>1 DEF Flushing
<1>4. \A f \in flush.left : f \notin flush.srcs \cup flush.temps
  BY <1>1 DEF Flushing
<1>5. \A f \in flush.left : f \notin Ready
  BY <1>1, <1>3, OutApart, PileKinds
<1> QED  BY <1>1, <1>2, <1>4, <1>5

-----------------------------------------------------------------------------
(* Every step keeps what no thread may lose.                               *)

\* What a flush has read it has deleted or will delete.
LEMMA DeletedStep ==
  ASSUME HandInv, Deleted, Next PROVE Deleted'
<1> USE DEF HandInv, Deleted
<1> SUFFICES ASSUME Busy', flush'.dir # NAS, NEW f \in flush'.snap, f \in DOMAIN disk'
             PROVE  f \in flush'.srcs \cup flush'.left
  OBVIOUS
<1>1. ASSUME Busy, flush' = flush, f \in DOMAIN disk PROVE f \in flush'.srcs \cup flush'.left
  BY <1>1
<1>2. CASE Pass
  <2>1. PICK batch \in SUBSET flush.srcs :
           /\ disk' = Put(Target, Boards(batch))
           /\ flush'.left = batch /\ flush'.srcs = flush.srcs \ batch
           /\ flush'.snap = flush.snap /\ flush'.dir = flush.dir
    BY <1>2, PassIs
  <2>2. Busy /\ flush.left = {} /\ Target \notin flush.snap
    BY <1>2, PassApart
  <2>3. f \in DOMAIN disk
    BY <2>1, <2>2 DEF Put
  <2> QED  BY <2>1, <2>2, <2>3
<1>3. CASE LastPass
  <2>1. f \in DOMAIN disk
    <3>1. f \in flush.snap /\ flush.out \notin flush.snap
      BY <1>3, LastPassIs, LastPassApart, OutApart
    <3>2. disk' = Put(flush.out, Boards(flush.temps))
      BY <1>3, LastPassApart
    <3> QED  BY <3>1, <3>2 DEF Put
  <2> QED  BY <1>3, <2>1, LastPassIs, LastPassApart
<1>4. CASE DeleteSource
  <2>1. PICK g \in flush.left :
           /\ disk' = Without({g}) /\ flush'.left = flush.left \ {g}
           /\ flush'.srcs = flush.srcs /\ flush'.snap = flush.snap /\ flush'.dir = flush.dir
    BY <1>4, DeleteSourceIs
  <2>2. f \in DOMAIN disk /\ f # g
    BY <2>1, WithoutDomain
  <2> QED  BY <1>4, <2>1, <2>2, DeleteApart
<1>5. CASE WriteHeader \/ WriteBoards \/ CopyRun
  <2>1. flush' = flush
    BY <1>5 DEF WriteHeader, WriteBoards, CopyRun
  <2>2. Busy
    BY <2>1 DEF Busy
  <2>3. PICK g, b : disk' = Put(g, b) /\ g \notin flush.snap
    BY <1>5, <2>2, FlushApart
  <2>4. f \in DOMAIN disk
    BY <2>1, <2>3 DEF Put
  <2> QED  BY <1>1, <2>1, <2>2, <2>4
<1>6. CASE DeleteMoved
  <2>1. flush' = flush /\ f \in DOMAIN disk
    BY <1>6, WithoutDomain DEF DeleteMoved
  <2> QED  BY <1>1, <2>1 DEF Busy
<1>7. CASE ~(\/ Pass \/ LastPass \/ DeleteSource
             \/ WriteHeader \/ WriteBoards \/ CopyRun \/ DeleteMoved)
  <2>1. ASSUME Busy, UNCHANGED <<flush, disk>> PROVE f \in flush'.srcs \cup flush'.left
    BY <1>1, <2>1
  <2>2. (Busy /\ UNCHANGED <<flush, disk>>) \/ flush'.srcs = flush'.snap
    BY <1>7, FlushGoesOn
  <2> QED  BY <2>1, <2>2
<1> QED  BY <1>2, <1>3, <1>4, <1>5, <1>6, <1>7

\* What a merge has to delete is in its own files.
LEMMA CoveredStep ==
  ASSUME HandInv, Covered, Next PROVE Covered'
<1> USE DEF HandInv, Covered, In
<1> SUFFICES ASSUME Busy', NEW f \in flush'.left, f \in DOMAIN disk', NEW x \in disk'[f]
             PROVE  In(x, flush.temps \cup Ready)'
  OBVIOUS
<1>1. CASE Pass
  <2>1. PICK batch \in SUBSET flush.srcs :
           /\ batch \subseteq DOMAIN disk /\ (~MultiPass => batch = flush.srcs)
           /\ disk' = Put(Target, Boards(batch)) /\ flush'.stage = "del"
           /\ flush'.left = batch /\ flush'.srcs = flush.srcs \ batch
           /\ flush'.temps = flush.temps \cup (IF MultiPass THEN {Target} ELSE {})
           /\ flush'.out = flush.out
    BY <1>1, PassIs
  <2>2. Busy /\ Target \notin flush.srcs
    BY <1>1, PassApart
  <2>3. x \in disk[f] /\ f \in batch /\ f \in DOMAIN disk
    BY <2>1, <2>2 DEF Put
  <2>4. Target \in DOMAIN disk' /\ disk'[Target] = Boards(batch)
    BY <2>1 DEF Put
  <2>5. x \in disk'[Target]
    BY <2>3, <2>4 DEF Boards
  <2>6. CASE MultiPass
    BY <2>1, <2>4, <2>5, <2>6
  <2>7. CASE ~MultiPass
    <3>1. flush.temps = {} /\ Target = flush.out
      BY <1>1, <2>2, <2>7, PassApart DEF Flushing
    <3>2. Ready' = {flush.out}
      BY <2>1, <2>7, <3>1 DEF Ready
    <3> QED  BY <2>4, <2>5, <3>1, <3>2
  <2> QED  BY <2>6, <2>7
<1>2. CASE LastPass
  <2>1. disk' = Put(flush.out, Boards(flush.temps)) /\ Ready' = {flush.out} /\ f \in flush.temps
    BY <1>2, LastPassApart, LastPassIs
  <2>2. f # flush.out
    BY <1>2, <2>1, LastPassApart, OutApart
  <2>3. f \in DOMAIN disk /\ x \in disk[f]
    BY <2>1, <2>2 DEF Put
  <2>4. x \in Boards(flush.temps)
    BY <2>1, <2>3 DEF Boards
  <2>5. flush.out \in DOMAIN disk' /\ x \in disk'[flush.out]
    BY <2>1, <2>4 DEF Put
  <2> QED  BY <2>1, <2>5
<1>3. CASE DeleteSource
  <2>1. PICK g \in flush.left :
           disk' = Without({g}) /\ flush'.left = flush.left \ {g} /\ flush'.temps = flush.temps
    BY <1>3, DeleteSourceIs
  <2>2. f \in DOMAIN disk /\ f \in flush.left /\ x \in disk[f]
    BY <2>1 DEF Without
  <2>3. Busy /\ Ready' = Ready /\ g \notin flush.temps \cup Ready
    BY <1>3, DeleteApart
  <2>4. PICK h \in flush.temps \cup Ready : h \in DOMAIN disk /\ x \in disk[h]
    BY <2>2, <2>3
  <2>5. h \in DOMAIN disk' /\ x \in disk'[h]
    BY <2>1, <2>3, <2>4 DEF Without
  <2> QED  BY <2>1, <2>3, <2>4, <2>5
<1>4. CASE WriteHeader \/ WriteBoards \/ CopyRun
  <2>1. flush' = flush
    BY <1>4 DEF WriteHeader, WriteBoards, CopyRun
  <2>2. Busy /\ Ready' = Ready
    BY <2>1 DEF Busy, Ready
  <2>3. PICK g, b : disk' = Put(g, b) /\ g \notin flush.left \cup flush.temps \cup Ready
    BY <1>4, <2>2, FlushApart
  <2>4. f \in DOMAIN disk /\ f \in flush.left /\ x \in disk[f]
    BY <2>1, <2>3 DEF Put
  <2>5. PICK h \in flush.temps \cup Ready : h \in DOMAIN disk /\ x \in disk[h]
    BY <2>2, <2>4
  <2>6. h \in DOMAIN disk' /\ x \in disk'[h]
    BY <2>3, <2>5 DEF Put
  <2> QED  BY <2>1, <2>2, <2>5, <2>6
<1>5. CASE DeleteMoved
  <2>1. flush' = flush /\ disk' = Without({move.from}) /\ move.from \notin flush.temps \cup Ready
    BY <1>5, DeleteMovedApart
  <2>2. Busy /\ Ready' = Ready
    BY <2>1 DEF Busy, Ready
  <2>3. f \in DOMAIN disk /\ f \in flush.left /\ x \in disk[f]
    BY <2>1 DEF Without
  <2>4. PICK h \in flush.temps \cup Ready : h \in DOMAIN disk /\ x \in disk[h]
    BY <2>2, <2>3
  <2>5. h \in DOMAIN disk' /\ x \in disk'[h]
    BY <2>1, <2>4 DEF Without
  <2> QED  BY <2>1, <2>2, <2>4, <2>5
<1>6. CASE ~(\/ Pass \/ LastPass \/ DeleteSource
             \/ WriteHeader \/ WriteBoards \/ CopyRun \/ DeleteMoved)
  <2>1. (Busy /\ UNCHANGED <<flush, disk>>) \/ flush'.left = {}
    BY <1>6, FlushGoesOn
  <2>2. CASE Busy /\ UNCHANGED <<flush, disk>>
    BY <2>2 DEF Ready
  <2> QED  BY <2>1, <2>2
<1> QED  BY <1>1, <1>2, <1>3, <1>4, <1>5, <1>6

Gathered(x) == In(x, flush.srcs \cup flush.temps \cup Ready)

\* What a collection replaces is in what it has read or will read.
LEMMA CollectedStep ==
  ASSUME HandInv, Collected, Next PROVE Collected'
<1> USE DEF HandInv, In, Gathered
<1> SUFFICES ASSUME Busy', flush'.dir = NAS, flush'.srcs \subseteq DOMAIN disk', NEW x,
                    \/ In(x, runReg)'
                    \/ move'.stage = "update" /\ move'.from \in runReg' /\ In(x, {move.to})'
             PROVE  Gathered(x)'
  BY DEF Collected
<1>1. ASSUME Busy, flush.dir = NAS, flush.srcs \subseteq DOMAIN disk,
             \/ In(x, runReg)
             \/ move.stage = "update" /\ move.from \in runReg /\ In(x, {move.to})
      PROVE  Gathered(x)
  BY <1>1 DEF Collected
<1>2. Fields
  BY FieldsOf
<1>3. CASE Pass
  <2>1. PICK batch \in SUBSET flush.srcs :
           /\ batch \subseteq DOMAIN disk /\ (~MultiPass => batch = flush.srcs)
           /\ disk' = Put(Target, Boards(batch)) /\ flush'.stage = "del"
           /\ flush'.srcs = flush.srcs \ batch
           /\ flush'.temps = flush.temps \cup (IF MultiPass THEN {Target} ELSE {})
           /\ flush'.out = flush.out /\ flush'.dir = flush.dir
    BY <1>3, PassIs
  <2>2. /\ Busy /\ Ready = {} /\ UNCHANGED <<runReg, move>>
        /\ Target \notin flush.srcs \cup flush.temps \cup runReg
        /\ (Moving => Target # move.to) /\ (~MultiPass => Target = flush.out)
    BY <1>3, PassApart
  <2>3. flush.srcs \subseteq DOMAIN disk
    BY <2>1, <2>2 DEF Put
  <2>4. \A g \in runReg : g \in DOMAIN disk' => g \in DOMAIN disk /\ disk'[g] = disk[g]
    BY <2>1, <2>2 DEF Put
  <2>5. Moving /\ move.to \in DOMAIN disk' => move.to \in DOMAIN disk
        /\ disk'[move.to] = disk[move.to]
    BY <2>1, <2>2 DEF Put
  <2>6. Gathered(x)
    BY <1>1, <2>1, <2>2, <2>3, <2>4, <2>5 DEF Moving
  <2>7. PICK g \in flush.srcs \cup flush.temps : g \in DOMAIN disk /\ x \in disk[g]
    BY <2>2, <2>6
  <2>8. Target \in DOMAIN disk' /\ disk'[Target] = Boards(batch)
    BY <2>1 DEF Put
  <2>9. Target \in flush'.temps \cup Ready'
    <3>1. CASE MultiPass
      BY <2>1, <3>1
    <3>2. CASE ~MultiPass
      <4>1. flush.temps = {}
        BY <2>2, <3>2 DEF Flushing
      <4> QED  BY <2>1, <2>2, <3>2, <4>1 DEF Ready
    <3> QED  BY <3>1, <3>2
  <2>10. CASE g \in batch
    <3>1. x \in disk'[Target]
      BY <2>7, <2>8, <2>10 DEF Boards
    <3> QED  BY <2>8, <2>9, <3>1
  <2>11. CASE g \notin batch
    <3>1. g \in flush'.srcs \cup flush'.temps
      BY <2>1, <2>7, <2>11
    <3>2. g \in DOMAIN disk' /\ disk'[g] = disk[g]
      BY <2>1, <2>2, <2>7 DEF Put
    <3> QED  BY <2>7, <3>1, <3>2
  <2> QED  BY <2>10, <2>11
<1>4. CASE LastPass
  <2>1. /\ Busy /\ Ready = {} /\ flush.srcs = {} /\ UNCHANGED <<runReg, move>>
        /\ disk' = Put(flush.out, Boards(flush.temps)) /\ Ready' = {flush.out}
    BY <1>4, LastPassApart
  <2>2. flush.out \notin runReg /\ (Moving => flush.out # move.to) /\ flush'.dir = flush.dir
    BY <1>4, <2>1, OutApart, LastPassIs
  <2>3. \A g \in runReg : g \in DOMAIN disk' => g \in DOMAIN disk /\ disk'[g] = disk[g]
    BY <2>1, <2>2 DEF Put
  <2>4. Moving /\ move.to \in DOMAIN disk' => move.to \in DOMAIN disk
        /\ disk'[move.to] = disk[move.to]
    BY <2>1, <2>2 DEF Put
  <2>5. Gathered(x)
    BY <1>1, <2>1, <2>2, <2>3, <2>4 DEF Moving
  <2>6. x \in Boards(flush.temps)
    BY <2>1, <2>5 DEF Boards
  <2>7. flush.out \in DOMAIN disk' /\ x \in disk'[flush.out]
    BY <2>1, <2>6 DEF Put
  <2> QED  BY <2>1, <2>7
<1>5. CASE DeleteSource
  <2>1. PICK g \in flush.left :
           /\ disk' = Without({g}) /\ flush'.temps = flush.temps
           /\ flush'.srcs = flush.srcs /\ flush'.dir = flush.dir
    BY <1>5, DeleteSourceIs
  <2>2. /\ Busy /\ Ready' = Ready /\ UNCHANGED <<runReg, move>>
        /\ g \notin flush.srcs \cup flush.temps \cup Ready
    BY <1>5, DeleteApart
  <2>3. \A h : h \in DOMAIN disk' => h \in DOMAIN disk /\ disk'[h] = disk[h]
    BY <2>1 DEF Without
  <2>4. Gathered(x)
    BY <1>1, <2>1, <2>2, <2>3
  <2>5. \A h \in DOMAIN disk : h # g => h \in DOMAIN disk' /\ disk'[h] = disk[h]
    BY <2>1 DEF Without
  <2> QED  BY <2>1, <2>2, <2>4, <2>5
<1>6. CASE WriteHeader \/ WriteBoards
  <2>1. flush' = flush /\ move' = move
    BY <1>6 DEF WriteHeader, WriteBoards
  <2>2. Busy /\ Ready' = Ready
    BY <2>1 DEF Busy, Ready
  <2>3. ~CopyRun
    <3>1. CopyRun => move'.stage = "update" /\ move.stage = "copy"
      BY <1>2 DEF CopyRun, Fields
    <3> QED  BY <2>1, <3>1
  <2>4. PICK g, b : /\ disk' = Put(g, b)
                    /\ g \notin flush.snap \cup flush.temps \cup Ready \cup runReg
                    /\ runReg' = runReg /\ g.kind = "solve"
    BY <1>6, <2>2, <2>3, FlushApart
  <2>5. move.stage = "update" => move.to.kind = "run"
    BY DEF Migrating, Moving, Own
  <2>6. flush.srcs \subseteq flush.snap
    BY <2>2 DEF Flushing
  <2>7. \A h : h # g /\ h \in DOMAIN disk' => h \in DOMAIN disk /\ disk'[h] = disk[h]
    BY <2>4 DEF Put
  <2>8. Gathered(x)
    BY <1>1, <2>1, <2>2, <2>4, <2>5, <2>6, <2>7
  <2>9. \A h \in DOMAIN disk : h # g => h \in DOMAIN disk' /\ disk'[h] = disk[h]
    BY <2>4 DEF Put
  <2> QED  BY <2>1, <2>2, <2>4, <2>6, <2>8, <2>9
<1>7. CASE CopyRun
  <2>1. flush' = flush
    BY <1>7 DEF CopyRun
  <2>2. Busy /\ Ready' = Ready
    BY <2>1 DEF Busy, Ready
  <2>3. \E g, b : /\ disk' = Put(g, b) /\ runReg' = runReg
                    /\ g \notin flush.snap \cup flush.temps \cup Ready \cup runReg
                    /\ g = move.to /\ b = disk[move.from] /\ move.from \in DOMAIN disk
    BY <1>7, <2>2, FlushApart
  <2>4. /\ disk' = Put(move.to, disk[move.from]) /\ runReg' = runReg /\ move.from \in DOMAIN disk
        /\ move.to \notin flush.snap \cup flush.temps \cup Ready \cup runReg
    BY <2>3
  <2>5. flush.srcs \subseteq flush.snap
    BY <2>2 DEF Flushing
  <2>6. \A h : h # move.to /\ h \in DOMAIN disk' => h \in DOMAIN disk /\ disk'[h] = disk[h]
    BY <2>4 DEF Put
  <2>7. move'.from = move.from /\ move'.to = move.to
    BY <1>2, <1>7 DEF CopyRun, Fields
  <2>8. disk'[move.to] = disk[move.from]
    BY <2>4 DEF Put
  <2>9. In(x, runReg)
    <3>1. CASE In(x, runReg)'
      BY <2>4, <2>6, <3>1
    <3>2. CASE move'.from \in runReg' /\ In(x, {move.to})'
      BY <2>4, <2>7, <2>8, <3>2
    <3> QED  BY <3>1, <3>2
  <2>10. Gathered(x)
    BY <1>1, <2>1, <2>2, <2>4, <2>5, <2>6, <2>9
  <2>11. \A h \in DOMAIN disk : h # move.to => h \in DOMAIN disk' /\ disk'[h] = disk[h]
    BY <2>4 DEF Put
  <2> QED  BY <2>1, <2>2, <2>4, <2>5, <2>10, <2>11
<1>8. CASE DeleteMoved
  <2>1. /\ flush' = flush /\ disk' = Without({move.from}) /\ runReg' = runReg
           /\ move'.stage = "idle"
        /\ move.from \notin flush.temps \cup Ready
    BY <1>8, DeleteMovedApart
  <2>2. Busy /\ Ready' = Ready
    BY <2>1 DEF Busy, Ready
  <2>3. \A h : h \in DOMAIN disk' => h \in DOMAIN disk /\ disk'[h] = disk[h] /\ h # move.from
    BY <2>1 DEF Without
  <2>4. move.from \notin flush.srcs
    BY <2>1, <2>3
  <2>5. Gathered(x)
    BY <1>1, <2>1, <2>2, <2>3
  <2>6. \A h \in DOMAIN disk : h # move.from => h \in DOMAIN disk' /\ disk'[h] = disk[h]
    BY <2>1 DEF Without
  <2> QED  BY <2>1, <2>2, <2>4, <2>5, <2>6
<1>9. CASE UpdatePath
  <2>1. UNCHANGED <<disk, flush>> /\ move.stage = "update" /\ move'.stage = "delete"
    BY <1>2, <1>9 DEF UpdatePath, durable, Fields
  <2>2. Busy /\ Ready' = Ready
    BY <2>1 DEF Busy, Ready
  <2>3. In(x, runReg)'
    BY <2>1
  <2>4. runReg' = IF move.from \in runReg THEN (runReg \ {move.from}) \cup {move.to} ELSE runReg
    BY <1>9 DEF UpdatePath
  <2>5. Gathered(x)
    BY <1>1, <2>1, <2>2, <2>3, <2>4
  <2> QED  BY <2>1, <2>2, <2>5
<1>10. CASE StartMove
  <2>1. UNCHANGED flush /\ (flush.stage = "idle" \/ flush.dir # NAS)
    BY <1>10 DEF StartMove
  <2> QED  BY <2>1 DEF Busy
<1>11. CASE ~(\/ Pass \/ LastPass \/ DeleteSource
              \/ WriteHeader \/ WriteBoards \/ CopyRun \/ DeleteMoved
              \/ UpdatePath \/ StartMove)
  <2>1. CASE Busy /\ UNCHANGED <<flush, disk>>
    <3>1. CopyFails => move'.stage = "idle" /\ runReg' = runReg
      BY DEF CopyFails, Still
    <3>2. main.pc \in {"solve", "drain", "resume"}
      BY <2>1 DEF Flushing
    <3>3. runReg' = runReg /\ (move' = move \/ move'.stage = "idle")
      <4>1. Down => ~Busy'
        BY DownIs DEF Busy, Idle
      <4>2. CASE MainStep \/ Crash \/ Restart
        BY <2>1, <3>2, <4>1, <4>2 DEF MainStep, Stop, PassOver, Solve, Resume, ReadBatch,
            StartFlushBuffer, FinishSolve, JoinThreads,
          StopAfterSolve, ResumeFlush, Resumed, MergeToPartitions, NothingToMerge, MergeStops,
          DeleteMerged, MergeDone, FRSave, WriteConfig,
          Crash, Restart, At, Looping
      <4>3. CASE MonitorStep \/ CtrlC \/ Register
        BY <1>11, <4>3 DEF MonitorStep, Collect, StartFlush, CtrlC, Register
      <4>4. CASE NoFlushNeeded \/ MergeFails \/ RecordFlush
        <5>1. flush'.stage \in {"idle", "collected"}
          BY <4>4, AfterFlushIs DEF NoFlushNeeded, MergeFails, RecordFlush, Idle
        <5> QED  BY <5>1 DEF Busy
      <4> QED  BY <1>11, <3>1, <4>2, <4>3, <4>4 DEF Next, WriterStep, FlushStep, MoveStep
    <3>4. Gathered(x)
      BY <1>1, <2>1, <3>3
    <3> QED  BY <2>1, <3>4 DEF Ready
  <2>2. CASE /\ ~Busy /\ UNCHANGED <<disk, solveReg, runReg, move>>
                /\ flush'.srcs = flush'.snap /\ flush'.snap = runReg
    <3>1. In(x, runReg)
      <4>1. move.stage = "update" /\ move.from \in DOMAIN disk => disk[move.to] = disk[move.from]
        BY DEF Migrating
      <4>2. runReg \subseteq DOMAIN disk
        BY <2>2
      <4> QED  BY <2>2, <4>1, <4>2
    <3> QED  BY <2>2, <3>1
  <2> QED  BY <1>11, <2>1, <2>2, FlushGoesOn
<1> QED  BY <1>3, <1>4, <1>5, <1>6, <1>7, <1>8, <1>9, <1>10, <1>11

\* Steps after which there is nothing to say of the files of a level.
LEMMA DownNone == ASSUME Down PROVE Exist' /\ KidsCarried'
BY DownIs DEF Exist, KidsCarried

\* The step by which the threads of a level start or stop.
LEMMA Outside ==
  ASSUME HandInv, Next, main'.pc \in {"solve", "drain", "resume", "merge"}
  PROVE  \/ main.pc \in {"solve", "drain", "resume", "merge"} /\ ~Solve /\ ~Resume
         \/ Solve \/ Resume
<1>1. Fields
  BY FieldsOf DEF HandInv
<1>2. Solve \/ Resume => main.pc = "level"
  BY DEF Solve, Resume, Looping, At
<1>3. Down => main'.pc = "down"
  BY DownIs
<1>4. CASE main.pc \in {"level", "delete", "save", "config", "down"}
  <2>1. flush.stage = "idle" /\ ~Moving /\ job = NoJob
    BY <1>4, OthersIdle
  <2>2. ~FlushStep /\ ~MoveStep /\ ~WriterStep
    BY <2>1 DEF FlushStep, MoveStep, WriterStep, NoFlushNeeded, Pass, LastPass, DeleteSource,
        MergeFails, RecordFlush, Moving,
      CopyRun, CopyFails, UpdatePath, DeleteMoved, WriteHeader, WriteBoards, Register
  <2>3. ~MonitorStep
    BY <1>4, <2>1 DEF MonitorStep, Collect, StartMove, StartFlush, At
  <2>4. CASE CtrlC \/ Crash \/ Restart
    BY <1>3, <1>4, <2>4 DEF CtrlC, Crash, Restart, Thread0
  <2>5. CASE MainStep
    <3>1. Stop \/ PassOver \/ MergeDone \/ DeleteMerged \/ FRSave \/ WriteConfig \/ Solve
          \/ Resume
      BY <1>4, <2>5 DEF MainStep, ReadBatch, StartFlushBuffer, FinishSolve, JoinThreads,
          StopAfterSolve, ResumeFlush,
        Resumed, MergeToPartitions, NothingToMerge, MergeStops, At
    <3> QED
      BY <1>1, <1>3, <3>1 DEF Stop, PassOver, Looping, MergeDone, DeleteMerged, FRSave,
          WriteConfig, At, Goto, Fields
  <2> QED  BY <2>2, <2>3, <2>4, <2>5 DEF Next
<1>5. main.pc \in {"solve", "drain", "resume", "merge"}
      \/ main.pc \in {"level", "delete", "save", "config", "down"}
  BY DEF HandInv, Shapes, Working
<1> QED  BY <1>2, <1>4, <1>5

\* A registered file exists, or the merge that replaces it has deleted it.
LEMMA ExistStep ==
  ASSUME HandInv, Exist, Next, Undisturbed' PROVE Exist'
<1> USE DEF HandInv
<1> SUFFICES ASSUME main'.pc \in {"solve", "drain", "resume", "merge"},
                    NEW f \in solveReg' \cup runReg', f \notin DOMAIN disk'
             PROVE  Busy' /\ f \in flush'.snap \ flush'.srcs
  BY DEF Exist
<1>1. CASE Solve
  BY <1>1 DEF Solve
<1>2. CASE Resume
  BY <1>2 DEF Resume, FoundSolve, FoundRuns, Found, durable
<1> SUFFICES ASSUME main.pc \in {"solve", "drain", "resume", "merge"}, ~Solve, ~Resume
             PROVE  Busy' /\ f \in flush'.snap \ flush'.srcs
  BY <1>1, <1>2, Outside
<1>3. ASSUME f \in solveReg \cup runReg, f \notin DOMAIN disk
      PROVE  Busy /\ f \in flush.snap \ flush.srcs
  BY <1>3 DEF Exist
<1>4. ASSUME f \in solveReg \cup runReg, f \notin DOMAIN disk, flush' = flush
      PROVE  Busy' /\ f \in flush'.snap \ flush'.srcs
  BY <1>3, <1>4 DEF Busy
<1>5. CASE Pass
  <2>1. PICK batch \in SUBSET flush.srcs :
           /\ disk' = Put(Target, Boards(batch)) /\ flush'.stage = "del"
           /\ flush'.srcs = flush.srcs \ batch /\ flush'.snap = flush.snap
    BY <1>5, PassIs
  <2>2. UNCHANGED <<solveReg, runReg>>
    BY <1>5, PassApart
  <2>3. f \notin DOMAIN disk
    BY <2>1 DEF Put
  <2> QED  BY <1>3, <2>1, <2>2, <2>3 DEF Busy
<1>6. CASE LastPass
  <2>1. UNCHANGED <<solveReg, runReg>> /\ disk' = Put(flush.out, Boards(flush.temps))
    BY <1>6, LastPassApart
  <2>2. f \notin DOMAIN disk
    BY <2>1 DEF Put
  <2> QED  BY <1>3, <1>6, <2>1, <2>2, LastPassIs DEF Busy
<1>7. CASE DeleteSource
  <2>1. PICK g \in flush.left :
           /\ disk' = Without({g}) /\ flush'.srcs = flush.srcs /\ flush'.snap = flush.snap
           /\ flush'.stage \in {"del", "pass", "final", "record"}
    BY <1>7, DeleteSourceIs
  <2>2. Busy /\ g \notin flush.srcs /\ UNCHANGED <<solveReg, runReg>>
    BY <1>7, DeleteApart
  <2>3. CASE f = g
    <3>1. f.kind # "tmp"
      BY <2>2, PileKinds
    <3>2. f \in flush.snap
      BY <2>2, <2>3, <3>1 DEF Flushing
    <3> QED  BY <2>1, <2>2, <2>3, <3>2 DEF Busy
  <2>4. CASE f # g
    <3>1. f \notin DOMAIN disk
      BY <2>1, <2>4 DEF Without
    <3> QED  BY <1>3, <2>1, <2>2, <3>1 DEF Busy
  <2> QED  BY <2>3, <2>4
<1>8. CASE MergeFails
  <2>1. flush.temps = {} /\ Busy /\ flush.stage \in {"pass", "final"}
        /\ UNCHANGED <<solveReg, runReg>>
    BY <1>8 DEF MergeFails, Busy, Undisturbed
  <2>2. flush.stage = "pass" /\ flush.srcs = flush.snap
    BY <2>1 DEF FlushStages
  <2>3. f \notin DOMAIN disk
    BY <1>8, <2>1 DEF MergeFails, Without
  <2> QED  BY <1>3, <2>1, <2>2, <2>3
<1>9. CASE RecordFlush
  <2>1. Busy /\ disk' = disk /\ flush.out \in DOMAIN disk
    BY <1>9 DEF RecordFlush, Busy, FlushStages, durable
  <2>2. f # flush.out
    BY <2>1
  <2>3. CASE flush.dir = NAS
    <3>1. f \in solveReg
      BY <1>9, <2>2, <2>3 DEF RecordFlush
    <3>2. f \notin flush.snap
      BY <2>1, <2>3, <3>1, PileKinds DEF FlushFilesOwn, Own
    <3> QED  BY <1>3, <2>1, <3>1, <3>2
  <2>4. CASE flush.dir # NAS
    <3>1. f \in (solveReg \ flush.snap) \cup runReg
      BY <1>9, <2>2, <2>4 DEF RecordFlush
    <3>2. f \notin flush.snap
      BY <2>1, <2>4, <3>1, PileKinds DEF FlushFilesOwn, Own
    <3> QED  BY <1>3, <2>1, <3>1, <3>2
  <2> QED  BY <2>3, <2>4
<1>10. CASE WriteHeader \/ WriteBoards
  <2>1. UNCHANGED <<flush, solveReg, runReg>> /\ \E b : disk' = Put(job.file, b)
    BY <1>10 DEF WriteHeader, WriteBoards
  <2>2. f \notin DOMAIN disk
    BY <2>1 DEF Put
  <2> QED  BY <1>4, <2>1, <2>2
<1>11. CASE CopyRun
  <2>1. UNCHANGED <<flush, solveReg, runReg>> /\ disk' = Put(move.to, disk[move.from])
    BY <1>11 DEF CopyRun
  <2>2. f \notin DOMAIN disk
    BY <2>1 DEF Put
  <2> QED  BY <1>4, <2>1, <2>2
<1>12. CASE DeleteMoved
  <2>1. /\ flush' = flush /\ disk' = Without({move.from}) /\ UNCHANGED <<runReg, solveReg>>
        /\ move.from \notin solveReg \cup runReg
    BY <1>12, DeleteMovedApart
  <2>2. f \notin DOMAIN disk
    BY <2>1 DEF Without
  <2> QED  BY <1>4, <2>1, <2>2
<1>13. CASE Register
  <2>1. job # NoJob /\ job.stage = "register" /\ UNCHANGED <<disk, flush, runReg>>
        /\ solveReg' = solveReg \cup {job.file}
    BY <1>13 DEF Register, durable
  <2>2. job.file \in DOMAIN disk
    BY <2>1 DEF Writing
  <2> QED  BY <1>4, <2>1, <2>2
<1>14. CASE UpdatePath
  <2>1. UNCHANGED <<disk, flush, solveReg>> /\ move.stage = "update"
        /\ runReg' \subseteq runReg \cup {move.to}
    BY <1>14 DEF UpdatePath, durable
  <2>2. move.to \in DOMAIN disk
    BY <2>1 DEF Migrating
  <2> QED  BY <1>4, <2>1, <2>2
<1>15. CASE Collect \/ ResumeFlush \/ NoFlushNeeded
  <2>1. ~Busy /\ UNCHANGED <<disk, solveReg, runReg>>
    BY <1>15 DEF Collect, ResumeFlush, NoFlushNeeded, durable, Busy
  <2> QED  BY <1>3, <2>1
<1>16. ASSUME NEW d \in Fast, StartFlush(d) PROVE FALSE
  <2>1. ~Busy /\ UNCHANGED <<disk, solveReg, runReg>>
    BY <1>16 DEF StartFlush, durable, Busy
  <2> QED  BY <1>3, <2>1
<1>17. CASE StartMove \/ CopyFails \/ CtrlC \/ ReadBatch \/ StartFlushBuffer \/ FinishSolve
         \/ JoinThreads \/ Resumed
  BY <1>4, <1>17 DEF StartMove, CopyFails, CtrlC, ReadBatch, StartFlushBuffer, FinishSolve,
      JoinThreads, Resumed, durable
<1>18. CASE NothingToMerge \/ MergeToPartitions \/ StopAfterSolve \/ MergeStops \/ Crash
  BY <1>18, DownNone, FieldsOf, DownIs DEF NothingToMerge, MergeToPartitions, StopAfterSolve,
      MergeStops, Crash, Goto, Fields
<1>19. ~(Stop \/ PassOver \/ DeleteMerged \/ MergeDone \/ FRSave \/ WriteConfig \/ Restart)
  BY DEF Stop, PassOver, Looping, DeleteMerged, MergeDone, FRSave, WriteConfig, Restart, At
<1> QED
  BY <1>5, <1>6, <1>7, <1>8, <1>9, <1>10, <1>11, <1>12, <1>13, <1>14, <1>15, <1>16, <1>17,
      <1>18, <1>19
  DEF Next, MainStep, WriterStep, FlushStep, MoveStep, MonitorStep

\* The level goes on while its threads run.
LEMMA LevelStays ==
  ASSUME HandInv, Next, main.pc \in {"solve", "drain", "resume", "merge"},
         main'.pc \in {"solve", "drain", "resume", "merge"}
  PROVE  Level' = Level
<1> USE DEF HandInv
<1>1. Fields
  BY FieldsOf
<1>2. ~Solve /\ ~Resume
  BY DEF Solve, Resume, Looping, At
<1>3. Down => main'.pc = "down"
  BY DownIs
<1>4. ~(Stop \/ PassOver \/ DeleteMerged \/ MergeDone \/ FRSave \/ WriteConfig \/ Restart)
  BY DEF Stop, PassOver, Looping, DeleteMerged, MergeDone, FRSave, WriteConfig, Restart, At
<1>5. CASE MergeFails \/ RecordFlush
  BY <1>5, AfterFlushIs DEF MergeFails, RecordFlush, Level
<1>6. CASE MainStep \/ Crash
  BY <1>1, <1>2, <1>3, <1>4, <1>6 DEF MainStep, ReadBatch, StartFlushBuffer, FinishSolve,
      JoinThreads,
        StopAfterSolve, ResumeFlush, Resumed, MergeToPartitions, NothingToMerge, MergeStops,
        Crash, Level, Goto, Fields
<1>7. CASE WriterStep \/ MoveStep \/ MonitorStep \/ CtrlC
  BY <1>7 DEF WriterStep, WriteHeader, WriteBoards, Register, MoveStep, CopyRun, CopyFails,
      UpdatePath, DeleteMoved,
    MonitorStep, Collect, StartMove, StartFlush, CtrlC, Level
<1>8. CASE NoFlushNeeded \/ Pass \/ LastPass \/ DeleteSource
  BY <1>8 DEF NoFlushNeeded, Pass, LastPass, DeleteSource, Level
<1> QED  BY <1>2, <1>4, <1>5, <1>6, <1>7, <1>8 DEF Next, FlushStep

\* The boards led to by those that were read stay on their way.
LEMMA KidsCarriedStep ==
  ASSUME HandInv, GoodInv, Next, Undisturbed' PROVE KidsCarried'
<1> USE DEF HandInv
<1> SUFFICES ASSUME main'.pc \in {"solve", "drain", "resume", "merge"}, ~pipe'.partial,
                    NEW b \in Reach[Level'], b \notin pipe'.todo, NEW x \in Kids[b]
             PROVE  Carried(x)'
  BY DEF KidsCarried, Level
<1>1. Fields /\ Level \in Nat
  BY FieldsOf DEF Shapes
<1>2. CASE Solve
  <2>1. ~Behind /\ Level' = Level /\ main.pc = "level"
    BY <1>1, <1>2 DEF Solve, Looping, Level, At, Fields
  <2>2. Exactly(main.current, Level)
    BY <2>1 DEF GoodInv, Levels, At
  <2>3. pipe'.todo = Boards(main.current)
    BY <1>2 DEF Solve, NoPipe
  <2>4. b \in pipe'.todo
    BY <2>1, <2>2, <2>3 DEF Exactly, In, Boards
  <2> QED  BY <2>4
<1>3. CASE Resume
  <2>1. /\ Level' = Level /\ main.pc = "level" /\ ~Complete /\ Interrupted /\ disk' = disk
        /\ solveReg' = FoundSolve(Level) /\ runReg' = FoundRuns(Level)
    BY <1>1, <1>3 DEF Resume, Looping, Level, At, Fields, durable
  <2>2. DurableAt(Level)
    BY <1>1, <2>1 DEF GoodInv, Durable
  <2>3. \A y \in Reach[Level + 1] : In(y, FoundSolve(Level) \cup FoundRuns(Level))
    BY <2>1, <2>2 DEF DurableAt, Complete, Interrupted
  <2>4. x \in Reach[Level + 1]
    BY <1>1, <2>1, ReachIs
  <2>5. In(x, FoundSolve(Level) \cup FoundRuns(Level))
    BY <2>3, <2>4
  <2>6. FoundSolve(Level) \cup FoundRuns(Level) \subseteq Piles'
    BY <2>1 DEF Piles
  <2> QED  BY <2>1, <2>5, <2>6 DEF Carried, In
<1> SUFFICES ASSUME main.pc \in {"solve", "drain", "resume", "merge"}, ~Solve, ~Resume
             PROVE  Carried(x)'
  BY <1>2, <1>3, Outside
<1>4. Level' = Level
  BY LevelStays
<1>5. ASSUME ~pipe.partial, b \notin pipe.todo PROVE Carried(x)'
  <2>1. Carried(x)
    BY <1>4, <1>5 DEF GoodInv, KidsCarried
  <2> QED  BY <2>1, CarriedStays
<1>6. CASE ReadBatch
  <2>1. PICK c : /\ pipe'.acc = pipe.acc \cup Kids[c]
                 /\ pipe'.todo = IF shutdown THEN {} ELSE pipe.todo \ {c}
                 /\ shutdown /\ pipe.todo \ {c} # {} => pipe'.partial
    BY <1>6, ReadBatchIs
  <2>2. ~pipe.partial
    BY <1>6 DEF Reading, ReadBatch
  <2>3. CASE b = c
    BY <2>1, <2>3 DEF Carried
  <2>4. CASE b # c
    <3>1. b \notin pipe.todo
      BY <2>1, <2>4
    <3> QED  BY <1>5, <2>2, <3>1
  <2> QED  BY <2>3, <2>4
<1>7. CASE StartFlushBuffer
  <2>1. pipe'.todo = pipe.todo /\ pipe'.partial = pipe.partial
    BY <1>7 DEF StartFlushBuffer, Reading
  <2> QED  BY <1>5, <2>1
<1>8. CASE ~ReadBatch /\ ~StartFlushBuffer
  <2>1. Down => main'.pc = "down"
    BY DownIs
  <2>2. ~(Stop \/ PassOver \/ DeleteMerged \/ MergeDone \/ FRSave \/ WriteConfig \/ Restart)
    BY DEF Stop, PassOver, Looping, DeleteMerged, MergeDone, FRSave, WriteConfig, Restart, At
  <2>3. pipe' = pipe
    <3>1. CASE MainStep \/ Crash
      BY <1>1, <1>8, <2>1, <2>2, <3>1 DEF MainStep, FinishSolve, JoinThreads,
          StopAfterSolve, ResumeFlush, Resumed, MergeToPartitions, NothingToMerge, MergeStops,
          Crash
    <3>2. CASE WriterStep \/ MoveStep \/ MonitorStep \/ CtrlC
      BY <3>2 DEF WriterStep, WriteHeader, WriteBoards, Register, MoveStep, CopyRun, CopyFails,
          UpdatePath, DeleteMoved,
        MonitorStep, Collect, StartMove, StartFlush, CtrlC
    <3>3. CASE FlushStep
      BY <3>3 DEF FlushStep, NoFlushNeeded, Pass, LastPass, DeleteSource, MergeFails,
          RecordFlush
    <3> QED  BY <2>2, <3>1, <3>2, <3>3 DEF Next
  <2> QED  BY <1>5, <2>3
<1> QED  BY <1>6, <1>7, <1>8

Holds(f, b) == f.kind \in {"solve", "run", "interim"} => b \subseteq Reach[f.level + 1]

\* The boards a merge reads are of its level.
LEMMA SourcesSound ==
  ASSUME HandInv, Sound, Busy, NEW files, files \subseteq flush.snap
  PROVE  Boards(files) \subseteq Reach[Level + 1]
<1>1. \A f \in files : f.kind \in {"solve", "run", "interim"} /\ f.level = Level
  BY DEF HandInv, FlushFilesOwn, Own
<1> QED  BY <1>1 DEF Sound, Boards

\* No file gets a board that is not of its level.
LEMMA FilesSoundStep ==
  ASSUME HandInv, GoodInv, Next
  PROVE  \A f \in DOMAIN disk' : Holds(f, disk'[f])
<1> USE DEF HandInv
<1>1. \A f \in DOMAIN disk : Holds(f, disk[f])
  BY DEF GoodInv, Sound, Holds
<1>2. ASSUME NEW g, NEW b, disk' = Put(g, b), Holds(g, b)
      PROVE  \A f \in DOMAIN disk' : Holds(f, disk'[f])
  <2> SUFFICES ASSUME NEW f \in DOMAIN disk' PROVE Holds(f, disk'[f])
    OBVIOUS
  <2>1. CASE f = g
    <3>1. disk'[f] = b
      BY <1>2, <2>1 DEF Put
    <3> QED  BY <1>2, <2>1, <3>1
  <2>2. CASE f # g
    <3>1. f \in DOMAIN disk /\ disk'[f] = disk[f]
      BY <1>2, <2>2 DEF Put
    <3> QED  BY <1>1, <3>1
  <2> QED  BY <2>1, <2>2
<1>3. ASSUME NEW files, disk' = Without(files) PROVE \A f \in DOMAIN disk' : Holds(f, disk'[f])
  <2>1. \A f \in DOMAIN disk' : f \in DOMAIN disk /\ disk'[f] = disk[f]
    BY <1>3 DEF Without
  <2> QED  BY <1>1, <2>1
<1>4. CASE WriteHeader \/ WriteBoards
  <2>1. PICK b : disk' = Put(job.file, b) /\ (b = {} \/ b = job.boards) /\ job # NoJob
    BY <1>4 DEF WriteHeader, WriteBoards
  <2>2. job.file.level = Level
    BY <2>1 DEF Writing, Own
  <2>3. b \subseteq Reach[Level + 1]
    BY <2>1 DEF GoodInv, Sound
  <2>4. Holds(job.file, b)
    BY <2>2, <2>3 DEF Holds
  <2> QED  BY <1>2, <2>1, <2>4
<1>5. CASE Pass
  <2>1. PICK batch \in SUBSET flush.srcs : disk' = Put(Target, Boards(batch))
    BY <1>5, PassIs
  <2>2. Busy /\ (MultiPass => Target.kind = "tmp") /\ (~MultiPass => Target = flush.out)
    BY <1>5, PassApart
  <2>3. batch \subseteq flush.snap
    BY <2>1, <2>2 DEF Flushing
  <2>4. Boards(batch) \subseteq Reach[Level + 1]
    BY <2>2, <2>3, SourcesSound DEF GoodInv
  <2>5. flush.out.level = Level
    BY <2>2 DEF FlushFilesOwn, Own
  <2>6. Holds(Target, Boards(batch))
    BY <2>2, <2>4, <2>5 DEF Holds
  <2> QED  BY <1>2, <2>1, <2>6
<1>6. CASE LastPass
  <2>1. disk' = Put(flush.out, Boards(flush.temps)) /\ Busy
    BY <1>6, LastPassApart
  <2>2. flush.out.level = Level
    BY <2>1 DEF FlushFilesOwn, Own
  <2>3. Boards(flush.temps) \subseteq Reach[Level + 1]
    BY DEF GoodInv, Sound, Boards
  <2> QED  BY <1>2, <2>1, <2>2, <2>3 DEF Holds
<1>7. CASE CopyRun
  <2>1. disk' = Put(move.to, disk[move.from]) /\ move.from \in DOMAIN disk /\ Moving
    BY <1>7 DEF CopyRun, Moving
  <2>2. move.from.kind = "run" /\ move.from.level = move.to.level
    BY <2>1 DEF Migrating, Own
  <2>3. Holds(move.to, disk[move.from])
    BY <1>1, <2>1, <2>2 DEF Holds
  <2> QED  BY <1>2, <2>1, <2>3
<1>8. CASE MergeToPartitions
  <2>1. disk' = Put(MergeFile(Level), Boards(Sources))
    BY <1>8 DEF MergeToPartitions
  <2>2. Holds(MergeFile(Level), Boards(Sources))
    BY DEF Holds, MergeFile, Name
  <2> QED  BY <1>2, <2>1, <2>2
<1>9. CASE Restart
  <2>1. disk' = disk \/ disk' = Put(Seed, {Root})
    BY <1>9 DEF Restart
  <2>2. Holds(Seed, {Root})
    BY DEF Holds, Seed, Name
  <2> QED  BY <1>1, <1>2, <2>1, <2>2
<1>10. CASE DeleteSource \/ MergeFails \/ DeleteMoved \/ DeleteMerged
  <2>1. \E files : disk' = Without(files)
    BY <1>10 DEF DeleteSource, MergeFails, DeleteMoved, DeleteMerged
  <2> QED  BY <1>3, <2>1
<1>11. CASE MainStep /\ ~MergeToPartitions /\ ~DeleteMerged
  BY <1>1, <1>11 DEF MainStep, Stop, PassOver, Solve, Resume, ReadBatch, StartFlushBuffer,
      FinishSolve, JoinThreads,
    StopAfterSolve, ResumeFlush, Resumed, NothingToMerge, MergeStops, MergeDone, FRSave,
    WriteConfig, durable
<1>12. CASE Register \/ NoFlushNeeded \/ RecordFlush \/ CopyFails \/ UpdatePath \/ MonitorStep
         \/ CtrlC \/ Crash
  BY <1>1, <1>12 DEF Register, NoFlushNeeded, RecordFlush, CopyFails, UpdatePath, MonitorStep,
      Collect, StartMove, StartFlush, CtrlC, Crash, durable
<1> QED
  BY <1>4, <1>5, <1>6, <1>7, <1>8, <1>9, <1>10, <1>11, <1>12
    DEF Next, WriterStep, FlushStep, MoveStep

\* A level that is not at work holds nothing.
LEMMA RestingLevel ==
  ASSUME HandInv, Next, main'.pc \notin {"solve", "drain", "resume", "merge"}
  PROVE  pipe'.todo = {} /\ pipe'.acc = {} /\ job' = NoJob /\ flush'.temps = {}
<1>1. HandInv'
  BY HandStep
<1>2. KeepInv' /\ Reading' /\ Flushing'
  BY <1>1 DEF HandInv
<1>3. job' = NoJob /\ ~Busy'
  BY <1>2 DEF KeepInv, Alone, Busy
<1>4. pipe'.todo = {} /\ pipe'.acc = {}
  BY <1>2 DEF Reading, At
<1>5. flush'.temps = {}
  BY <1>2, <1>3 DEF Flushing, Resting
<1> QED  BY <1>3, <1>4, <1>5

\* Nor does a temporary file.
LEMMA TempsSoundStep ==
  ASSUME HandInv, GoodInv, Next
  PROVE  \A f \in flush'.temps : f \in DOMAIN disk' => disk'[f] \subseteq Reach[Level' + 1]
<1> USE DEF HandInv
<1> SUFFICES ASSUME NEW f \in flush'.temps, f \in DOMAIN disk'
    PROVE  disk'[f] \subseteq Reach[Level' + 1]
  OBVIOUS
<1>1. main'.pc \in {"solve", "drain", "resume", "merge"}
  BY RestingLevel
<1>2. CASE Solve \/ Resume
  <2>1. flush' = flush /\ main.pc = "level"
    BY <1>2 DEF Solve, Resume, Looping, At
  <2>2. flush.temps = {}
    BY <2>1, OthersIdle DEF Resting
  <2> QED  BY <2>1, <2>2
<1> SUFFICES ASSUME main.pc \in {"solve", "drain", "resume", "merge"}
    PROVE  disk'[f] \subseteq Reach[Level + 1]
  BY <1>1, <1>2, Outside, LevelStays
<1>3. ASSUME f \in flush.temps, f \in DOMAIN disk, disk'[f] = disk[f]
      PROVE  disk'[f] \subseteq Reach[Level + 1]
  BY <1>3 DEF GoodInv, Sound
<1>4. CASE Pass
  <2>1. PICK batch \in SUBSET flush.srcs :
           /\ disk' = Put(Target, Boards(batch))
           /\ flush'.temps = flush.temps \cup (IF MultiPass THEN {Target} ELSE {})
    BY <1>4, PassIs
  <2>2. Busy
    BY <1>4, PassApart
  <2>3. batch \subseteq flush.snap
    BY <2>1, <2>2 DEF Flushing
  <2>4. Boards(batch) \subseteq Reach[Level + 1]
    BY <2>2, <2>3, SourcesSound DEF GoodInv
  <2>5. CASE f = Target
    <3>1. disk'[f] = Boards(batch)
      BY <2>1, <2>5 DEF Put
    <3> QED  BY <2>4, <3>1
  <2>6. CASE f # Target
    <3>1. f \in DOMAIN disk /\ disk'[f] = disk[f]
      BY <2>1, <2>6 DEF Put
    <3> QED  BY <1>3, <2>1, <2>6, <3>1
  <2> QED  BY <2>5, <2>6
<1>5. CASE LastPass
  BY <1>5, LastPassIs
<1>6. CASE DeleteSource
  <2>1. PICK g \in flush.left : disk' = Without({g}) /\ flush'.temps = flush.temps
    BY <1>6, DeleteSourceIs
  <2>2. f \in DOMAIN disk /\ disk'[f] = disk[f]
    BY <2>1 DEF Without
  <2> QED  BY <1>3, <2>1, <2>2
<1>7. CASE WriteHeader \/ WriteBoards \/ CopyRun
  <2>1. flush' = flush
    BY <1>7 DEF WriteHeader, WriteBoards, CopyRun
  <2>2. Busy
    BY <2>1 DEF Flushing, Resting
  <2>3. PICK g, b : disk' = Put(g, b) /\ g \notin flush.temps
    BY <1>7, <2>2, FlushApart
  <2>4. f \in DOMAIN disk /\ disk'[f] = disk[f]
    BY <2>1, <2>3 DEF Put
  <2> QED  BY <1>3, <2>1, <2>4
<1>8. CASE DeleteMoved
  <2>1. flush' = flush /\ disk' = Without({move.from})
    BY <1>8, DeleteMovedApart
  <2>2. f \in DOMAIN disk /\ disk'[f] = disk[f]
    BY <2>1 DEF Without
  <2> QED  BY <1>3, <2>1, <2>2
<1>9. CASE ~(\/ Pass \/ LastPass \/ DeleteSource
             \/ WriteHeader \/ WriteBoards \/ CopyRun \/ DeleteMoved)
  <2>1. Busy'
    <3>1. HandInv'
      BY HandStep
    <3> QED  BY <3>1 DEF Flushing, Resting
  <2>2. (Busy /\ UNCHANGED <<flush, disk>>) \/ flush'.temps = {}
    BY <1>9, <2>1, FlushGoesOn
  <2> QED  BY <1>3, <2>2
<1> QED  BY <1>4, <1>5, <1>6, <1>7, <1>8, <1>9

\* Nor do the pipeline and the writer.
LEMMA PipeSoundStep ==
  ASSUME HandInv, GoodInv, Next
  PROVE  /\ pipe'.todo \subseteq Reach[Level'] /\ pipe'.acc \subseteq Reach[Level' + 1]
         /\ job' # NoJob => job'.boards \subseteq Reach[Level' + 1]
<1> USE DEF HandInv
<1>1. Fields /\ Level \in Nat
  BY FieldsOf DEF Shapes
<1>2. CASE main'.pc \notin {"solve", "drain", "resume", "merge"}
  BY <1>2, RestingLevel
<1>3. CASE Solve
  <2>1. ~Behind /\ Level' = Level /\ main.pc = "level" /\ job' = job
    BY <1>1, <1>3 DEF Solve, Looping, Level, At, Fields
  <2>2. Exactly(main.current, Level)
    BY <2>1 DEF GoodInv, Levels, At
  <2>3. pipe'.todo = Boards(main.current) /\ pipe'.acc = {}
    BY <1>3 DEF Solve, NoPipe
  <2>4. Boards(main.current) \subseteq Reach[Level]
    BY <2>2 DEF Exactly, In, Boards
  <2>5. job = NoJob
    BY <2>1, OthersIdle
  <2> QED  BY <2>1, <2>3, <2>4, <2>5
<1>4. CASE Resume
  <2>1. main.pc = "level" /\ job' = job /\ pipe'.todo = {} /\ pipe'.acc = {}
    BY <1>4 DEF Resume, Looping, At, NoPipe
  <2>2. job = NoJob
    BY <2>1, OthersIdle
  <2> QED  BY <2>1, <2>2
<1>5. CASE /\ main'.pc \in {"solve", "drain", "resume", "merge"}
           /\ main.pc \in {"solve", "drain", "resume", "merge"} /\ ~Solve /\ ~Resume
  <2>1. Level' = Level
    BY <1>5, LevelStays
  <2>2. ASSUME pipe' = pipe, job' = job \/ job' = NoJob
        PROVE  /\ pipe'.todo \subseteq Reach[Level] /\ pipe'.acc \subseteq Reach[Level + 1]
               /\ job' # NoJob => job'.boards \subseteq Reach[Level + 1]
    BY <2>2 DEF GoodInv, Sound
  <2>3. CASE ReadBatch
    <3>1. PICK c : /\ c = CHOOSE y \in pipe.todo : \A z \in pipe.todo : y <= z
                   /\ pipe'.acc = pipe.acc \cup Kids[c]
                   /\ pipe'.todo = IF shutdown THEN {} ELSE pipe.todo \ {c}
      BY <2>3, ReadBatchIs
    <3>2. pipe.todo # {} /\ job' = job
      BY <2>3 DEF ReadBatch
    <3>3. pipe.todo \subseteq Reach[Level] /\ pipe.todo \in SUBSET Nat
      <4>1. pipe.todo \subseteq Reach[Level]
        BY DEF GoodInv, Sound
      <4> QED  BY <1>1, <4>1, ReachKnown, LevelEnumeratorAssumption
    <3>4. \E y \in pipe.todo : \A z \in pipe.todo : y <= z
      BY <3>2, <3>3, LeastNumber
    <3>5. c \in pipe.todo
      BY <3>1, <3>4
    <3>6. Kids[c] \subseteq Reach[Level + 1]
      BY <1>1, <3>3, <3>5, ReachIs
    <3> QED  BY <2>1, <3>1, <3>2, <3>3, <3>6 DEF GoodInv, Sound
  <2>4. CASE StartFlushBuffer
    <3>1. pipe'.todo = pipe.todo /\ pipe'.acc = {}
      BY <2>4 DEF StartFlushBuffer, Reading
    <3>2. job' = job \/ job'.boards = pipe.acc
      BY <2>4 DEF StartFlushBuffer
    <3> QED  BY <2>1, <3>1, <3>2 DEF GoodInv, Sound
  <2>5. CASE WriteHeader \/ WriteBoards
    <3>1. job # NoJob /\ job'.boards = job.boards /\ pipe' = pipe
      BY <1>1, <2>5 DEF WriteHeader, WriteBoards, Fields
    <3> QED  BY <2>1, <3>1 DEF GoodInv, Sound
  <2>6. CASE ~ReadBatch /\ ~StartFlushBuffer /\ ~WriteHeader /\ ~WriteBoards
    <3>1. Down => main'.pc = "down"
      BY DownIs
    <3>2. ~(Stop \/ PassOver \/ DeleteMerged \/ MergeDone \/ FRSave \/ WriteConfig \/ Restart)
      BY <1>5 DEF Stop, PassOver, Looping, DeleteMerged, MergeDone, FRSave, WriteConfig,
          Restart, At
    <3>3. pipe' = pipe /\ (job' = job \/ job' = NoJob)
      <4>1. CASE MainStep \/ Crash
        BY <1>5, <2>6, <3>1, <3>2, <4>1 DEF MainStep, FinishSolve, JoinThreads,
          StopAfterSolve, ResumeFlush, Resumed, MergeToPartitions, NothingToMerge, MergeStops,
          Crash
      <4>2. CASE WriterStep \/ MoveStep \/ MonitorStep \/ CtrlC
        BY <2>6, <4>2 DEF WriterStep, Register, MoveStep, CopyRun, CopyFails, UpdatePath,
            DeleteMoved,
          MonitorStep, Collect, StartMove, StartFlush, CtrlC
      <4>3. CASE FlushStep
        BY <4>3 DEF FlushStep, NoFlushNeeded, Pass, LastPass, DeleteSource, MergeFails,
            RecordFlush
      <4> QED  BY <3>2, <4>1, <4>2, <4>3 DEF Next
    <3> QED  BY <2>1, <2>2, <3>3
  <2> QED  BY <2>3, <2>4, <2>5, <2>6
<1> QED  BY <1>2, <1>3, <1>4, <1>5, Outside

\* No board appears that the level does not have.
LEMMA SoundStep == ASSUME HandInv, GoodInv, Next PROVE Sound'
BY FilesSoundStep, TempsSoundStep, PipeSoundStep DEF Sound, Holds

Ends == Down /\ UNCHANGED durable

-----------------------------------------------------------------------------
(* What the next run, or the next level, will find.                        *)

\* A process that has ended does not end again.
LEMMA EndsRunning == ASSUME HandInv, Next, Ends PROVE main.pc # "down"
<1> SUFFICES ASSUME main.pc = "down" PROVE FALSE
  OBVIOUS
<1>1. main'.pc = "down"
  BY DownIs DEF Ends
<1>2. ~FlushStep /\ ~MoveStep /\ ~WriterStep
  BY OthersIdle DEF FlushStep, MoveStep, WriterStep, NoFlushNeeded, Pass, LastPass,
      DeleteSource, MergeFails, RecordFlush, Moving,
    CopyRun, CopyFails, UpdatePath, DeleteMoved, WriteHeader, WriteBoards, Register
<1>3. ~MonitorStep
  BY OthersIdle DEF MonitorStep, Collect, StartMove, StartFlush, At
<1>4. ~MainStep
  BY DEF MainStep, Stop, PassOver, Solve, Resume, Looping, ReadBatch, StartFlushBuffer,
      FinishSolve, JoinThreads, StopAfterSolve,
    ResumeFlush, Resumed, MergeToPartitions, NothingToMerge, MergeStops, DeleteMerged,
    MergeDone, FRSave, WriteConfig, At
<1>5. ~CtrlC /\ ~Crash /\ ~Restart
  BY <1>1 DEF CtrlC, Crash, Restart, Running, Thread0, At
<1> QED  BY <1>2, <1>3, <1>4, <1>5 DEF Next

\* Where the main thread goes.
LEMMA MainMoves ==
  ASSUME HandInv, Next, ~Ends, ~PassOver, ~WriteConfig, ~Restart
  PROVE  /\ UNCHANGED <<Level, main.last, main.restarted, main.current>>
         /\ FRSave \/ meta' = meta
         /\ \/ main'.pc = main.pc /\ ~Solve /\ ~Resume
            \/ Solve \/ Resume \/ MergeToPartitions \/ NothingToMerge
               \/ (MergeDone /\ ~shutdown) \/ FRSave
            \/ main.pc \in {"solve", "drain", "resume"} /\ main'.pc \in {"drain", "merge"}
<1> USE DEF HandInv
<1>1. Fields
  BY FieldsOf
<1>2. CASE MergeFails \/ RecordFlush
  <2>1. meta' = meta /\ AfterFlush
    BY <1>2 DEF MergeFails, RecordFlush, durable
  <2>2. ~Solve /\ ~Resume
    BY <1>2, OthersIdle DEF Solve, Resume, Looping, At, MergeFails, RecordFlush
  <2> QED  BY <2>1, <2>2, AfterFlushIs DEF Level
<1>3. CASE Stop \/ StopAfterSolve \/ MergeStops \/ Crash
  BY <1>3 DEF Stop, StopAfterSolve, MergeStops, Crash, Ends, durable
<1>4. CASE MergeDone
  BY <1>1, <1>4 DEF MergeDone, Ends, durable, Level, Goto, Fields
<1>5. CASE Solve \/ Resume
  BY <1>1, <1>5 DEF Solve, Resume, durable, Level, Fields
<1>6. CASE MergeToPartitions \/ NothingToMerge \/ FRSave
  BY <1>1, <1>6 DEF MergeToPartitions, NothingToMerge, FRSave, durable, Level, Goto, Fields
<1>7. CASE DeleteMerged
  BY <1>1, <1>7 DEF DeleteMerged, Level, Fields, At, Solve, Resume, Looping
<1>8. CASE ReadBatch \/ StartFlushBuffer
  BY <1>8 DEF ReadBatch, StartFlushBuffer, Level, durable, At, Solve, Resume, Looping
<1>9. CASE FinishSolve \/ JoinThreads \/ Resumed
  BY <1>1, <1>9 DEF FinishSolve, JoinThreads, Resumed, Level, durable, At, Goto, Fields
<1>10. CASE ResumeFlush
  BY <1>1, <1>10 DEF ResumeFlush, Level, durable, At, Solve, Resume, Looping, Fields
<1>11. CASE WriterStep \/ MoveStep \/ MonitorStep \/ CtrlC \/ NoFlushNeeded \/ Pass
         \/ LastPass \/ DeleteSource
  <2>1. main' = main /\ meta' = meta
    BY <1>11 DEF WriterStep, WriteHeader, WriteBoards, Register, MoveStep, CopyRun, CopyFails,
        UpdatePath, DeleteMoved,
      MonitorStep, Collect, StartMove, StartFlush, CtrlC, NoFlushNeeded, Pass, LastPass,
      DeleteSource, durable
  <2>2. ~Solve /\ ~Resume
    <3>1. Solve \/ Resume => main'.pc # main.pc
      BY <1>1 DEF Solve, Resume, Looping, At, Fields
    <3> QED  BY <2>1, <3>1
  <2> QED  BY <2>1, <2>2 DEF Level
<1> QED
  BY <1>2, <1>3, <1>4, <1>5, <1>6, <1>7, <1>8, <1>9, <1>10, <1>11 DEF Next, MainStep, FlushStep

\* While the main thread is alone, these steps leave it where it is.
LEMMA AloneSteps ==
  ASSUME HandInv, Next, main.pc \in {"level", "merge", "delete", "save", "config", "down"},
         main'.pc = main.pc
  PROVE  DeleteMerged \/ CtrlC \/ Ends \/ PassOver
<1>1. Fields
  BY FieldsOf DEF HandInv
<1>2. flush.stage = "idle" /\ ~Moving /\ job = NoJob
  BY OthersIdle
<1>3. ~FlushStep /\ ~MoveStep /\ ~WriterStep
  BY <1>2 DEF FlushStep, MoveStep, WriterStep, NoFlushNeeded, Pass, LastPass, DeleteSource,
      MergeFails, RecordFlush, Moving,
    CopyRun, CopyFails, UpdatePath, DeleteMoved, WriteHeader, WriteBoards, Register
<1>4. ~MonitorStep
  BY <1>2 DEF MonitorStep, Collect, StartMove, StartFlush, At
<1>5. CASE Crash \/ Restart
  BY <1>5 DEF Crash, Restart, Thread0, At, Ends
<1>6. CASE MainStep
  <2>1. CASE Stop \/ StopAfterSolve \/ MergeStops
    BY <2>1 DEF Stop, StopAfterSolve, MergeStops, Ends
  <2>2. CASE MergeDone
    BY <1>1, <2>2 DEF MergeDone, At, Goto, Fields, Ends
  <2>3. CASE Solve \/ Resume \/ ReadBatch \/ StartFlushBuffer \/ FinishSolve \/ JoinThreads
          \/ ResumeFlush \/ Resumed
    BY <1>1, <2>3 DEF Solve, Resume, Looping, ReadBatch, StartFlushBuffer, FinishSolve,
        JoinThreads, ResumeFlush, Resumed, At, Fields
  <2>4. CASE MergeToPartitions \/ NothingToMerge \/ FRSave \/ WriteConfig
    BY <1>1, <2>4 DEF MergeToPartitions, NothingToMerge, FRSave, WriteConfig, At, Goto, Fields
  <2> QED  BY <1>6, <2>1, <2>2, <2>3, <2>4 DEF MainStep
<1> QED  BY <1>3, <1>4, <1>5, <1>6 DEF Next

\* What files a restart would find of another level does not change.
LEMMA DurableElsewhere ==
  ASSUME HandInv, GoodInv, Next, NEW l \in Nat, l # Level, DurableAt(l)
  PROVE  DurableAt(l)'
<1>1. Merging /\ Seed \in DOMAIN disk /\ disk[Seed] = {Root}
  BY DEF GoodInv, Levels
<1>2. ASSUME NEW f, f.kind \in {"solve", "run"}, f.level = l
      PROVE  Same(f)
  <2>1. MergeToPartitions => f # MergeFile(Level)
    BY <1>2 DEF MergeFile, Name
  <2> QED  BY <1>1, <1>2, <2>1, ElsewhereSame
<1>3. FoundSolve(l)' = FoundSolve(l) /\ FoundRuns(l)' = FoundRuns(l)
  BY <1>2 DEF FoundSolve, FoundRuns, Found, Same
<1>4. \A f \in FoundSolve(l) \cup FoundRuns(l) : f \in DOMAIN disk' /\ disk'[f] = disk[f]
  BY <1>2 DEF FoundSolve, FoundRuns, Found, Same
<1>5. l \in DOMAIN meta /\ meta[l] # {} => l \in DOMAIN meta' /\ meta'[l] # {}
  <2>1. CASE FRSave
    BY <2>1 DEF FRSave, Saved
  <2>2. CASE meta' = meta
    BY <2>2
  <2>3. CASE Ends \/ PassOver \/ WriteConfig \/ Restart
    BY <2>3 DEF Ends, PassOver, WriteConfig, Restart, durable
  <2> QED  BY <2>1, <2>2, <2>3, MainMoves
<1> QED  BY <1>3, <1>4, <1>5 DEF DurableAt, In

\* A stop at a good moment leaves all of the level behind, or nothing.
LEMMA SafeStopDurable ==
  ASSUME HandInv, GoodInv, SafeStop, main.pc # "down" PROVE DurableAt(Level)
<1> USE DEF HandInv
<1>1. Level \in Nat
  BY DEF Shapes
<1>2. CASE FoundSolve(Level) \cup FoundRuns(Level) = {}
  BY <1>2 DEF DurableAt
<1>3. CASE At("level") \/ At("config")
  BY <1>1, <1>3 DEF At, GoodInv, Durable
<1>4. ASSUME Expanded, flush.temps = {}, flush.out.kind # "interim",
             \A f \in runReg : f.kind = "run",
             At("delete") => main.gone = solveReg \cup runReg, ~At("save"),
             main.pc \in {"solve", "drain", "resume", "merge", "delete"}
      PROVE  DurableAt(Level)
  <2> SUFFICES ASSUME NEW x \in Reach[Level + 1]
      PROVE  In(x, FoundSolve(Level) \cup FoundRuns(Level))
    BY DEF DurableAt
  <2>1. CASE At("delete")
    <3>1. In(x, Sources)
      BY <1>4, <2>1 DEF GoodInv, Merging, Exactly, Sources
    <3>2. PICK f \in Sources : f \in DOMAIN disk /\ x \in disk[f]
      BY <3>1 DEF In
    <3>3. f.level = Level /\ f.kind \in {"solve", "run"}
      BY <1>4, <2>1 DEF Registered, Working, At, Own, Sources
    <3> QED  BY <3>2, <3>3 DEF In, FoundSolve, FoundRuns, Found
  <2>2. CASE ~At("delete")
    <3>1. main.pc \in {"solve", "drain", "resume", "merge"}
      BY <1>4, <2>2 DEF At
    <3>2. PICK b \in Reach[Level] : x \in Kids[b]
      BY <1>1, ReachIs
    <3>3. Carried(x)
      BY <1>4, <3>1, <3>2 DEF GoodInv, KidsCarried, Expanded
    <3>4. In(x, Piles)
      BY <1>4, <3>3 DEF Carried, Expanded
    <3>5. PICK f \in solveReg \cup runReg \cup Ready : f \in DOMAIN disk /\ x \in disk[f]
      BY <1>4, <3>4 DEF In, Piles
    <3>6. f.level = Level /\ f.kind \in {"solve", "run"}
      BY <1>4, <3>1, PileKinds
    <3> QED  BY <3>5, <3>6 DEF In, FoundSolve, FoundRuns, Found
  <2> QED  BY <2>1, <2>2
<1>5. main.pc \in {"level", "config", "solve", "drain", "resume", "merge", "delete", "save"}
  BY DEF Shapes, Working
<1> QED  BY <1>2, <1>3, <1>4, <1>5 DEF SafeStop, At

\* The files of a level that is not at work are all of it, or none.
LEMMA DurableStep ==
  ASSUME HandInv, GoodInv, Next, Undisturbed' PROVE Durable'
<1> USE DEF HandInv
<1>1. Fields /\ Level \in Nat
  BY FieldsOf DEF Shapes
<1> SUFFICES ASSUME NEW l \in Nat, l # Level' \/ main'.pc \in {"level", "down", "config"}
             PROVE  DurableAt(l)'
  BY DEF Durable, Level
<1>2. CASE Ends
  <2>1. UNCHANGED <<disk, meta>> /\ SafeStop
    BY <1>2 DEF Ends, Down, durable, Undisturbed
  <2>2. main.pc # "down"
    BY <1>2, EndsRunning
  <2>3. DurableAt(l)
    BY <2>1, <2>2, SafeStopDurable DEF GoodInv, Durable
  <2> QED  BY <2>1, <2>3 DEF DurableAt, FoundSolve, FoundRuns, Found, In
<1>3. CASE l # Level
  BY <1>3, DurableElsewhere DEF GoodInv, Durable
<1>4. CASE ~Ends /\ l = Level
  <2>1. ASSUME main.pc \in {"level", "down", "config"}, UNCHANGED <<disk, meta>>
        PROVE  DurableAt(l)'
    <3>1. DurableAt(l)
      BY <2>1 DEF GoodInv, Durable
    <3> QED  BY <2>1, <3>1 DEF DurableAt, FoundSolve, FoundRuns, Found, In
  <2>2. CASE PassOver \/ WriteConfig
    BY <2>1, <2>2 DEF PassOver, Looping, WriteConfig, At, durable
  <2>3. CASE Restart
    <3>1. main.pc = "down" /\ meta' = meta
      BY <2>3 DEF Restart, At
    <3>2. DurableAt(l)
      BY <3>1 DEF GoodInv, Durable
    <3>3. \A f : f.kind \in {"solve", "run"} =>
            /\ f \in DOMAIN disk' <=> f \in DOMAIN disk
            /\ f \in DOMAIN disk => disk'[f] = disk[f]
      <4>1. disk' = disk \/ disk' = Put(Seed, {Root})
        BY <2>3 DEF Restart
      <4>2. Seed.kind = "seed"
        BY DEF Seed, Name
      <4> QED  BY <4>1, <4>2 DEF Put
    <3> QED  BY <3>1, <3>2, <3>3 DEF DurableAt, FoundSolve, FoundRuns, Found, In
  <2>4. CASE FRSave
    <3>1. disk' = disk /\ meta' = Saved /\ main.pc = "save"
      BY <2>4 DEF FRSave, At
    <3>2. Exactly(Merged, Level + 1)
      BY <3>1 DEF GoodInv, Merging, At
    <3>3. l \in DOMAIN meta' /\ meta'[l] = Merged
      BY <1>4, <3>1 DEF Saved
    <3>4. CASE Merged # {}
      BY <3>3, <3>4 DEF DurableAt
    <3>5. CASE Merged = {}
      <4>1. \A x : x \notin Reach[l + 1]
        BY <1>4, <3>2, <3>5 DEF Exactly, In
      <4> QED  BY <4>1 DEF DurableAt
    <3> QED  BY <3>4, <3>5
  <2>5. CASE ~PassOver /\ ~WriteConfig /\ ~Restart /\ ~FRSave
    <3>1. Level' = Level /\ meta' = meta /\ main'.pc \in {"level", "down", "config"}
      BY <1>4, <2>5, MainMoves
    <3>2. ~Solve /\ ~Resume /\ ~MergeToPartitions /\ ~NothingToMerge /\ ~(MergeDone /\ ~shutdown)
      BY <1>1, <3>1 DEF Solve, Resume, MergeToPartitions, NothingToMerge, MergeDone, Goto,
          Fields
    <3>3. main'.pc = main.pc
      BY <1>4, <2>5, <3>1, <3>2, MainMoves
    <3>4. CtrlC \/ DeleteMerged
      BY <1>4, <2>5, <3>1, <3>3, AloneSteps
    <3>5. CtrlC
      BY <3>1, <3>3, <3>4 DEF DeleteMerged, At
    <3> QED  BY <2>1, <3>1, <3>3, <3>5 DEF CtrlC, durable
  <2> QED  BY <2>2, <2>3, <2>4, <2>5
<1> QED  BY <1>2, <1>3, <1>4


\* The files that hold the levels merged so far, and the seed, stay.
LEMMA LevelFilesStay ==
  ASSUME HandInv, GoodInv, Next
  PROVE  /\ Same(Seed)
         /\ \A l \in DOMAIN meta : \A f \in meta[l] : Same(f)
         /\ \A f \in main.current : Same(f)
<1> USE DEF HandInv
<1>1. Merging /\ Seed \in DOMAIN disk /\ disk[Seed] = {Root}
  BY DEF GoodInv, Levels
<1>2. Seed.kind = "seed" /\ MergeFile(Level).kind = "merge"
  BY DEF Seed, MergeFile, Name
<1>3. Same(Seed)
  <2>1. Seed # MergeFile(Level)
    BY <1>2
  <2> QED  BY <1>1, <1>2, <2>1, ElsewhereSame DEF Same
<1>4. ASSUME NEW l \in DOMAIN meta, NEW f \in meta[l] PROVE Same(f)
  <2>1. f = MergeFile(l) /\ f.kind = "merge" /\ f.level = l
    BY <1>4 DEF Shapes, OneFile, MergeFile, Name
  <2>2. MergeToPartitions => ~Complete
    BY DEF MergeToPartitions, GoodInv, Levels, Working, At
  <2>3. f = MergeFile(Level) => l = Level
    BY <2>1 DEF MergeFile, Name
  <2>4. MergeToPartitions => f # MergeFile(Level)
    BY <1>4, <2>2, <2>3 DEF Complete
  <2>5. f # Seed
    BY <1>2, <2>1
  <2> QED  BY <1>1, <2>1, <2>4, <2>5, ElsewhereSame DEF Same
<1>5. ASSUME NEW f \in main.current PROVE Same(f)
  BY <1>3, <1>4, <1>5 DEF GoodInv, Levels
<1> QED  BY <1>3, <1>4, <1>5

ExactlyNext(files, n) ==
  \A x : (\E f \in files : f \in DOMAIN disk' /\ x \in disk'[f]) <=> x \in Reach[n]

\* A saved level holds exactly its boards.
LEMMA MetaStep ==
  ASSUME HandInv, GoodInv, Next
  PROVE  \A l \in DOMAIN meta' : ExactlyNext(meta'[l], l + 1)
<1>1. \A l \in DOMAIN meta : ExactlyNext(meta[l], l + 1)
  <2> SUFFICES ASSUME NEW l \in DOMAIN meta PROVE ExactlyNext(meta[l], l + 1)
    OBVIOUS
  <2>1. \A f \in meta[l] : Same(f)
    BY LevelFilesStay
  <2>2. Exactly(meta[l], l + 1)
    BY DEF GoodInv, Levels
  <2> QED  BY <2>1, <2>2 DEF ExactlyNext, Exactly, In, Same
<1>2. CASE meta' = meta
  BY <1>1, <1>2
<1>3. CASE FRSave
  <2>1. disk' = disk /\ meta' = Saved /\ main.pc = "save"
    BY <1>3 DEF FRSave, At
  <2>2. Exactly(Merged, Level + 1)
    BY <2>1 DEF GoodInv, Merging, At
  <2>3. ExactlyNext(Merged, Level + 1)
    BY <2>1, <2>2 DEF Exactly, ExactlyNext, In
  <2> QED  BY <1>1, <2>1, <2>3 DEF Saved
<1>4. CASE Ends \/ PassOver \/ WriteConfig \/ Restart
  <2>1. meta' = meta
    BY <1>4 DEF Ends, PassOver, WriteConfig, Restart, durable
  <2> QED  BY <1>2, <2>1
<1> QED  BY <1>2, <1>3, <1>4, MainMoves

\* The boards to expand are in the seed or a saved level.
LEMMA CurrentStep ==
  ASSUME HandInv, GoodInv, Next
  PROVE  \A f \in main'.current : f = Seed \/ \E l \in DOMAIN meta' : f \in meta'[l]
<1> USE DEF HandInv
<1>1. Fields
  BY FieldsOf
<1>2. \A f \in main.current : f = Seed \/ \E l \in DOMAIN meta : f \in meta[l]
  BY DEF GoodInv, Levels
<1>3. CASE Ends
  BY <1>3, DownIs DEF Ends
<1>4. CASE PassOver
  <2>1. meta' = meta /\ (main'.current = main.current \/ (Complete /\ main'.current = meta[Level]))
    BY <1>1, <1>4 DEF PassOver, durable, Fields
  <2> QED  BY <1>2, <2>1 DEF Complete
<1>5. CASE WriteConfig
  <2>1. meta' = meta /\ main'.current = Merged /\ main.pc = "config"
    BY <1>1, <1>5 DEF WriteConfig, At, Fields
  <2>2. Level \in DOMAIN meta /\ meta[Level] = Merged
    BY <2>1 DEF GoodInv, Merging, At
  <2> QED  BY <2>1, <2>2
<1>6. CASE Restart
  <2>1. meta' = meta /\ main'.current = IF config >= 0 THEN meta[config] ELSE {Seed}
    BY <1>6 DEF Restart, Thread0
  <2>2. config >= 0 => config \in DOMAIN meta
    BY <1>6 DEF Restart
  <2> QED  BY <2>1, <2>2
<1>7. CASE ~Ends /\ ~PassOver /\ ~WriteConfig /\ ~Restart
  <2>1. main'.current = main.current
    BY <1>7, MainMoves
  <2>2. CASE FRSave
    <3>1. ~Complete /\ meta' = Saved
      BY <2>2 DEF FRSave, At, GoodInv, Levels, Working
    <3>2. ASSUME NEW f, NEW l \in DOMAIN meta, f \in meta[l]
          PROVE  l \in DOMAIN meta' /\ f \in meta'[l]
      <4>1. l # Level
        BY <3>1, <3>2 DEF Complete
      <4> QED  BY <3>1, <3>2, <4>1 DEF Saved
    <3> QED  BY <1>2, <2>1, <3>2
  <2>3. CASE meta' = meta
    BY <1>2, <2>1, <2>3
  <2> QED  BY <1>7, <2>2, <2>3, MainMoves
<1> QED  BY <1>3, <1>4, <1>5, <1>6, <1>7

\* They are those of the level the main thread is at, or was told to pass over.
LEMMA WhereStep ==
  ASSUME HandInv, GoodInv, Next, main'.pc # "down"
  PROVE  ExactlyNext(main'.current, IF Behind' THEN main'.last + 1 ELSE Level')
<1> USE DEF HandInv
<1>1. Fields /\ Level \in Nat /\ main.last \in Nat \cup {-1} /\ config \in Nat \cup {-1}
  BY FieldsOf DEF Shapes
<1>2. ~Ends
  BY DownIs DEF Ends
<1>3. ASSUME NEW files, NEW n, Exactly(files, n), \A f \in files : Same(f)
      PROVE  ExactlyNext(files, n)
  BY <1>3 DEF ExactlyNext, Exactly, In, Same
<1>4. CASE Restart
  <2>1. main'.restarted /\ main'.last = config /\ main'.level = 0
        /\ main'.current = IF config >= 0 THEN meta[config] ELSE {Seed}
    BY <1>4 DEF Restart, Thread0
  <2>2. CASE config >= 0
    <3>1. config \in DOMAIN meta /\ Behind'
      BY <1>1, <1>4, <2>1, <2>2 DEF Restart, Behind, Level
    <3>2. Exactly(meta[config], config + 1)
      BY <3>1 DEF GoodInv, Levels
    <3>3. ExactlyNext(meta[config], config + 1)
      BY <1>3, <3>1, <3>2, LevelFilesStay
    <3> QED  BY <2>1, <2>2, <3>1, <3>3
  <2>3. CASE ~(config >= 0)
    <3>1. config = -1
      BY <1>1, <2>3
    <3>2. ~Behind' /\ Level' = 0 /\ main'.current = {Seed}
      BY <2>1, <2>3, <3>1 DEF Behind, Level
    <3>3. Exactly({Seed}, 0)
      BY ReachIs DEF GoodInv, Levels, Exactly, In
    <3>4. ExactlyNext({Seed}, 0)
      <4>1. \A f \in {Seed} : Same(f)
        BY LevelFilesStay
      <4> QED  BY <1>3, <3>3, <4>1
    <3> QED  BY <3>2, <3>4
  <2> QED  BY <2>2, <2>3
<1>5. CASE ~Restart
  <2>1. main.pc # "down"
    <3>1. CASE PassOver \/ WriteConfig
      BY <3>1 DEF PassOver, Looping, WriteConfig, At
    <3>2. CASE ~PassOver /\ ~WriteConfig
      <4>1. main'.pc = main.pc \/ main.pc # "down"
        BY <1>2, <1>5, <3>2, MainMoves DEF Solve, Resume, Looping, MergeToPartitions,
            NothingToMerge, MergeDone, FRSave, At
      <4> QED  BY <4>1
    <3> QED  BY <3>1, <3>2
  <2>2. Exactly(main.current, IF Behind THEN main.last + 1 ELSE Level)
    BY <2>1 DEF GoodInv, Levels, At
  <2>3. ExactlyNext(main.current, IF Behind THEN main.last + 1 ELSE Level)
    BY <1>3, <2>2, LevelFilesStay
  <2>4. CASE PassOver
    <3>1. /\ Level' = Level + 1 /\ main'.last = main.last /\ main'.restarted = main.restarted
          /\ main'.current = IF Behind THEN main.current ELSE meta[Level]
          /\ Behind \/ Complete
      BY <1>1, <2>4 DEF PassOver, Level, Fields
    <3>2. CASE Behind
      <4>1. Behind' <=> Level + 1 <= main.last
        BY <3>1, <3>2 DEF Behind
      <4>2. ~(Level + 1 <= main.last) => Level = main.last
        BY <1>1, <3>2 DEF Behind
      <4>3. (IF Behind' THEN main'.last + 1 ELSE Level') = main.last + 1
        BY <3>1, <4>1, <4>2
      <4> QED  BY <2>3, <3>1, <3>2, <4>3
    <3>3. CASE ~Behind
      <4>1. Complete
        BY <3>1, <3>3
      <4>2. Exactly(meta[Level], Level + 1)
        BY <4>1 DEF GoodInv, Levels, Complete
      <4>3. ExactlyNext(meta[Level], Level + 1)
        BY <1>3, <4>1, <4>2, LevelFilesStay DEF Complete
      <4>4. ~Behind'
        BY <1>1, <3>1, <3>3 DEF Behind
      <4> QED  BY <3>1, <3>3, <4>3, <4>4
    <3> QED  BY <3>2, <3>3
  <2>5. CASE WriteConfig
    <3>1. /\ Level' = Level + 1 /\ main'.last = Level /\ main'.current = Merged
             /\ main.pc = "config"
      BY <1>1, <2>5 DEF WriteConfig, Level, Fields, At
    <3>2. Level \in DOMAIN meta /\ meta[Level] = Merged
      BY <3>1 DEF GoodInv, Merging, At
    <3>3. Exactly(Merged, Level + 1)
      BY <3>2 DEF GoodInv, Levels
    <3>4. ExactlyNext(Merged, Level + 1)
      <4>1. \A f \in Merged : Same(f)
        BY <3>2, LevelFilesStay
      <4> QED  BY <1>3, <3>3, <4>1
    <3>5. ~Behind'
      BY <1>1, <3>1 DEF Behind
    <3> QED  BY <3>1, <3>4, <3>5
  <2>6. CASE ~PassOver /\ ~WriteConfig
    <3>1. UNCHANGED <<Level, main.last, main.restarted, main.current>>
      BY <1>2, <1>5, <2>6, MainMoves
    <3>2. Behind' <=> Behind
      BY <3>1 DEF Behind
    <3> QED  BY <2>3, <3>1, <3>2
  <2> QED  BY <2>4, <2>5, <2>6
<1> QED  BY <1>4, <1>5

\* A level at work is neither complete nor to be passed over.
LEMMA AheadStep ==
  ASSUME HandInv, GoodInv, Next
  PROVE  /\ Working' \/ At("config")' => ~Behind'
         /\ Working' => ~Complete'
<1> USE DEF HandInv
<1> SUFFICES ASSUME Working' \/ At("config")' PROVE ~Behind' /\ (Working' => ~Complete')
  OBVIOUS
<1>1. main'.pc \in {"solve", "drain", "resume", "merge", "delete", "save", "config"}
  BY DEF Working, At
<1>2. ~Ends /\ ~PassOver /\ ~WriteConfig /\ ~Restart
  <2>1. Fields
    BY FieldsOf
  <2> QED  BY <1>1, <2>1, DownIs DEF Ends, PassOver, Looping, WriteConfig, Restart, Thread0,
      Fields, At
<1>3. UNCHANGED <<Level, main.last, main.restarted>> /\ (FRSave \/ meta' = meta)
  BY <1>2, MainMoves
<1>4. Behind' <=> Behind
  BY <1>3 DEF Behind
<1>5. CASE Solve \/ Resume
  <2>1. ~Behind /\ ~Complete /\ meta' = meta
    BY <1>5 DEF Solve, Resume, durable
  <2> QED  BY <1>3, <1>4, <2>1 DEF Complete
<1>6. CASE FRSave
  <2>1. ~Behind /\ main'.pc = "config"
    BY <1>6, FieldsOf DEF FRSave, At, GoodInv, Levels, Working, Goto, Fields
  <2> QED  BY <1>4, <2>1 DEF Working
<1>7. CASE ~Solve /\ ~Resume /\ ~FRSave
  <2>1. Working \/ At("config")
    BY <1>1, <1>2, <1>7, MainMoves DEF MergeToPartitions, NothingToMerge, MergeDone, At, Working
  <2>2. Working' => Working
    <3>1. Fields
      BY FieldsOf
    <3> QED  BY <1>1, <1>2, <1>7, <3>1, MainMoves
      DEF MergeToPartitions, NothingToMerge, MergeDone, At, Working
  <2> QED  BY <1>3, <1>4, <1>7, <2>1, <2>2 DEF GoodInv, Levels, Complete
<1> QED  BY <1>5, <1>6, <1>7

\* The levels saved, and the one that is expanded, stay exact.
LEMMA LevelsStep ==
  ASSUME HandInv, GoodInv, Next PROVE Levels'
<1>1. Seed \in DOMAIN disk' /\ disk'[Seed] = {Root}
  BY LevelFilesStay DEF Same, GoodInv, Levels
<1>2. \A l \in DOMAIN meta' : Exactly(meta[l], l + 1)'
  BY MetaStep DEF Exactly, ExactlyNext, In
<1>3. ~At("down")' => Exactly(main.current, IF Behind THEN main.last + 1 ELSE Level)'
  BY WhereStep DEF Exactly, ExactlyNext, In, At
<1> QED  BY <1>1, <1>2, <1>3, CurrentStep, AheadStep DEF Levels

\* When the merge begins, what was carried to it is in its sources.
LEMMA AllArrived ==
  ASSUME HandInv, GoodInv, At("merge")
  PROVE  Exactly(Sources, Level + 1) /\ Sources \subseteq DOMAIN disk
<1> USE DEF HandInv
<1>1. Level \in Nat /\ main.pc = "merge"
  BY DEF Shapes, At
<1>2. ~Busy /\ Resting /\ Ready = {} /\ job = NoJob /\ pipe.todo = {} /\ pipe.acc = {}
      /\ ~pipe.partial
  BY <1>1, OthersIdle
<1>3. ASSUME NEW x \in Reach[Level + 1] PROVE In(x, Sources)
  <2>1. PICK b \in Reach[Level] : x \in Kids[b]
    BY <1>1, ReachIs
  <2>2. Carried(x)
    BY <1>1, <1>2, <2>1 DEF GoodInv, KidsCarried
  <2>3. Piles = Sources
    BY <1>2 DEF Piles, Sources, Resting
  <2> QED  BY <1>2, <2>2, <2>3 DEF Carried
<1>4. ASSUME NEW x, In(x, Sources) PROVE x \in Reach[Level + 1]
  <2>1. PICK f \in Sources : f \in DOMAIN disk /\ x \in disk[f]
    BY <1>4 DEF In
  <2>2. f.kind \in {"solve", "run", "interim"} /\ f.level = Level
    BY <1>1 DEF Registered, Working, Own, Sources
  <2> QED  BY <2>1, <2>2 DEF GoodInv, Sound
<1>5. Sources \subseteq DOMAIN disk
  BY <1>1, <1>2 DEF GoodInv, Exist, Sources
<1> QED  BY <1>3, <1>4, <1>5 DEF Exactly

\* The merge writes exactly the level, before it deletes what it read.
LEMMA MergingStep ==
  ASSUME HandInv, GoodInv, Next PROVE Merging'
<1> USE DEF HandInv
<1>1. Fields
  BY FieldsOf
<1>2. CASE main'.pc \notin {"delete", "save", "config"}
  BY <1>2 DEF Merging, At
<1>3. CASE main'.pc \in {"delete", "save", "config"}
  <2>1. ~Ends /\ ~PassOver /\ ~WriteConfig /\ ~Restart /\ ~Solve /\ ~Resume
    BY <1>1, <1>3, DownIs DEF Ends, PassOver, Looping, WriteConfig, Restart, Thread0, Fields,
        At, Solve, Resume
  <2>2. Level' = Level
    BY <2>1, MainMoves
  <2>3. CASE MergeToPartitions
    <3>1. /\ main'.pc = "delete" /\ main'.gone = Sources
             /\ disk' = Put(MergeFile(Level), Boards(Sources))
          /\ UNCHANGED <<solveReg, runReg>> /\ Sources # {} /\ At("merge")
      BY <1>1, <2>3 DEF MergeToPartitions, Fields
    <3>2. Exactly(Sources, Level + 1) /\ Sources \subseteq DOMAIN disk
      BY <3>1, AllArrived
    <3>3. Boards(Sources) = Reach[Level + 1]
      BY <3>2 DEF Exactly, In, Boards
    <3>4. MergeFile(Level) \in DOMAIN disk' /\ disk'[MergeFile(Level)] = Reach[Level + 1]
      BY <3>1, <3>3 DEF Put
    <3>5. MergeFile(Level) \notin Sources
      <4>1. \A f \in Sources : f.kind # "merge"
        BY <3>1 DEF Registered, Working, Own, Sources, At
      <4> QED  BY <4>1 DEF MergeFile, Name
    <3>6. \A f \in Sources : f \in DOMAIN disk' /\ disk'[f] = disk[f]
      BY <3>1, <3>2, <3>5 DEF Put
    <3>7. Sources' = Sources
      BY <3>1 DEF Sources
    <3>8. \A x : (\E f \in Sources : f \in DOMAIN disk' /\ x \in disk'[f]) <=> x \in Reach[Level + 1]
      BY <3>2, <3>6 DEF Exactly, In
    <3>9. Exactly(Sources, Level + 1)'
      BY <2>2, <3>7, <3>8 DEF Exactly, In
    <3>10. Sources' \subseteq DOMAIN disk'
      BY <3>6, <3>7
    <3>11. MergeFile(Level)' = MergeFile(Level)
      BY <2>2 DEF MergeFile
    <3> QED  BY <2>2, <3>1, <3>4, <3>7, <3>9, <3>10, <3>11 DEF Merging, At
  <2>4. CASE NothingToMerge
    <3>1. main'.pc = "save" /\ UNCHANGED <<disk, solveReg, runReg>> /\ Sources = {} /\ At("merge")
      BY <1>1, <2>4 DEF NothingToMerge, Goto, Fields, durable
    <3>2. Exactly({}, Level + 1)
      BY <3>1, AllArrived
    <3>3. Merged' = {}
      BY <3>1 DEF Merged, Sources
    <3>4. Exactly(Merged, Level + 1)'
      BY <2>2, <3>1, <3>2, <3>3 DEF Exactly, In
    <3> QED  BY <3>1, <3>4 DEF Merging, At
  <2>5. CASE MergeDone /\ ~shutdown
    <3>1. main'.pc = "save" /\ UNCHANGED <<disk, solveReg, runReg>> /\ At("delete")
      BY <1>1, <2>5 DEF MergeDone, Goto, Fields, durable
    <3>2. Sources # {} /\ MergeFile(Level) \in DOMAIN disk
          /\ disk[MergeFile(Level)] = Reach[Level + 1]
      BY <3>1 DEF GoodInv, Merging
    <3>3. Merged' = {MergeFile(Level)}
      BY <2>2, <3>1, <3>2 DEF Merged, Sources, MergeFile
    <3>4. Exactly(Merged, Level + 1)'
      BY <2>2, <3>1, <3>2, <3>3 DEF Exactly, In
    <3> QED  BY <3>1, <3>4 DEF Merging, At
  <2>6. CASE FRSave
    <3>1. main'.pc = "config" /\ meta' = Saved /\ UNCHANGED <<solveReg, runReg>>
      BY <1>1, <2>6 DEF FRSave, Goto, Fields
    <3>2. Merged' = Merged
      BY <2>2, <3>1 DEF Merged, Sources, MergeFile
    <3>3. Level \in DOMAIN meta' /\ meta'[Level] = Merged
      BY <3>1 DEF Saved
    <3> QED  BY <2>2, <3>1, <3>2, <3>3 DEF Merging, At
  <2>7. CASE main'.pc = main.pc
    <3>1. DeleteMerged \/ CtrlC
      BY <1>3, <2>1, <2>7, AloneSteps
    <3>2. CASE CtrlC
      BY <2>7, <3>2 DEF CtrlC, durable, Merging, At, GoodInv, Exactly, In, Sources, Merged,
          Level
    <3>3. CASE DeleteMerged
      <4>1. PICK f \in main.gone : disk' = Without({f}) /\ main'.gone = main.gone \ {f}
        BY <1>1, <3>3 DEF DeleteMerged, Fields
      <4>2. UNCHANGED <<solveReg, runReg>> /\ At("delete")
        BY <3>3 DEF DeleteMerged
      <4>3. /\ main.gone \subseteq Sources /\ Sources # {}
            /\ MergeFile(Level) \in DOMAIN disk /\ disk[MergeFile(Level)] = Reach[Level + 1]
        BY <4>2 DEF GoodInv, Merging
      <4>4. f # MergeFile(Level)
        <5>1. f.kind # "merge"
          BY <4>2, <4>3 DEF Registered, Working, Own, Sources, At
        <5> QED  BY <5>1 DEF MergeFile, Name
      <4>5. MergeFile(Level) \in DOMAIN disk' /\ disk'[MergeFile(Level)] = Reach[Level + 1]
        BY <4>1, <4>3, <4>4 DEF Without
      <4>6. Sources' = Sources /\ MergeFile(Level)' = MergeFile(Level)
        BY <2>2, <4>2 DEF Sources, MergeFile
      <4>7. main'.gone \subseteq Sources /\ main'.gone # Sources
        BY <4>1, <4>3
      <4> QED  BY <2>2, <2>7, <4>2, <4>3, <4>5, <4>6, <4>7 DEF Merging, At
    <3> QED  BY <3>1, <3>2, <3>3
  <2>8. main'.pc = main.pc \/ MergeToPartitions \/ NothingToMerge \/ (MergeDone /\ ~shutdown)
        \/ FRSave
    BY <1>3, <2>1, MainMoves
  <2> QED  BY <2>3, <2>4, <2>5, <2>6, <2>7, <2>8
<1> QED  BY <1>2, <1>3

-----------------------------------------------------------------------------
(* The invariant, and what follows from it.                                *)

SafeInv == HandInv /\ (Undisturbed => GoodInv)

\* The invariant at the start, and in every step.
LEMMA InitSafe == Init => SafeInv
<1> SUFFICES ASSUME Init PROVE GoodInv
  BY InitHand DEF SafeInv
<1>1. /\ disk = [f \in {Seed} |-> {Root}] /\ meta = <<>> /\ main = Thread0 /\ pipe = NoPipe
         /\ job = NoJob
      /\ flush = Idle /\ Seed.kind = "seed"
  BY DEF Init, Seed, Name
<1>2. ~Busy /\ flush.temps = {}
  BY <1>1 DEF Busy, Idle
<1>3. Deleted /\ Covered /\ Collected
  BY <1>2 DEF Deleted, Covered, Collected
<1>4. Exist /\ KidsCarried /\ Merging
  BY <1>1 DEF Exist, KidsCarried, Merging, Thread0, At
<1>5. Sound
  BY <1>1, <1>2 DEF Sound, NoPipe
<1>6. Durable
  BY <1>1 DEF Durable, DurableAt, FoundSolve, FoundRuns, Found
<1>7. Levels
  <2>1. main.current = {Seed} /\ Level = 0 /\ ~Behind /\ main.pc = "level" /\ DOMAIN meta = {}
    BY <1>1 DEF Thread0, Behind, Level
  <2>2. Exactly({Seed}, 0)
    BY <1>1, ReachIs DEF Exactly, In
  <2> QED  BY <1>1, <2>1, <2>2 DEF Levels, Working, At
<1> QED  BY <1>3, <1>4, <1>5, <1>6, <1>7 DEF GoodInv

LEMMA SafeStep == SafeInv /\ Next => SafeInv'
<1> SUFFICES ASSUME SafeInv, Next PROVE SafeInv'
  OBVIOUS
<1>1. HandInv /\ HandInv'
  BY HandStep DEF SafeInv
<1>2. ASSUME Undisturbed' PROVE GoodInv'
  <2>1. GoodInv
    BY <1>2, UndisturbedBefore DEF SafeInv
  <2>2. Deleted /\ Covered /\ Collected /\ Exist
    BY <2>1 DEF GoodInv
  <2>3. Deleted' /\ Covered' /\ Collected' /\ Exist'
    BY <1>1, <1>2, <2>2, DeletedStep, CoveredStep, CollectedStep, ExistStep
  <2>4. KidsCarried' /\ Sound' /\ Durable' /\ Levels' /\ Merging'
    BY <1>1, <1>2, <2>1, KidsCarriedStep, SoundStep, DurableStep, LevelsStep, MergingStep
  <2> QED  BY <2>3, <2>4 DEF GoodInv
<1> QED  BY <1>1, <1>2 DEF SafeInv

\* The invariant reads the variables only.
LEMMA SafeStutter == SafeInv /\ UNCHANGED vars => SafeInv'
<1> SUFFICES ASSUME SafeInv, UNCHANGED vars PROVE SafeInv'
  OBVIOUS
<1> USE DEF vars, SafeInv, HandInv, GoodInv, Undisturbed
<1>1. KeepInv'
  BY DEF KeepInv, Fields, WorkOnly, Alone, MergedKept, KeptOnly, InputsKept,
         RestartFindsLevel, Running, At, Level, Merged, Sources
<1>2. Shapes' /\ Reading' /\ Registered' /\ Numbered' /\ Writing'
  BY DEF Shapes, OnDisk, OneFile, Counters, Reading, Registered, Numbered, Writing, Working,
      Solving, At, Own, Level
<1>3. Flushing' /\ FlushFilesOwn' /\ FlushStages' /\ Migrating'
  BY DEF Flushing, Resting, FlushFilesOwn, FlushStages, Migrating, Busy, Moving, Solving, Own,
      Level, MultiPass
<1>4. ASSUME GoodInv PROVE Deleted' /\ Covered' /\ Collected' /\ Exist' /\ KidsCarried'
  BY <1>4 DEF Deleted, Covered, Collected, Exist, KidsCarried, Carried, Piles, In, Ready, Busy,
      Level
<1>5. ASSUME GoodInv PROVE Sound' /\ Durable' /\ Merging'
  BY <1>5 DEF Sound, Durable, DurableAt, FoundSolve, FoundRuns, Found, In, Merging, At,
      Sources, Merged, Exactly, Level
<1>6. ASSUME GoodInv PROVE Levels'
  BY <1>6 DEF Levels, Exactly, In, Behind, Complete, Working, At, Level
<1> QED  BY <1>1, <1>2, <1>3, <1>4, <1>5, <1>6

\* The threads' files stay apart, and while nothing has disturbed the files no board
\* is lost and none appears, through any interleaving of the pipeline, the writer,
\* the flushes, the migration, the merge, stops, crashes and restarts.
THEOREM SafeInvariant == Spec => []SafeInv
BY InitSafe, SafeStep, SafeStutter, PTL DEF Spec

\* Every level with a saved registry holds exactly the boards reachable in that
\* many moves, whatever restarts, failed writes and failed merges came before, unless
\* a process ended while files held a part of a level, or a merge failed that had
\* deleted sources already (PipelineRun, NVMeFlush, MergePhase and the level loop
\* with its restart).
THEOREM LevelsExact == Spec => [](~cut => LevelExact)
<1>1. SafeInv => (~cut => LevelExact)
  <2> SUFFICES ASSUME SafeInv, Undisturbed, NEW l \in DOMAIN meta PROVE Boards(meta[l]) = Reach[l + 1]
    BY DEF LevelExact, Undisturbed
  <2>1. Exactly(meta[l], l + 1)
    BY DEF SafeInv, GoodInv, Levels
  <2> QED  BY <2>1 DEF Exactly, In, Boards
<1> QED  BY <1>1, SafeInvariant, PTL

\* A board led to by one that was expanded is in a file that the merge phase will
\* read, or in the hands of a thread on its way to one, and every file that the
\* merge phase is to read exists when it begins.
THEOREM NoBoardLost == Spec => []NothingLost
<1>1. SafeInv => NothingLost
  <2> SUFFICES ASSUME SafeInv, Undisturbed PROVE NothingLost
    BY DEF NothingLost, Undisturbed
  <2>1. HandInv /\ GoodInv /\ Level \in Nat
    BY DEF SafeInv, HandInv, Shapes
  <2>2. ASSUME At("merge") PROVE Sources \subseteq DOMAIN disk
    BY <2>1, <2>2, AllArrived
  <2>3. ASSUME ~shutdown, main.pc \in {"solve", "drain", "merge"},
               NEW b \in Boards(main.current) \ pipe.todo, NEW x \in Kids[b]
        PROVE  x \in Held
    <3>1. ~pipe.partial
      BY <2>1, <2>3 DEF HandInv, Reading
    <3>2. ~Behind
      BY <2>1, <2>3 DEF GoodInv, Levels, Working
    <3>3. b \in Reach[Level]
      BY <2>1, <2>3, <3>2 DEF GoodInv, Levels, At, Exactly, In, Boards
    <3>4. Carried(x)
      BY <2>1, <2>3, <3>1, <3>3 DEF GoodInv, KidsCarried
    <3>5. In(x, Piles) => x \in Held
      <4>1. Piles \subseteq solveReg \cup runReg \cup flush.temps \cup flush.left
               \cup (IF flush.stage \in {"del", "record"} THEN {flush.out} ELSE {})
               \cup (IF move.stage = "delete" THEN {move.to} ELSE {})
        BY DEF Piles, Ready
      <4> QED  BY <4>1 DEF In, Held, Boards
    <3> QED  BY <3>4, <3>5 DEF Carried, Held
  <2> QED  BY <2>2, <2>3 DEF NothingLost
<1> QED  BY <1>1, SafeInvariant, PTL
=============================================================================
