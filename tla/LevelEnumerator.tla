-------------------------- MODULE LevelEnumerator ---------------------------
(***************************************************************************)
(* OthelloLevelEnumerator: one level of boards after the other.  The solve *)
(* phase expands the boards of the level and writes solver files on the    *)
(* Fast directories; a monitor thread has the files of a full directory    *)
(* merged into a run file, moves run files off the Fast directories and    *)
(* collects them on the NAS when local space runs out; the merge phase     *)
(* makes one set of what is left, saves its registry and deletes the rest. *)
(* Ctrl+C ends a run in order, a crash anywhere; --restart takes it up.    *)
(*                                                                         *)
(* A file is its name; disk gives the boards in it.  Free space is not     *)
(* modelled: wherever it decides, either outcome may come.  A merge that   *)
(* fails or is cut off leaves a file whose header counts 0 records, which  *)
(* every reader passes over: here it leaves none.  The partitions of a     *)
(* merged level are one file.                                              *)
(***************************************************************************)
EXTENDS Integers, FiniteSets

CONSTANTS
  Root, Kids,      \* the first board, and the boards each one leads to
  MaxLevels,       \* maxLevels
  NumFast,         \* Fast directories are 0..NumFast-1
  Moderate, NAS,
  Window,          \* batches the accumulation buffer holds (a batch is a board)
  FileLimit,       \* safeFileLimit
  MaxRuns,         \* bound: run files the monitor begins
  MaxMishaps,      \* bound: crashes, Ctrl+C, opens and writes that fail
  MaxInterim,      \* bound: collections on the NAS in a level
  Crashes          \* whether the process may crash

Fast == 0..(NumFast - 1)

\* A directory is of one class, the NAS is not among them, and boards are numbers.
ASSUME LevelEnumeratorAssumption ==
  /\ MaxLevels \in Nat \ {0} /\ NumFast \in Nat \ {0} /\ Window \in Nat \ {0}
  /\ FileLimit \in Nat \ {0} /\ Crashes \in BOOLEAN
  /\ Moderate # {} /\ Moderate \cap Fast = {} /\ NAS \notin Fast
  /\ Root \in DOMAIN Kids /\ DOMAIN Kids \subseteq Nat
  /\ \A b \in DOMAIN Kids : Kids[b] \subseteq DOMAIN Kids

VARIABLES
  disk,            \* the files that exist, and their boards
  meta,            \* meta[l]: the files ole_merge_level<l>.meta names
  config,          \* lastCompletedLevel in ole_run_config.json
  main,            \* the main thread: where it is and what it holds
  pipe,            \* PipelineRun: boards to read, boards accumulated
  job,             \* the pending WriteJob
  solveReg, runReg, \* the two registries of the level
  enabled,         \* dirEnabled
  flush,           \* the monitor's merge, or the resumed run's
  move,            \* the migration thread
  seq,             \* the counters file names are drawn from
  shutdown,        \* g_shutdown
  mishaps,         \* crashes, Ctrl+C, opens and writes that failed, so far
  unsafe,          \* whether a process ended at a bad moment
  cut              \* whether a merge failed that had deleted sources already

durable == <<disk, meta, config>>
vars == <<disk, meta, config, main, pipe, job, solveReg, runReg, enabled, flush,
          move, seq, shutdown, mishaps, unsafe, cut>>

-----------------------------------------------------------------------------
(* Files. *)

Name(kind, level, dir, n) == [kind |-> kind, level |-> level, dir |-> dir, n |-> n]
Seed == Name("seed", 0, 0, 0)
NoJob == [file |-> Seed, boards |-> {}, stage |-> "none"]
MergeFile(level) == Name("merge", level, NAS, 0)

Boards(files) == UNION {disk[f] : f \in files \cap DOMAIN disk}
Put(f, boards) == [g \in DOMAIN disk \cup {f} |-> IF g = f THEN boards ELSE disk[g]]
Without(files) == [f \in DOMAIN disk \ files |-> disk[f]]

\* What a restart finds of a level: solver files on the Fast directories, run
\* files on those and the Moderate ones.
Found(kind, level) == {f \in DOMAIN disk : f.kind = kind /\ f.level = level}
FoundSolve(level) == Found("solve", level)
FoundRuns(level) == {f \in Found("run", level) : disk[f] # {}}

Idle == [stage |-> "idle", dir |-> NAS, out |-> Seed, snap |-> {}, srcs |-> {},
         temps |-> {}, left |-> {}]
Still == [stage |-> "idle", from |-> Seed, to |-> Seed]
NoPipe == [todo |-> {}, acc |-> {}, filled |-> 0, partial |-> FALSE]
NewSeq == [solve |-> 0, run |-> 0, interim |-> 0, tmp |-> 0]
Thread0 == [pc |-> "level", level |-> 0, last |-> -1, restarted |-> FALSE,
            current |-> {Seed}, skipped |-> FALSE, turn |-> 0, gone |-> {}]

\* A fresh start has wiped the drives, written the seed and the config file.
Init ==
  /\ disk = [f \in {Seed} |-> {Root}]
  /\ meta = <<>>
  /\ config = -1
  /\ main = Thread0 /\ pipe = NoPipe /\ job = NoJob
  /\ solveReg = {} /\ runReg = {} /\ enabled = [d \in Fast |-> TRUE]
  /\ flush = Idle /\ move = Still /\ seq = NewSeq
  /\ shutdown = FALSE /\ mishaps = 0 /\ unsafe = FALSE /\ cut = FALSE

At(pc) == main.pc = pc
Goto(pc) == [main EXCEPT !.pc = pc]
Level == main.level

-----------------------------------------------------------------------------
(* The moments at which a stop of the process loses nothing.  Elsewhere     *)
(* solver or run files are found that hold only part of the level.          *)

Expanded == pipe.todo = {} /\ pipe.acc = {} /\ ~pipe.partial /\ job = NoJob

SafeStop ==
  \/ FoundSolve(Level) \cup FoundRuns(Level) = {}
  \/ At("level") \/ At("config")
  \/ /\ Expanded /\ ~cut
     /\ flush.temps = {} /\ flush.out.kind # "interim"
     /\ \A f \in runReg : f.kind = "run"
     /\ At("delete") => main.gone = solveReg \cup runReg
     /\ ~At("save")

\* A step of a merge or a copy fails for a known reason, or because a file cannot be
\* opened or written.
Fails(reason) ==
  \/ reason /\ UNCHANGED mishaps
  \/ mishaps < MaxMishaps /\ mishaps' = mishaps + 1

\* What a process that ends leaves behind.
Down ==
  /\ main' = [Thread0 EXCEPT !.pc = "down", !.current = {}]
  /\ pipe' = NoPipe /\ job' = NoJob /\ solveReg' = {} /\ runReg' = {}
  /\ enabled' = [d \in Fast |-> TRUE] /\ flush' = Idle /\ move' = Still
  /\ seq' = NewSeq /\ shutdown' = FALSE
  /\ unsafe' = (unsafe \/ ~SafeStop)

-----------------------------------------------------------------------------
(* The level loop. *)

Stop ==
  /\ At("level")
  /\ Level = MaxLevels \/ main.current = {} \/ shutdown
  /\ Down
  /\ UNCHANGED <<durable, mishaps, cut>>

Looping == At("level") /\ Level < MaxLevels /\ main.current # {} /\ ~shutdown

\* A level the config file says is complete.
Behind == main.restarted /\ Level <= main.last
Complete == Level \in DOMAIN meta /\ meta[Level] # {}

PassOver ==
  /\ Looping
  /\ Behind \/ Complete
  /\ main' = [main EXCEPT !.level = Level + 1,
                          !.current = IF Behind THEN @ ELSE meta[Level]]
  /\ UNCHANGED <<durable, pipe, job, solveReg, runReg, enabled, flush, move, seq,
                 shutdown, mishaps, unsafe, cut>>

Interrupted == main.restarted /\ FoundSolve(Level) \cup FoundRuns(Level) # {}

SetFlushSeqMin(runs) ==
  LET used == {f.n + 1 : f \in runs} \cup {seq.run}
  IN  CHOOSE n \in used : \A k \in used : k <= n

Solve ==
  /\ Looping /\ ~Behind /\ ~Complete /\ ~Interrupted
  /\ main' = [main EXCEPT !.pc = "solve", !.skipped = FALSE]
  /\ pipe' = [NoPipe EXCEPT !.todo = Boards(main.current)]
  /\ solveReg' = {} /\ runReg' = {}
  /\ seq' = [seq EXCEPT !.interim = 0]
  /\ UNCHANGED <<durable, job, enabled, flush, move, shutdown, mishaps, unsafe, cut>>

\* Files of an interrupted run: the solve phase is skipped.
Resume ==
  /\ Looping /\ ~Behind /\ ~Complete /\ Interrupted
  /\ main' = [main EXCEPT !.pc = "resume", !.skipped = TRUE, !.turn = 0]
  /\ pipe' = NoPipe
  /\ solveReg' = FoundSolve(Level) /\ runReg' = FoundRuns(Level)
  /\ seq' = [seq EXCEPT !.run = SetFlushSeqMin(FoundRuns(Level)), !.interim = 0]
  /\ UNCHANGED <<durable, job, enabled, flush, move, shutdown, mishaps, unsafe, cut>>

-----------------------------------------------------------------------------
(* PipelineRun. *)

\* AccumulateBatch; a stop request is honoured after the batch.
ReadBatch ==
  /\ At("solve") /\ pipe.todo # {} /\ pipe.filled < Window
  /\ LET b == CHOOSE x \in pipe.todo : \A y \in pipe.todo : x <= y
         rest == pipe.todo \ {b}
     IN  pipe' = [todo |-> IF shutdown THEN {} ELSE rest,
                  acc |-> pipe.acc \cup Kids[b],
                  filled |-> pipe.filled + 1,
                  partial |-> shutdown /\ rest # {}]
  /\ UNCHANGED <<durable, main, job, solveReg, runReg, enabled, flush, move, seq,
                 shutdown, mishaps, unsafe, cut>>

\* StartFlushBuffer: the boards go to a writer thread, on a directory that is
\* not being flushed.  A window without boards writes no file.
StartFlushBuffer ==
  /\ At("solve") /\ job = NoJob /\ pipe.filled > 0
  /\ pipe.todo = {} \/ pipe.filled = Window
  /\ pipe' = [pipe EXCEPT !.acc = {}, !.filled = 0]
  /\ IF pipe.acc = {} THEN UNCHANGED <<job, seq>>
     ELSE \E d \in Fast :
            /\ enabled[d]
            /\ job' = [file |-> Name("solve", Level, d, seq.solve),
                       boards |-> pipe.acc, stage |-> "open"]
            /\ seq' = [seq EXCEPT !.solve = @ + 1]
  /\ UNCHANGED <<durable, main, solveReg, runReg, enabled, flush, move, shutdown,
                 mishaps, unsafe, cut>>

\* The writer thread: SFWrite, header with the count first, then FRRegister.
WriteHeader ==
  /\ job # NoJob /\ job.stage = "open"
  /\ disk' = Put(job.file, {})
  /\ job' = [job EXCEPT !.stage = "write"]
  /\ UNCHANGED <<meta, config, main, pipe, solveReg, runReg, enabled, flush, move,
                 seq, shutdown, mishaps, unsafe, cut>>

WriteBoards ==
  /\ job # NoJob /\ job.stage = "write"
  /\ disk' = Put(job.file, job.boards)
  /\ job' = [job EXCEPT !.stage = "register"]
  /\ UNCHANGED <<meta, config, main, pipe, solveReg, runReg, enabled, flush, move,
                 seq, shutdown, mishaps, unsafe, cut>>

Register ==
  /\ job # NoJob /\ job.stage = "register"
  /\ solveReg' = solveReg \cup {job.file}
  /\ job' = NoJob
  /\ UNCHANGED <<durable, main, pipe, runReg, enabled, flush, move, seq, shutdown,
                 mishaps, unsafe, cut>>

FinishSolve ==
  /\ At("solve") /\ pipe.todo = {} /\ pipe.filled = 0 /\ job = NoJob
  /\ main' = Goto("drain")
  /\ UNCHANGED <<durable, pipe, job, solveReg, runReg, enabled, flush, move, seq,
                 shutdown, mishaps, unsafe, cut>>
-----------------------------------------------------------------------------
(* MergeFilesToOne, by the monitor or by FlushNvmeDir's thread.  Too many   *)
(* files for one pass are merged in batches into temporary files first, and *)
(* the files of a batch are deleted as soon as it is done.                  *)

MultiPass == Cardinality(flush.snap) > FileLimit
Batch == LET size == IF FileLimit > 1 THEN FileLimit - 1 ELSE 1
         IN  IF ~MultiPass THEN {flush.srcs}
             ELSE {b \in SUBSET flush.srcs :
                     \/ Cardinality(b) = size
                     \/ Cardinality(b) < size /\ b = flush.srcs}
\* Slip: every batch goes to the output file.
TargetOut == flush.out
Target == IF MultiPass THEN Name("tmp", 0, flush.out.dir, seq.tmp) ELSE flush.out

MergeInto(out, dir, files) ==
  [Idle EXCEPT !.stage = "pass", !.dir = dir, !.out = out, !.snap = files,
               !.srcs = files]

\* FlushNvmeDir: the directory takes no new files meanwhile; files still being
\* written to it stay out of the snapshot.
FlushFiles(d) == {f \in solveReg : f.dir = d}

FlushNvmeDir(d, to) ==
  /\ FlushFiles(d) # {}
  /\ flush' = MergeInto(Name("run", Level, to, seq.run), d, FlushFiles(d))
  /\ seq' = [seq EXCEPT !.run = @ + 1]

StartFlush(d) ==
  /\ \/ At("solve") /\ ~shutdown /\ flush.stage = "idle"
     \/ flush.stage = "collected"
  /\ enabled[d] /\ seq.run < MaxRuns
  /\ \E to \in Moderate \cup (Fast \ {d}) : FlushNvmeDir(d, to)
  /\ enabled' = [enabled EXCEPT ![d] = FALSE]
  /\ UNCHANGED <<durable, main, pipe, job, solveReg, runReg, move, shutdown,
                 mishaps, unsafe, cut>>

\* FlushRunFilesToNas, in the monitor itself, before it goes on to a flush.
Collect ==
  /\ At("solve") /\ ~shutdown /\ flush.stage = "idle" /\ runReg # {}
  /\ seq.interim < MaxInterim
  /\ flush' = MergeInto(Name("interim", Level, NAS, seq.interim), NAS, runReg)
  /\ seq' = [seq EXCEPT !.interim = @ + 1]
  /\ UNCHANGED <<durable, main, pipe, job, solveReg, runReg, enabled, move, shutdown,
                 mishaps, unsafe, cut>>

\* Slip: a monitor that is told to end drops what it was about to do.
NoFlushWhileSolving ==
  /\ flush.stage = "collected" /\ At("solve")
  /\ flush' = Idle
  /\ UNCHANGED <<durable, main, pipe, job, solveReg, runReg, enabled, move, seq,
                 shutdown, mishaps, unsafe, cut>>

NoFlushNeeded ==
  /\ flush.stage = "collected"
  /\ flush' = Idle
  /\ UNCHANGED <<durable, main, pipe, job, solveReg, runReg, enabled, move, seq,
                 shutdown, mishaps, unsafe, cut>>

Pass ==
  /\ flush.stage = "pass"
  /\ \E batch \in Batch :
       /\ batch \subseteq DOMAIN disk
       /\ disk' = Put(Target, Boards(batch))
       /\ flush' = [flush EXCEPT !.stage = "del", !.left = batch, !.srcs = @ \ batch,
                                 !.temps = @ \cup IF MultiPass THEN {Target} ELSE {}]
  /\ seq' = [seq EXCEPT !.tmp = @ + IF MultiPass THEN 1 ELSE 0]
  /\ UNCHANGED <<meta, config, main, pipe, job, solveReg, runReg, enabled, move,
                 shutdown, mishaps, unsafe, cut>>

LastPass ==
  /\ flush.stage = "final"
  /\ disk' = Put(flush.out, Boards(flush.temps))
  /\ flush' = [flush EXCEPT !.stage = "del", !.left = flush.temps, !.temps = {}]
  /\ UNCHANGED <<meta, config, main, pipe, job, solveReg, runReg, enabled, move, seq,
                 shutdown, mishaps, unsafe, cut>>

DeleteSource ==
  /\ flush.stage = "del"
  /\ \E f \in flush.left :
       LET left == flush.left \ {f}
       IN  /\ disk' = Without({f})
           /\ flush' = [flush EXCEPT
                !.left = left,
                !.stage = IF left # {} THEN "del"
                          ELSE IF flush.srcs # {} THEN "pass"
                          ELSE IF flush.temps # {} THEN "final" ELSE "record"]
  /\ UNCHANGED <<meta, config, main, pipe, job, solveReg, runReg, enabled, move, seq,
                 shutdown, mishaps, unsafe, cut>>

\* What follows the merge: the monitor goes on, a directory is enabled again,
\* the resumed run takes the next directory.
AfterFlush ==
  /\ flush' = IF flush.dir = NAS THEN [Idle EXCEPT !.stage = "collected"] ELSE Idle
  /\ enabled' = [d \in Fast |-> d = flush.dir \/ enabled[d]]
  /\ main' = IF At("resume") THEN [main EXCEPT !.turn = @ + 1] ELSE main

\* A source is gone, a file cannot be opened or written, or the process is asked to
\* stop: the output and the temporary files go.
MergeFails ==
  /\ flush.stage \in {"pass", "final"}
  /\ Fails(shutdown \/ ~(flush.srcs \subseteq DOMAIN disk))
  /\ disk' = Without(flush.temps)
  /\ cut' = (cut \/ flush.temps # {})
  /\ AfterFlush
  /\ UNCHANGED <<meta, config, pipe, job, solveReg, runReg, move, seq, shutdown,
                 unsafe>>

RecordFlush ==
  /\ flush.stage = "record"
  /\ LET new == IF disk[flush.out] # {} THEN {flush.out} ELSE {}
     IN  IF flush.dir = NAS
           THEN runReg' = new /\ UNCHANGED solveReg
           ELSE /\ solveReg' = solveReg \ flush.snap
                /\ runReg' = runReg \cup new
  /\ AfterFlush
  /\ UNCHANGED <<durable, pipe, job, move, seq, shutdown, mishaps, unsafe, cut>>

-----------------------------------------------------------------------------
(* The migration of a run file from a Fast directory to a Moderate one, one *)
(* at a time, in a thread of its own: copy, change the registry, delete.    *)

StartMove ==
  /\ At("solve") /\ ~shutdown /\ move.stage = "idle"
  /\ flush.stage = "idle" \/ flush.dir # NAS
  /\ \E f \in {r \in runReg : r.dir \in Fast}, d \in Moderate :
       move' = [stage |-> "copy", from |-> f, to |-> [f EXCEPT !.dir = d]]
  /\ UNCHANGED <<durable, main, pipe, job, solveReg, runReg, enabled, flush, seq,
                 shutdown, mishaps, unsafe, cut>>

CopyRun ==
  /\ move.stage = "copy" /\ move.from \in DOMAIN disk
  /\ disk' = Put(move.to, disk[move.from])
  /\ move' = [move EXCEPT !.stage = "update"]
  /\ UNCHANGED <<meta, config, main, pipe, job, solveReg, runReg, enabled, flush, seq,
                 shutdown, mishaps, unsafe, cut>>

\* The source is gone, the copy cannot be written or is cancelled.
CopyFails ==
  /\ move.stage = "copy"
  /\ Fails(shutdown \/ move.from \notin DOMAIN disk)
  /\ move' = Still
  /\ UNCHANGED <<durable, main, pipe, job, solveReg, runReg, enabled, flush, seq,
                 shutdown, unsafe, cut>>

UpdatePath ==
  /\ move.stage = "update"
  /\ runReg' = IF move.from \in runReg THEN (runReg \ {move.from}) \cup {move.to}
               ELSE runReg
  /\ move' = [move EXCEPT !.stage = "delete"]
  /\ UNCHANGED <<durable, main, pipe, job, solveReg, enabled, flush, seq, shutdown,
                 mishaps, unsafe, cut>>

DeleteMoved ==
  /\ move.stage = "delete"
  /\ disk' = Without({move.from})
  /\ move' = Still
  /\ UNCHANGED <<meta, config, main, pipe, job, solveReg, runReg, enabled, flush, seq,
                 shutdown, mishaps, unsafe, cut>>

-----------------------------------------------------------------------------
(* After the solve phase: the threads are joined; a run that was asked to   *)
(* stop leaves the level as it is.                                          *)

Joined == flush.stage = "idle" /\ move.stage = "idle"

JoinThreads ==
  /\ At("drain") /\ Joined /\ ~shutdown
  /\ main' = Goto("merge")
  /\ enabled' = [d \in Fast |-> TRUE]
  /\ UNCHANGED <<durable, pipe, job, solveReg, runReg, flush, move, seq, shutdown,
                 mishaps, unsafe, cut>>

StopAfterSolve ==
  /\ At("drain") /\ Joined /\ shutdown
  /\ Down
  /\ UNCHANGED <<durable, mishaps, cut>>

\* A resumed run: directory by directory, in the main thread.
ResumeFlush ==
  /\ At("resume") /\ flush.stage = "idle" /\ ~shutdown /\ main.turn < NumFast
  /\ \/ /\ \E to \in Moderate \cup 0..(main.turn - 1) : FlushNvmeDir(main.turn, to)
        /\ UNCHANGED main
     \/ /\ FlushFiles(main.turn) = {}
        /\ main' = [main EXCEPT !.turn = @ + 1]
        /\ UNCHANGED <<flush, seq>>
  /\ UNCHANGED <<durable, pipe, job, solveReg, runReg, enabled, move, shutdown,
                 mishaps, unsafe, cut>>

\* The merge follows, asked to stop or not.
Resumed ==
  /\ At("resume") /\ flush.stage = "idle"
  /\ shutdown \/ main.turn = NumFast
  /\ main' = Goto("merge")
  /\ UNCHANGED <<durable, pipe, job, solveReg, runReg, enabled, flush, move, seq,
                 shutdown, mishaps, unsafe, cut>>

-----------------------------------------------------------------------------
(* The merge phase. *)

\* Slips: the remaining solver files are forgotten; the inputs go with the rest.
SourcesRuns == runReg
SourcesInputs == runReg \cup solveReg \cup main.current
Sources == runReg \cup solveReg

MergeToPartitions ==
  /\ At("merge") /\ Sources # {} /\ Sources \subseteq DOMAIN disk
  /\ disk' = Put(MergeFile(Level), Boards(Sources))
  /\ main' = [main EXCEPT !.pc = "delete", !.gone = Sources]
  /\ UNCHANGED <<meta, config, pipe, job, solveReg, runReg, enabled, flush, move, seq,
                 shutdown, mishaps, unsafe, cut>>

NothingToMerge ==
  /\ At("merge") /\ Sources = {}
  /\ main' = Goto("save")
  /\ UNCHANGED <<durable, pipe, job, solveReg, runReg, enabled, flush, move, seq,
                 shutdown, mishaps, unsafe, cut>>

\* A source or an output fails, or the merge is asked to stop: the run ends.
MergeStops ==
  /\ At("merge") /\ Sources # {}
  /\ Fails(shutdown \/ ~(Sources \subseteq DOMAIN disk))
  /\ Down
  /\ UNCHANGED <<durable, cut>>

\* The sources go, run files first.
DeleteMerged ==
  /\ At("delete") /\ main.gone # {}
  /\ \E f \in main.gone :
       /\ f.kind = "solve" => main.gone \subseteq solveReg
       /\ disk' = Without({f})
       /\ main' = [main EXCEPT !.gone = @ \ {f}]
  /\ UNCHANGED <<meta, config, pipe, job, solveReg, runReg, enabled, flush, move, seq,
                 shutdown, mishaps, unsafe, cut>>

\* MergeRunFilesToNAS gives up a finished merge when the stop comes late.
MergeDone ==
  /\ At("delete") /\ main.gone = {}
  /\ IF shutdown THEN Down /\ UNCHANGED <<durable, mishaps, cut>>
     ELSE /\ main' = Goto("save")
          /\ UNCHANGED <<durable, pipe, job, solveReg, runReg, enabled, flush, move,
                         seq, shutdown, mishaps, unsafe, cut>>

Merged == IF Sources = {} THEN {} ELSE {MergeFile(Level)}
Saved == [l \in DOMAIN meta \cup {Level} |-> IF l = Level THEN Merged ELSE meta[l]]

\* Slip: an empty level leaves no registry.
FRSaveFiles ==
  /\ At("save")
  /\ meta' = IF Merged = {} THEN meta ELSE Saved
  /\ main' = Goto("config")
  /\ UNCHANGED <<disk, config, pipe, job, solveReg, runReg, enabled, flush, move, seq,
                 shutdown, mishaps, unsafe, cut>>

FRSave ==
  /\ At("save")
  /\ meta' = Saved
  /\ main' = Goto("config")
  /\ UNCHANGED <<disk, config, pipe, job, solveReg, runReg, enabled, flush, move, seq,
                 shutdown, mishaps, unsafe, cut>>

WriteConfig ==
  /\ At("config")
  /\ config' = Level
  /\ main' = [main EXCEPT !.pc = "level", !.level = Level + 1, !.last = Level,
                          !.current = Merged]
  /\ UNCHANGED <<disk, meta, pipe, job, solveReg, runReg, enabled, flush, move, seq,
                 shutdown, mishaps, unsafe, cut>>

-----------------------------------------------------------------------------
(* Stops and restarts. *)

Running == ~At("down")

CtrlC ==
  /\ Running /\ ~shutdown /\ mishaps < MaxMishaps
  /\ shutdown' = TRUE /\ mishaps' = mishaps + 1
  /\ UNCHANGED <<durable, main, pipe, job, solveReg, runReg, enabled, flush, move, seq,
                 unsafe, cut>>

Crash ==
  /\ Crashes /\ Running /\ mishaps < MaxMishaps
  /\ mishaps' = mishaps + 1
  /\ Down
  /\ UNCHANGED <<durable, cut>>

\* --restart: the boards come from the last level the config file names, which
\* is written anew with no level in it.
Restart ==
  /\ At("down")
  /\ config >= 0 => config \in DOMAIN meta /\ meta[config] # {}
  /\ main' = [Thread0 EXCEPT !.restarted = TRUE, !.last = config,
                             !.current = IF config >= 0 THEN meta[config] ELSE {Seed}]
  /\ disk' = IF config >= 0 THEN disk ELSE Put(Seed, {Root})
  /\ config' = -1
  /\ UNCHANGED <<meta, pipe, job, solveReg, runReg, enabled, flush, move, seq,
                 shutdown, mishaps, unsafe, cut>>

-----------------------------------------------------------------------------

MainStep ==
  \/ Stop \/ PassOver \/ Solve \/ Resume
  \/ ReadBatch \/ StartFlushBuffer \/ FinishSolve
  \/ JoinThreads \/ StopAfterSolve \/ ResumeFlush \/ Resumed
  \/ MergeToPartitions \/ NothingToMerge \/ MergeStops \/ DeleteMerged \/ MergeDone
  \/ FRSave \/ WriteConfig
WriterStep == WriteHeader \/ WriteBoards \/ Register
FlushStep == NoFlushNeeded \/ Pass \/ LastPass \/ DeleteSource \/ MergeFails \/ RecordFlush
MoveStep == CopyRun \/ CopyFails \/ UpdatePath \/ DeleteMoved
MonitorStep == Collect \/ StartMove \/ \E d \in Fast : StartFlush(d)

Next == MainStep \/ WriterStep \/ FlushStep \/ MoveStep \/ MonitorStep
        \/ CtrlC \/ Crash \/ Restart

\* The threads run; the monitor's choices hang on free space, a restart on the user.
Spec == Init /\ [][Next]_vars
             /\ WF_vars(MainStep) /\ WF_vars(WriterStep) /\ WF_vars(FlushStep)
             /\ WF_vars(MoveStep)
=============================================================================
