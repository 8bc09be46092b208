---------------------- MODULE CommandLineSolverProofs -----------------------
(***************************************************************************)
(* The command-line solver for every game, any number of threads, flushes   *)
(* and crashes: a job inserts only into open stores of its own level, no    *)
(* store ever waits in vain for an arena, the sweep leaves no board and no  *)
(* move out, the wins are carried back over boards that are there, and a    *)
(* run that was never resumed counts every game once.                       *)
(***************************************************************************)
EXTENDS CommandLineSolverProps, FiniteSetTheorems, SequenceTheorems, TLAPS

EdgesOf(l) == {e \in Edges : LevelOf[e.from] = l}

\* A store of level l holds boards and moves of that level only.
BoardStore(s, l) ==
  /\ DOMAIN s = {"open", "mem", "bg", "files", "saved", "named", "worn"}
  /\ DOMAIN s.mem \subseteq OfLevel(l) /\ DOMAIN s.bg \subseteq OfLevel(l)
  /\ DOMAIN s.files \subseteq OfLevel(l) /\ DOMAIN s.saved \subseteq OfLevel(l)
MoveStore(s, l) ==
  /\ DOMAIN s = {"open", "edges", "saved", "named"}
  /\ s.edges \subseteq EdgesOf(l) /\ s.saved \subseteq EdgesOf(l)
StoresOK ==
  /\ DOMAIN board = Levels /\ DOMAIN moves = Levels
  /\ \A l \in Levels : BoardStore(board[l], l) /\ MoveStore(moves[l], l)

LevelOK == level \in Levels /\ deepestLevel \in Levels /\ newBoards \in BOOLEAN

\* The stores a level reads and writes stay open to its end.
InLevel == {"sweep", "board", "moves", "next"}
OpenOK ==
  /\ pc = "level" => board[level].open
  /\ pc \in InLevel => /\ board[level].open /\ moves[level].open
                       /\ level < maxLevel => board[level + 1].open

\* What is still to be expanded is of the level.
ReadOK ==
  /\ pc = "sweep" => toRead \in Seq(OfLevel(level)) /\ passQueue \in Seq(OfLevel(level))
  /\ pc # "sweep" => passQueue = << >>

\* Only a job that is counted has something to insert, and it is counted only
\* while the main thread sweeps the level.
JobOp(op, l) ==
  \/ op.kind = "terminal" /\ op.board \in OfLevel(l)
  \/ op.kind \in {"board", "move"} /\ op.edge \in EdgesOf(l)
JobsOK ==
  /\ DOMAIN worker = Workers
  /\ \A w \in Workers :
       /\ DOMAIN worker[w] = {"ctx", "counted", "ops"} /\ worker[w].counted \in BOOLEAN
       /\ worker[w].ops # {} => worker[w].counted
       /\ worker[w].counted => pc = "sweep"
       /\ \A op \in worker[w].ops : JobOp(op, level)

\* The window of stores: this level and the next.
ArenasOK ==
  /\ pc \in {"down", "open", "sentinel", "report"} => boardArena = {} /\ moveArena = {}
  /\ pc = "level" => boardArena = {level} /\ moveArena = {}
  /\ pc \in InLevel \cup {"back"} => boardArena = {level, level + 1} \cap Levels /\ moveArena = {level}

CarryOK ==
  /\ pc = "back" => left \subseteq EdgesOf(level)
  /\ pc \notin {"back", "failed"} => left = {}
  /\ ArenasSuffice

SolverInv ==
  /\ StoresOK /\ LevelOK /\ OpenOK /\ ReadOK /\ JobsOK /\ ArenasOK /\ CarryOK
-----------------------------------------------------------------------------
\* What a move is.
LEMMA LevelType == ASSUME NEW b \in Boards PROVE LevelOf[b] \in Levels /\ LevelOf[b] \in Nat
<1>1. LevelOf \in [Boards -> 0..maxLevel] /\ maxLevel \in Nat
  BY GameAssumption
<1>2. LevelOf[b] \in 0..maxLevel
  BY <1>1
<1> QED
  BY <1>1, <1>2 DEF Levels

LEMMA Steps ==
  ASSUME NEW e \in Edges
  PROVE  /\ e.from \in Boards /\ e.to \in Boards /\ e.pass \in BOOLEAN
         /\ LevelOf[e.from] \in Nat /\ LevelOf[e.to] \in Levels
         /\ LevelOf[e.to] = IF e.pass THEN LevelOf[e.from] ELSE LevelOf[e.from] + 1
<1>1. /\ e.from \in Boards /\ e.to \in Boards /\ e.pass \in BOOLEAN
      /\ LevelOf[e.to] = LevelOf[e.from] + (IF e.pass THEN 0 ELSE 1)
  BY GameAssumption
<1>2. LevelOf[e.from] \in Nat /\ LevelOf[e.to] \in Levels
  BY <1>1, LevelType
<1> QED
  BY <1>1, <1>2

\* What the operators of the stores keep.
LEMMA PutDomain == ASSUME NEW records, NEW b, NEW delta
                   PROVE  DOMAIN Put(records, b, delta) = DOMAIN records \cup {b}
BY DEF Put

LEMMA MergeDomain == ASSUME NEW tree, NEW files
                     PROVE  DOMAIN Merge(tree, files) = DOMAIN tree \cup DOMAIN files
BY DEF Merge

LEMMA EmptyDomain == DOMAIN Empty = {}
BY DEF Empty

LEMMA ContentsDomain == ASSUME NEW l, NEW s, BoardStore(s, l)
                        PROVE  DOMAIN Contents(s) \subseteq OfLevel(l)
<1>1. DOMAIN Contents(s) = DOMAIN s.mem \cup DOMAIN Merge(s.bg, s.files)
  BY MergeDomain DEF Contents
<1>2. DOMAIN Merge(s.bg, s.files) = DOMAIN s.bg \cup DOMAIN s.files
  BY MergeDomain
<1> QED
  BY <1>1, <1>2 DEF BoardStore

LEMMA InsertedKeeps ==
  ASSUME NEW l, NEW s, BoardStore(s, l), NEW b \in OfLevel(l), NEW delta
  PROVE  BoardStore(Inserted(s, b, delta), l) /\ Inserted(s, b, delta).open = s.open
<1> DEFINE m == Put(s.mem, b, delta)  t == Inserted(s, b, delta)
<1>1. DOMAIN m = DOMAIN s.mem \cup {b}
  BY PutDomain
<1> HIDE DEF m
<1>2. /\ DOMAIN t = DOMAIN s /\ t.mem = m /\ t.bg = s.bg
      /\ t.files = s.files /\ t.saved = s.saved /\ t.open = s.open
  BY DEF BoardStore, Inserted, m
<1> QED
  BY <1>1, <1>2 DEF BoardStore

LEMMA FilledKeeps ==
  ASSUME NEW l, NEW s, BoardStore(s, l)
  PROVE  BoardStore(Filled(s), l) /\ Filled(s).open = s.open
<1>1. /\ DOMAIN Filled(s) = DOMAIN s /\ Filled(s).mem = Empty /\ Filled(s).bg = s.mem
      /\ Filled(s).files = s.files /\ Filled(s).saved = s.saved /\ Filled(s).open = s.open
  BY DEF BoardStore, Filled
<1> QED
  BY <1>1, EmptyDomain DEF BoardStore

LEMMA MergedKeeps ==
  ASSUME NEW l, NEW s, BoardStore(s, l)
  PROVE  BoardStore(Merged(s), l) /\ Merged(s).open = s.open
<1> DEFINE m == Merge(s.bg, s.files)
<1>1. DOMAIN m = DOMAIN s.bg \cup DOMAIN s.files
  BY MergeDomain
<1> HIDE DEF m
<1>2. /\ DOMAIN Merged(s) = DOMAIN s /\ Merged(s).mem = s.mem /\ Merged(s).bg = Empty
      /\ Merged(s).files = m /\ Merged(s).saved = s.saved /\ Merged(s).open = s.open
  BY DEF BoardStore, Merged, m
<1> QED
  BY <1>1, <1>2, EmptyDomain DEF BoardStore

LEMMA FlushedKeeps ==
  ASSUME NEW l, NEW s, BoardStore(s, l)
  PROVE  BoardStore(Flushed(s), l) /\ Flushed(s).open = s.open
<1>1. /\ DOMAIN Flushed(s) = DOMAIN s /\ Flushed(s).mem = Empty /\ Flushed(s).bg = s.bg
      /\ Flushed(s).files = Contents(s) /\ Flushed(s).saved = s.saved /\ Flushed(s).open = s.open
  BY DEF BoardStore, Flushed
<1> QED
  BY <1>1, ContentsDomain, EmptyDomain DEF BoardStore

LEMMA CheckpointedKeeps ==
  ASSUME NEW l, NEW s, BoardStore(s, l)
  PROVE  BoardStore(Checkpointed(s), l) /\ Checkpointed(s).open = s.open
<1> DEFINE f == Flushed(s)  t == Checkpointed(s)
<1>1. BoardStore(f, l) /\ f.open = s.open
  BY FlushedKeeps
<1> HIDE DEF f
<1>2. /\ DOMAIN t = DOMAIN f /\ t.mem = f.mem /\ t.bg = f.bg
      /\ t.files = f.files /\ t.saved = Contents(s) /\ t.open = f.open
  BY <1>1 DEF BoardStore, Checkpointed, f
<1> QED
  BY <1>1, <1>2, ContentsDomain DEF BoardStore

LEMMA OpenedKeeps ==
  ASSUME NEW l, NEW s, BoardStore(s, l)
  PROVE  BoardStore(OpenedBoards(s), l) /\ OpenedBoards(s).open
<1> DEFINE t == OpenedBoards(s)
<1>1. /\ DOMAIN t = DOMAIN s /\ t.mem = s.mem /\ t.bg = s.bg
      /\ t.files = (IF s.worn THEN Empty ELSE s.saved) /\ t.saved = s.saved /\ t.open = TRUE
  BY DEF BoardStore, OpenedBoards
<1> QED
  BY <1>1, EmptyDomain DEF BoardStore

LEMMA ClosedKeeps ==
  ASSUME NEW l, NEW s, BoardStore(s, l)
  PROVE  BoardStore(ClosedBoards(s), l)
<1> DEFINE t == ClosedBoards(s)
<1>1. /\ DOMAIN t = DOMAIN s /\ t.mem = Empty /\ t.bg = Empty /\ t.files = Empty /\ t.saved = s.saved
  BY DEF BoardStore, ClosedBoards
<1> QED
  BY <1>1, EmptyDomain DEF BoardStore

LEMMA CreatedKeeps ==
  ASSUME NEW l
  PROVE  BoardStore(NoBoards, l) /\ BoardStore(CreatedBoards, l) /\ CreatedBoards.open
<1>1. BoardStore(NoBoards, l)
  BY EmptyDomain DEF BoardStore, NoBoards
<1>2. BoardStore(CreatedBoards, l) /\ CreatedBoards.open
  BY EmptyDomain DEF BoardStore, NoBoards, CreatedBoards
<1> QED
  BY <1>1, <1>2

LEMMA MovesKeep ==
  ASSUME NEW l
  PROVE  /\ MoveStore(NoMoves, l) /\ MoveStore(CreatedMoves, l) /\ CreatedMoves.open
         /\ \A s : MoveStore(s, l) =>
              /\ MoveStore(OpenedMoves(s), l) /\ MoveStore(ClosedMoves(s), l)
              /\ MoveStore(NamedMoves(s), l) /\ NamedMoves(s).open = s.open
              /\ \A e \in EdgesOf(l) : /\ MoveStore(Recorded(s, e), l)
                                       /\ Recorded(s, e).open = s.open
BY DEF Recorded, MoveStore, NoMoves, CreatedMoves, OpenedMoves, ClosedMoves, NamedMoves

\* One store changes: what it needs is that the new one is of its level.
LEMMA OneBoardStore ==
  ASSUME StoresOK, NEW k \in Levels, NEW t, BoardStore(t, k), t.open = board[k].open,
         board' = [board EXCEPT ![k] = t], moves' = moves
  PROVE  StoresOK' /\ \A l \in Levels : board'[l].open = board[l].open
BY DEF StoresOK, BoardStore, MoveStore, OfLevel, EdgesOf, Levels

LEMMA OneMoveStore ==
  ASSUME StoresOK, NEW k \in Levels, NEW t, MoveStore(t, k), t.open = moves[k].open,
         moves' = [moves EXCEPT ![k] = t], board' = board
  PROVE  StoresOK' /\ \A l \in Levels : moves'[l].open = moves[l].open
BY DEF StoresOK, BoardStore, MoveStore, OfLevel, EdgesOf, Levels

\* The steps that change the records of one store and nothing else of the invariant.
LEMMA RecordsOnly ==
  ASSUME SolverInv, NEW k \in Levels, NEW t, BoardStore(t, k), t.open = board[k].open,
         board' = [board EXCEPT ![k] = t], moves' = moves,
         UNCHANGED <<boardArena, moveArena, pc, level, deepestLevel, sweep, left>>
  PROVE  SolverInv'
<1>1. StoresOK' /\ \A l \in Levels : board'[l].open = board[l].open
  BY OneBoardStore DEF SolverInv
<1>2. OpenOK'
  BY <1>1, GameAssumption DEF SolverInv, OpenOK, InLevel, LevelOK, Levels
<1>3. LevelOK' /\ ReadOK' /\ JobsOK' /\ ArenasOK' /\ CarryOK'
  BY DEF SolverInv, LevelOK, ReadOK, JobsOK, JobOp, ArenasOK, InLevel, CarryOK, ArenasSuffice, sweep,
         OfLevel, EdgesOf, Levels
<1> QED
  BY <1>1, <1>2, <1>3 DEF SolverInv

LEMMA SolverInit == Init => SolverInv
<1> SUFFICES ASSUME Init PROVE SolverInv
  OBVIOUS
<1>1. StoresOK
  BY CreatedKeeps, MovesKeep DEF Init, StoresOK
<1>2. LevelOK /\ OpenOK /\ ReadOK /\ ArenasOK /\ CarryOK
  BY GameAssumption DEF Init, LevelOK, Levels, OpenOK, InLevel, ReadOK, ArenasOK, CarryOK, ArenasSuffice
<1>3. JobsOK
  BY DEF Init, JobsOK, Idle
<1> QED
  BY <1>1, <1>2, <1>3 DEF SolverInv

LEMMA MergesKeep ==
  ASSUME SolverInv, NEW l \in Levels, TriggerBgFlush(l) \/ MergeEnds(l)
  PROVE  SolverInv'
<1>0. BoardStore(board[l], l)
  BY DEF SolverInv, StoresOK
<1>1. CASE TriggerBgFlush(l)
  BY <1>0, <1>1, FilledKeeps, RecordsOnly DEF TriggerBgFlush
<1>2. CASE MergeEnds(l)
  BY <1>0, <1>2, MergedKeeps, RecordsOnly DEF MergeEnds
<1> QED
  BY <1>1, <1>2
-----------------------------------------------------------------------------
\* A run begins, anew or again.
LEMMA FirstBoard == Root \in OfLevel(0) /\ 0 \in Levels
BY GameAssumption DEF Root, OfLevel, Levels

LEMMA StartKeeps == ASSUME SolverInv, doStartProcess PROVE SolverInv'
<1> DEFINE created == CreatedBoards  m == Put(Empty, Root, Zero)
           first == [created EXCEPT !.mem = m]
<1>1. BoardStore(first, 0) /\ first.open
  <2>1. DOMAIN m = {Root}
    <3>1. DOMAIN m = DOMAIN Empty \cup {Root}
      BY PutDomain
    <3> QED
      BY <3>1, EmptyDomain
  <2>2. BoardStore(created, 0) /\ created.open
    BY CreatedKeeps
  <2> HIDE DEF m, created
  <2>3. /\ DOMAIN first = DOMAIN created /\ first.mem = m /\ first.bg = created.bg
        /\ first.files = created.files /\ first.saved = created.saved /\ first.open = created.open
    BY <2>2 DEF BoardStore
  <2> QED
    BY <2>1, <2>2, <2>3, FirstBoard DEF BoardStore
<1> HIDE DEF first
<1>2. /\ board' = [[l \in Levels |-> NoBoards] EXCEPT ![0] = first]
      /\ moves' = [l \in Levels |-> NoMoves]
  BY DEF doStartProcess, first
<1>3. /\ DOMAIN board' = Levels /\ board'[0] = first
      /\ \A l \in Levels : l # 0 => board'[l] = NoBoards
  BY <1>2, FirstBoard
<1>4. StoresOK'
  BY <1>1, <1>2, <1>3, CreatedKeeps, MovesKeep
  DEF StoresOK, BoardStore, MoveStore, OfLevel, EdgesOf, Levels
<1>5. LevelOK' /\ OpenOK' /\ ReadOK' /\ ArenasOK' /\ CarryOK'
  BY <1>1, <1>3, FirstBoard
  DEF doStartProcess, Reset, LevelOK, OpenOK, InLevel, ReadOK, ArenasOK, CarryOK, ArenasSuffice
<1>6. JobsOK'
  BY DEF doStartProcess, Reset, JobsOK, Idle
<1> QED
  BY <1>4, <1>5, <1>6 DEF SolverInv

LEMMA RestartKeeps == ASSUME SolverInv, doRestartProcess PROVE SolverInv'
<1>1. PICK l \in Levels :
        /\ pc = "down" /\ board' = [board EXCEPT ![l] = OpenedBoards(board[l])]
        /\ boardArena' = {l} /\ pc' = "level" /\ level' = l /\ deepestLevel' = l
        /\ UNCHANGED <<moves, moveArena, sweep, left>>
  BY DEF doRestartProcess
<1>2. BoardStore(board'[l], l) /\ board'[l].open
  BY <1>1, OpenedKeeps DEF SolverInv, StoresOK
<1>3. StoresOK'
  BY <1>1, <1>2 DEF SolverInv, StoresOK, BoardStore, MoveStore, OfLevel, EdgesOf, Levels
<1>4. LevelOK' /\ OpenOK' /\ ReadOK' /\ ArenasOK' /\ CarryOK'
  BY <1>1, <1>2
  DEF SolverInv, sweep, LevelOK, Levels, OpenOK, InLevel, ReadOK, ArenasOK, CarryOK, ArenasSuffice
<1>5. JobsOK'
  BY <1>1 DEF SolverInv, sweep, JobsOK
<1> QED
  BY <1>3, <1>4, <1>5 DEF SolverInv

LEMMA CrashKeeps == ASSUME SolverInv, Crash PROVE SolverInv'
<1>0. \A l \in Levels : BoardStore(board'[l], l) /\ MoveStore(moves'[l], l)
  BY ClosedKeeps, MovesKeep DEF Crash, SolverInv, StoresOK
<1>1. StoresOK'
  BY <1>0 DEF Crash, StoresOK, BoardStore, MoveStore, OfLevel, EdgesOf, Levels
<1>2. LevelOK' /\ OpenOK' /\ ReadOK' /\ ArenasOK' /\ CarryOK'
  BY DEF SolverInv, Crash, Reset, LevelOK, Levels, OpenOK, InLevel, ReadOK, ArenasOK, CarryOK, ArenasSuffice
<1>3. JobsOK'
  BY DEF Crash, Reset, JobsOK, Idle
<1> QED
  BY <1>1, <1>2, <1>3 DEF SolverInv
-----------------------------------------------------------------------------
\* The sweep of a level.
LEMMA FreeFor == ASSUME NEW held, NEW l, held \subseteq {l}
                 PROVE  FreeArena(held)
<1>1. CASE held = {}
  BY <1>1, FS_EmptySet, SolverAssumption DEF FreeArena
<1>2. CASE held = {l}
  BY <1>2, FS_Singleton, SolverAssumption DEF FreeArena
<1> QED
  BY <1>1, <1>2

LEMMA LevelStarts ==
  ASSUME SolverInv, StartLevel
  PROVE  /\ pc' = "sweep" /\ deepestLevel' = level
         /\ moves' = [moves EXCEPT ![level] = CreatedMoves]
         /\ moveArena' = moveArena \cup {level}
         /\ board' = [l \in Levels |-> IF l = level THEN Flushed(board[l])
                                       ELSE IF l = level + 1 THEN CreatedBoards ELSE board[l]]
         /\ boardArena' = boardArena \cup ({level + 1} \cap Levels)
         /\ toRead' \in Ascending(DOMAIN Contents(board[level]))
         /\ newBoards' = FALSE
         /\ UNCHANGED <<level, passQueue, worker, left, lost>>
<1>1. boardArena = {level} /\ moveArena = {}
  BY DEF SolverInv, StartLevel, ArenasOK
<1>2. FreeArena(moveArena) /\ FreeArena(boardArena)
  BY <1>1, FreeFor
<1> QED
  BY <1>2 DEF StartLevel, history

LEMMA StartLevelKeeps == ASSUME SolverInv, StartLevel PROVE SolverInv'
<1> DEFINE held == Contents(board[level])
<1>1. /\ pc = "level" /\ level \in Levels /\ boardArena = {level} /\ moveArena = {}
      /\ BoardStore(board[level], level) /\ board[level].open /\ passQueue = << >>
  BY DEF SolverInv, StartLevel, LevelOK, ArenasOK, StoresOK, OpenOK, ReadOK
<1>3. /\ pc' = "sweep" /\ deepestLevel' = level
      /\ moves' = [moves EXCEPT ![level] = CreatedMoves]
      /\ moveArena' = moveArena \cup {level}
      /\ board' = [l \in Levels |-> IF l = level THEN Flushed(board[l])
                                    ELSE IF l = level + 1 THEN CreatedBoards ELSE board[l]]
      /\ boardArena' = boardArena \cup ({level + 1} \cap Levels)
      /\ toRead' \in Ascending(DOMAIN held)
      /\ newBoards' = FALSE
      /\ UNCHANGED <<level, passQueue, worker, left>>
  BY LevelStarts
<1>4. \A l \in Levels : BoardStore(board'[l], l) /\ MoveStore(moves'[l], l)
  BY <1>3, FlushedKeeps, CreatedKeeps, MovesKeep DEF SolverInv, StoresOK
<1>5. StoresOK'
  BY <1>3, <1>4 DEF SolverInv, StoresOK, BoardStore, MoveStore, OfLevel, EdgesOf, Levels
<1>6. board'[level].open /\ moves'[level].open /\ (level < maxLevel => board'[level + 1].open)
  <2>1. board'[level] = Flushed(board[level]) /\ moves'[level] = CreatedMoves
    BY <1>1, <1>3 DEF SolverInv, StoresOK
  <2>2. level < maxLevel => level + 1 \in Levels /\ level + 1 # level
    BY <1>1, GameAssumption DEF Levels
  <2>3. level < maxLevel => board'[level + 1] = CreatedBoards
    BY <1>3, <2>2
  <2> QED
    BY <1>1, <2>1, <2>3, FlushedKeeps, CreatedKeeps, MovesKeep
<1>7. toRead' \in Seq(OfLevel(level))
  <2>1. DOMAIN held \subseteq OfLevel(level) /\ OfLevel(level) \subseteq Boards
    BY <1>1, ContentsDomain DEF OfLevel
  <2> HIDE DEF held
  <2> DEFINE n == Cardinality(DOMAIN held)
  <2>2. n \in Nat
    <3>1. IsFiniteSet(DOMAIN held)
      BY <2>1, FS_Subset, GameAssumption
    <3> QED
      BY <3>1, FS_CardinalityType
  <2>3. toRead' \in [1..n -> DOMAIN held]
    BY <1>3 DEF Ascending
  <2> HIDE DEF n
  <2>4. toRead' \in [1..n -> OfLevel(level)]
    BY <2>1, <2>3
  <2> QED
    BY <2>2, <2>4
<1>8. LevelOK' /\ OpenOK' /\ ArenasOK' /\ CarryOK'
  BY <1>1, <1>3, <1>6, GameAssumption
  DEF SolverInv, LevelOK, OpenOK, InLevel, ArenasOK, CarryOK, ArenasSuffice, Levels
<1>9. ReadOK' /\ JobsOK'
  BY <1>1, <1>3, <1>7 DEF SolverInv, ReadOK, JobsOK, JobOp, OfLevel, EdgesOf
<1> QED
  BY <1>5, <1>8, <1>9 DEF SolverInv

\* What a batch of boards of a level leads to inserting.
LEMMA InsertsOfLevel ==
  ASSUME NEW l \in Levels, NEW batch \in Seq(OfLevel(l)), NEW op \in Inserts(batch)
  PROVE  JobOp(op, l)
<1>1. CASE op \in Terminals(batch)
  BY <1>1 DEF Terminals, JobOp
<1>2. CASE \E n \in DOMAIN batch : op \in EdgeOps(batch, n)
  <2>1. PICK n \in DOMAIN batch : op \in EdgeOps(batch, n)
    BY <1>2
  <2>2. batch[n] \in OfLevel(l)
    OBVIOUS
  <2> QED
    BY <2>1, <2>2 DEF EdgeOps, Out, JobOp, EdgesOf, OfLevel
<1> QED
  BY <1>1, <1>2 DEF Inserts

LEMMA DispatchKeeps == ASSUME SolverInv, NEW w \in Workers, Dispatch(w) PROVE SolverInv'
<1> DEFINE got == IF Len(toRead) < batchSize THEN Len(toRead) ELSE batchSize
           batch == SubSeq(toRead, 1, got)
           rest == SubSeq(toRead, got + 1, Len(toRead))
           job == [ctx |-> TRUE, counted |-> TRUE, ops |-> Inserts(batch)]
<1>1. /\ pc = "sweep" /\ level \in Levels /\ toRead \in Seq(OfLevel(level))
      /\ worker' = [worker EXCEPT ![w] = job] /\ toRead' = rest
      /\ UNCHANGED <<stores, pc, level, deepestLevel, newBoards, passQueue, left>>
  BY DEF SolverInv, Dispatch, LevelOK, ReadOK
<1>2. batch \in Seq(OfLevel(level)) /\ rest \in Seq(OfLevel(level))
  <2>1. Len(toRead) \in Nat /\ got \in 0..Len(toRead)
    BY <1>1, SolverAssumption
  <2> HIDE DEF got
  <2>2. /\ \A i \in 1..got : toRead[i] \in OfLevel(level)
        /\ \A i \in (got + 1)..Len(toRead) : toRead[i] \in OfLevel(level)
    BY <1>1, <2>1
  <2> QED
    BY <1>1, <2>1, <2>2, SubSeqProperties
<1> HIDE DEF batch, rest
<1>3. \A op \in Inserts(batch) : JobOp(op, level)
  BY <1>1, <1>2, InsertsOfLevel
<1>4. JobsOK'
  <2> DEFINE ops == Inserts(batch)
  <2> HIDE DEF ops
  <2>1. worker' = [worker EXCEPT ![w] = [ctx |-> TRUE, counted |-> TRUE, ops |-> ops]]
    BY <1>1 DEF ops
  <2>2. \A op \in ops : JobOp(op, level')
    BY <1>1, <1>3 DEF ops
  <2>3. DOMAIN worker' = Workers /\ \A v \in Workers : v # w => worker'[v] = worker[v]
    BY <2>1 DEF SolverInv, JobsOK
  <2>4. worker'[w] = [ctx |-> TRUE, counted |-> TRUE, ops |-> ops]
    BY <2>1 DEF SolverInv, JobsOK
  <2>5. \A v \in Workers : v # w => \A op \in worker[v].ops : JobOp(op, level')
    BY <1>1 DEF SolverInv, JobsOK
  <2> QED
    BY <1>1, <2>2, <2>3, <2>4, <2>5 DEF SolverInv, JobsOK, JobOp, OfLevel, EdgesOf
<1>5. StoresOK' /\ LevelOK' /\ OpenOK' /\ ArenasOK' /\ CarryOK'
  BY <1>1 DEF SolverInv, stores, StoresOK, BoardStore, MoveStore, OfLevel, EdgesOf, Levels, LevelOK,
     OpenOK, InLevel, ArenasOK, CarryOK, ArenasSuffice
<1>6. ReadOK'
  BY <1>1, <1>2 DEF SolverInv, ReadOK, OfLevel
<1> QED
  BY <1>4, <1>5, <1>6 DEF SolverInv

\* What an insert of a job leaves to do.
LEMMA JobShrinks ==
  ASSUME SolverInv, NEW w \in Workers, NEW ops, ops \subseteq worker[w].ops,
         worker' = [worker EXCEPT ![w].ops = ops], UNCHANGED <<pc, level>>
  PROVE  JobsOK'
BY DEF SolverInv, JobsOK, JobOp, OfLevel, EdgesOf

LEMMA WorkerProcessBatchKeeps ==
  ASSUME SolverInv, NEW w \in Workers, WorkerProcessBatch(w) PROVE SolverInv'
<1>1. PICK op \in worker[w].ops :
        /\ worker' = [worker EXCEPT ![w].ops = worker[w].ops \ {op}]
        /\ \/ /\ op.kind = "terminal"
              /\ TSInsert(level, op.board, Outcome[op.board])
              /\ UNCHANGED <<moves, newBoards, passQueue>>
           \/ /\ op.kind = "board"
              /\ TSInsert(IF op.edge.pass THEN level ELSE level + 1, op.edge.to, Zero)
              /\ newBoards' = (newBoards \/ ~op.edge.pass)
              /\ passQueue' = IF op.edge.pass THEN Append(passQueue, op.edge.to) ELSE passQueue
              /\ UNCHANGED moves
           \/ /\ op.kind = "move"
              /\ moves' = [moves EXCEPT ![level] = Recorded(moves[level], op.edge)]
              /\ UNCHANGED <<board, newBoards, passQueue>>
        /\ UNCHANGED <<boardArena, moveArena, pc, level, deepestLevel, toRead, left>>
  BY DEF WorkerProcessBatch
<1>2. /\ pc = "sweep" /\ level \in Levels /\ JobOp(op, level)
      /\ toRead \in Seq(OfLevel(level)) /\ passQueue \in Seq(OfLevel(level))
  BY <1>1 DEF SolverInv, JobsOK, LevelOK, ReadOK
<1>3. JobsOK'
  <2> DEFINE ops == worker[w].ops \ {op}
  <2>1. ops \subseteq worker[w].ops /\ worker' = [worker EXCEPT ![w].ops = ops]
    BY <1>1
  <2>2. pc' = pc /\ level' = level
    BY <1>1
  <2> HIDE DEF ops
  <2> QED
    BY <2>1, <2>2, JobShrinks
<1>4. ArenasOK' /\ CarryOK'
  BY <1>1, <1>2 DEF SolverInv, ArenasOK, InLevel, CarryOK, ArenasSuffice, EdgesOf, Levels
<1>5. SUFFICES /\ StoresOK' /\ newBoards' \in BOOLEAN /\ passQueue' \in Seq(OfLevel(level))
               /\ \A l \in Levels : board'[l].open = board[l].open /\ moves'[l].open = moves[l].open
  <2>1. OpenOK'
    <3>1. level < maxLevel => level + 1 \in Levels
      BY <1>2, GameAssumption DEF Levels
    <3> QED
      BY <1>1, <1>2, <1>5, <3>1 DEF SolverInv, OpenOK, InLevel
  <2>2. LevelOK' /\ ReadOK'
    BY <1>1, <1>2, <1>5 DEF SolverInv, LevelOK, ReadOK, OfLevel, Levels
  <2> QED
    BY <1>3, <1>4, <1>5, <2>1, <2>2 DEF SolverInv
<1>6. CASE op.kind = "terminal"
  <2>1. op.board \in OfLevel(level) /\ BoardStore(board[level], level)
    BY <1>2, <1>6 DEF JobOp, SolverInv, StoresOK
  <2> QED
    BY <1>1, <1>2, <1>6, <2>1, InsertedKeeps, OneBoardStore DEF TSInsert, SolverInv, LevelOK
<1>7. CASE op.kind = "board"
  <2> DEFINE to == IF op.edge.pass THEN level ELSE level + 1
             t == Inserted(board[to], op.edge.to, Zero)
  <2>1. /\ op.edge \in Edges /\ LevelOf[op.edge.from] = level
        /\ op.edge.pass \in BOOLEAN /\ op.edge.to \in Boards
    BY <1>2, <1>7, GameAssumption DEF JobOp, EdgesOf
  <2>2. LevelOf[op.edge.to] = to /\ to \in Levels
    BY <2>1, Steps
  <2>3. op.edge.to \in OfLevel(to) /\ BoardStore(board[to], to)
    BY <2>1, <2>2 DEF OfLevel, SolverInv, StoresOK
  <2>4. BoardStore(t, to) /\ t.open = board[to].open
    BY <2>3, InsertedKeeps
  <2>5. board' = [board EXCEPT ![to] = t] /\ moves' = moves
    BY <1>1, <1>7 DEF TSInsert
  <2>6. newBoards' \in BOOLEAN /\ passQueue' \in Seq(OfLevel(level))
    <3>1. /\ newBoards' = (newBoards \/ ~op.edge.pass)
          /\ passQueue' = IF op.edge.pass THEN Append(passQueue, op.edge.to) ELSE passQueue
      BY <1>1, <1>7
    <3>2. newBoards' \in BOOLEAN
      BY <3>1
    <3>3. CASE op.edge.pass
      BY <1>2, <2>3, <3>1, <3>3
    <3>4. CASE ~op.edge.pass
      BY <1>2, <3>1, <3>4
    <3> QED
      BY <3>2, <3>3, <3>4
  <2> HIDE DEF t, to
  <2> QED
    BY <2>2, <2>4, <2>5, <2>6, OneBoardStore DEF SolverInv
<1>8. CASE op.kind = "move"
  <2>1. op.edge \in EdgesOf(level) /\ MoveStore(moves[level], level)
    BY <1>2, <1>8 DEF JobOp, SolverInv, StoresOK
  <2> DEFINE t == Recorded(moves[level], op.edge)
  <2>2. MoveStore(t, level) /\ t.open = moves[level].open
    BY <2>1, MovesKeep
  <2>3. /\ moves' = [moves EXCEPT ![level] = t] /\ board' = board
        /\ newBoards' = newBoards /\ passQueue' = passQueue
    BY <1>1, <1>8
  <2> HIDE DEF t
  <2> QED
    BY <1>2, <2>2, <2>3, OneMoveStore DEF SolverInv, LevelOK
<1> QED
  BY <1>1, <1>6, <1>7, <1>8

LEMMA JobEndKeeps ==
  ASSUME SolverInv, NEW w \in Workers, Counted(w) \/ ReturnContext(w) PROVE SolverInv'
<1>1. JobsOK'
  <2>1. CASE Counted(w)
    BY <2>1 DEF Counted, SolverInv, JobsOK, JobOp, OfLevel, EdgesOf
  <2>2. CASE ReturnContext(w)
    BY <2>2 DEF ReturnContext, SolverInv, JobsOK, JobOp, OfLevel, EdgesOf
  <2> QED
    BY <2>1, <2>2
<1>2. UNCHANGED <<stores, pc, level, deepestLevel, toRead, newBoards, passQueue, left>>
  BY DEF Counted, ReturnContext
<1> QED
  BY <1>1, <1>2 DEF SolverInv, stores, StoresOK, BoardStore, MoveStore, OfLevel, EdgesOf, Levels,
     LevelOK, OpenOK, InLevel, ReadOK, ArenasOK, CarryOK, ArenasSuffice

\* Off the sweep no job runs and nothing is queued.
LEMMA OffSweep ==
  ASSUME SolverInv, pc # "sweep", pc' # "sweep", worker' = worker, passQueue' = passQueue
  PROVE  JobsOK' /\ ReadOK'
<1>1. \A w \in Workers : ~worker[w].counted /\ worker[w].ops = {}
  BY DEF SolverInv, JobsOK
<1> QED
  BY <1>1 DEF SolverInv, JobsOK, ReadOK

LEMMA DrainKeeps == ASSUME SolverInv, Drain PROVE SolverInv'
<1>1. /\ pc = "sweep" /\ toRead' = passQueue /\ passQueue' = << >>
      /\ pc' = IF passQueue = << >> THEN "board" ELSE "sweep"
      /\ \A w \in Workers : ~worker[w].counted
      /\ UNCHANGED <<board, moves, boardArena, moveArena, level, deepestLevel, newBoards, worker, left>>
  BY DEF Drain, Passes, Emptied, NoneActive, stores
<1>2. StoresOK' /\ LevelOK' /\ OpenOK' /\ ArenasOK' /\ CarryOK'
  BY <1>1 DEF SolverInv, StoresOK, BoardStore, MoveStore, OfLevel, EdgesOf, Levels, LevelOK,
     OpenOK, InLevel, ArenasOK, CarryOK, ArenasSuffice
<1>3. ReadOK'
  <2>1. passQueue \in Seq(OfLevel(level)) /\ << >> \in Seq(OfLevel(level))
    BY <1>1 DEF SolverInv, ReadOK
  <2> QED
    BY <1>1, <2>1 DEF ReadOK, OfLevel
<1>4. JobsOK'
  BY <1>1 DEF SolverInv, JobsOK, JobOp, OfLevel, EdgesOf
<1> QED
  BY <1>2, <1>3, <1>4 DEF SolverInv

LEMMA CheckpointsKeep ==
  ASSUME SolverInv, CheckpointBoards \/ CheckpointMoves PROVE SolverInv'
<1>1. level \in Levels /\ BoardStore(board[level], level) /\ MoveStore(moves[level], level)
  BY DEF SolverInv, LevelOK, StoresOK
<1>2. /\ pc \in InLevel \ {"sweep"} /\ pc' \in InLevel \ {"sweep"}
      /\ UNCHANGED <<boardArena, moveArena, level, deepestLevel, sweep, left>>
  BY DEF CheckpointBoards, CheckpointMoves, InLevel
<1>3. StoresOK' /\ \A l \in Levels : board'[l].open = board[l].open /\ moves'[l].open = moves[l].open
  <2>1. CASE CheckpointBoards
    <3> DEFINE t == Checkpointed(board[level])
    <3>1. BoardStore(t, level) /\ t.open = board[level].open
      BY <1>1, CheckpointedKeeps
    <3>2. board' = [board EXCEPT ![level] = t] /\ moves' = moves
      BY <2>1 DEF CheckpointBoards
    <3> HIDE DEF t
    <3> QED
      BY <1>1, <3>1, <3>2, OneBoardStore DEF SolverInv
  <2>2. CASE CheckpointMoves
    <3> DEFINE t == NamedMoves(moves[level])
    <3>1. MoveStore(t, level) /\ t.open = moves[level].open
      BY <1>1, MovesKeep
    <3>2. moves' = [moves EXCEPT ![level] = t] /\ board' = board
      BY <2>2 DEF CheckpointMoves
    <3> HIDE DEF t
    <3> QED
      BY <1>1, <3>1, <3>2, OneMoveStore DEF SolverInv
  <2> QED
    BY <2>1, <2>2
<1>4. LevelOK' /\ OpenOK' /\ ArenasOK' /\ CarryOK'
  BY <1>1, <1>2, <1>3, GameAssumption
  DEF SolverInv, sweep, LevelOK, OpenOK, InLevel, ArenasOK, CarryOK, ArenasSuffice, Levels
<1>5. JobsOK' /\ ReadOK'
  BY <1>2, OffSweep DEF sweep, InLevel
<1> QED
  BY <1>3, <1>4, <1>5 DEF SolverInv

LEMMA EndLevelKeeps == ASSUME SolverInv, EndLevel PROVE SolverInv'
<1> DEFINE last == ~newBoards \/ level = maxLevel
           After(l) == CASE l = level -> ClosedBoards(board[l])
                         [] l = level + 1 -> IF newBoards THEN Checkpointed(board[l])
                                             ELSE ClosedBoards(Checkpointed(board[l]))
                         [] OTHER -> board[l]
<1>1. /\ pc = "next" /\ level \in Levels /\ newBoards \in BOOLEAN
      /\ boardArena = {level, level + 1} \cap Levels /\ moveArena = {level} /\ left = {}
  BY DEF SolverInv, EndLevel, LevelOK, ArenasOK, InLevel, CarryOK
<1>2. /\ board' = [l \in Levels |-> After(l)]
      /\ boardArena' = IF newBoards THEN boardArena \ {level} ELSE (boardArena \ {level}) \ {level + 1}
      /\ level' = (IF last THEN level ELSE level + 1)
      /\ pc' = (IF last THEN "open" ELSE "level")
      /\ moves' = [moves EXCEPT ![level] = ClosedMoves(moves[level])]
      /\ moveArena' = moveArena \ {level}
      /\ UNCHANGED <<deepestLevel, sweep, left>>
  BY DEF EndLevel, Release
<1>3. \A l \in Levels : BoardStore(After(l), l)
  BY CheckpointedKeeps, ClosedKeeps DEF SolverInv, StoresOK
<1>4. /\ \A l \in Levels : BoardStore(board'[l], l) /\ MoveStore(moves'[l], l)
      /\ DOMAIN board' = Levels /\ DOMAIN moves' = Levels
  BY <1>2, <1>3, MovesKeep DEF SolverInv, StoresOK
<1>5. StoresOK'
  BY <1>4 DEF StoresOK, BoardStore, MoveStore, OfLevel, EdgesOf, Levels
<1>6. LevelOK' /\ ArenasOK' /\ CarryOK'
  BY <1>1, <1>2, GameAssumption
  DEF SolverInv, LevelOK, ArenasOK, InLevel, CarryOK, ArenasSuffice, Levels, sweep
<1>7. OpenOK'
  <2>1. CASE last
    BY <1>2, <2>1 DEF OpenOK, InLevel
  <2>2. CASE ~last
    <3>1. level + 1 \in Levels /\ level < maxLevel /\ newBoards
      BY <1>1, <2>2, GameAssumption DEF Levels
    <3>2. board[level + 1].open /\ BoardStore(board[level + 1], level + 1)
      BY <1>1, <3>1 DEF SolverInv, OpenOK, InLevel, StoresOK
    <3>3. board'[level + 1] = Checkpointed(board[level + 1])
      <4>1. level + 1 # level
        BY <1>1 DEF Levels
      <4> QED
        BY <1>2, <3>1, <4>1
    <3>4. board'[level'].open
      BY <1>2, <2>2, <3>2, <3>3, CheckpointedKeeps
    <3> QED
      BY <1>2, <2>2, <3>4 DEF OpenOK, InLevel
  <2> QED
    BY <2>1, <2>2
<1>8. JobsOK' /\ ReadOK'
  BY <1>1, <1>2, OffSweep DEF sweep
<1> QED
  BY <1>5, <1>6, <1>7, <1>8 DEF SolverInv
-----------------------------------------------------------------------------
\* The wins are carried back.
LEMMA WindowOpens ==
  ASSUME SolverInv, StartBackPropagation
  PROVE  LET opened == {deepestLevel, deepestLevel + 1} \cap Levels
         IN  /\ pc' = "back" /\ level' = deepestLevel
             /\ board' = [l \in Levels |-> IF l \in opened THEN OpenedBoards(board[l]) ELSE board[l]]
             /\ boardArena' = opened
             /\ moves' = [moves EXCEPT ![deepestLevel] = OpenedMoves(moves[deepestLevel])]
             /\ moveArena' = {deepestLevel} /\ left' = moves[deepestLevel].saved
             /\ lost' = (lost \/ \E l \in opened : board[l].worn)
             /\ UNCHANGED <<deepestLevel, sweep>>
<1> DEFINE opened == {deepestLevel, deepestLevel + 1} \cap Levels
<1>1. /\ pc = "open" /\ deepestLevel \in Levels /\ boardArena = {} /\ moveArena = {}
  BY DEF SolverInv, StartBackPropagation, LevelOK, ArenasOK
<1>2. /\ ~(Cardinality(boardArena \cup opened) > arenaPoolSize) /\ FreeArena(moveArena)
  <2>1. FreeArena(moveArena)
    BY <1>1, FreeFor
  <2>2. IsFiniteSet({deepestLevel}) /\ Cardinality({deepestLevel}) = 1
    BY FS_Singleton
  <2>3. /\ IsFiniteSet({deepestLevel} \cup {deepestLevel + 1})
        /\ Cardinality({deepestLevel} \cup {deepestLevel + 1}) \in {1, 2}
    BY <2>2, FS_AddElement
  <2>4. boardArena \cup opened \subseteq {deepestLevel} \cup {deepestLevel + 1}
    BY <1>1
  <2> DEFINE two == {deepestLevel} \cup {deepestLevel + 1}  held == boardArena \cup opened
  <2>5. IsFiniteSet(held) /\ Cardinality(held) <= Cardinality(two)
    <3> HIDE DEF two, held
    <3>1. held \subseteq two /\ IsFiniteSet(two)
      BY <2>3, <2>4 DEF two, held
    <3> QED
      BY <3>1, FS_Subset
  <2>6. Cardinality(held) \in Nat
    BY <2>5, FS_CardinalityType
  <2> HIDE DEF held
  <2> QED
    BY <2>1, <2>3, <2>5, <2>6, SolverAssumption DEF held
<1> QED
  BY <1>1, <1>2 DEF StartBackPropagation, OpenMoves

LEMMA StartBackPropagationKeeps == ASSUME SolverInv, StartBackPropagation PROVE SolverInv'
<1> DEFINE opened == {deepestLevel, deepestLevel + 1} \cap Levels
<1>1. /\ pc = "open" /\ deepestLevel \in Levels /\ boardArena = {} /\ moveArena = {}
  BY DEF SolverInv, StartBackPropagation, LevelOK, ArenasOK
<1>3. /\ pc' = "back" /\ level' = deepestLevel
      /\ board' = [l \in Levels |-> IF l \in opened THEN OpenedBoards(board[l]) ELSE board[l]]
      /\ boardArena' = opened
      /\ moves' = [moves EXCEPT ![deepestLevel] = OpenedMoves(moves[deepestLevel])]
      /\ moveArena' = {deepestLevel} /\ left' = moves[deepestLevel].saved
      /\ UNCHANGED <<deepestLevel, sweep>>
  BY WindowOpens
<1>4. /\ \A l \in Levels : BoardStore(board'[l], l) /\ MoveStore(moves'[l], l)
      /\ DOMAIN board' = Levels /\ DOMAIN moves' = Levels
  BY <1>3, OpenedKeeps, MovesKeep DEF SolverInv, StoresOK
<1>5. StoresOK'
  BY <1>4 DEF StoresOK, BoardStore, MoveStore, OfLevel, EdgesOf, Levels
<1>6. left' \subseteq EdgesOf(deepestLevel)
  BY <1>1, <1>3 DEF SolverInv, StoresOK, MoveStore
<1>7. LevelOK' /\ OpenOK' /\ ArenasOK' /\ CarryOK'
  BY <1>1, <1>3, <1>6
  DEF SolverInv, sweep, LevelOK, OpenOK, InLevel, ArenasOK, CarryOK, ArenasSuffice, EdgesOf, Levels
<1>8. JobsOK' /\ ReadOK'
  BY <1>1, <1>3, OffSweep DEF sweep
<1> QED
  BY <1>5, <1>7, <1>8 DEF SolverInv

LEMMA CarryBackKeeps == ASSUME SolverInv, CarryBack PROVE SolverInv'
<1>1. PICK e \in NextEdge(left) :
        /\ pc = "back"
        /\ \/ pc' = "failed" /\ UNCHANGED <<board, left>>
           \/ /\ \E wins : TSInsert(level, e.from, wins)
              /\ left' = left \ {e} /\ pc' = pc
        /\ UNCHANGED <<moves, boardArena, moveArena, level, deepestLevel, sweep>>
  BY DEF CarryBack
<1>2. e \in left
  BY DEF NextEdge, First
<1>3. level \in Levels /\ left \subseteq EdgesOf(level) /\ BoardStore(board[level], level)
  BY <1>1 DEF SolverInv, LevelOK, CarryOK, StoresOK
<1>4. StoresOK' /\ OpenOK'
  <2>1. CASE UNCHANGED board
    BY <1>1, <2>1 DEF SolverInv, StoresOK, BoardStore, MoveStore, OfLevel, EdgesOf, Levels, OpenOK, InLevel
  <2>2. CASE \E wins : TSInsert(level, e.from, wins)
    <3>1. PICK wins : TSInsert(level, e.from, wins)
      BY <2>2
    <3> DEFINE t == Inserted(board[level], e.from, wins)
    <3>2. e.from \in OfLevel(level)
      BY <1>2, <1>3, GameAssumption DEF EdgesOf, OfLevel
    <3>3. BoardStore(t, level) /\ t.open = board[level].open
      BY <1>3, <3>2, InsertedKeeps
    <3>4. board' = [board EXCEPT ![level] = t] /\ moves' = moves
      BY <1>1, <3>1 DEF TSInsert
    <3> HIDE DEF t
    <3>5. StoresOK'
      BY <1>3, <3>3, <3>4, OneBoardStore DEF SolverInv
    <3> QED
      BY <1>1, <3>5 DEF OpenOK, InLevel
  <2> QED
    BY <1>1, <2>1, <2>2
<1>5. LevelOK' /\ ArenasOK' /\ CarryOK'
  BY <1>1, <1>2, <1>3 DEF SolverInv, sweep, LevelOK, ArenasOK, InLevel, CarryOK, ArenasSuffice, EdgesOf, Levels
<1>6. JobsOK' /\ ReadOK'
  BY <1>1, OffSweep DEF sweep
<1> QED
  BY <1>4, <1>5, <1>6 DEF SolverInv

LEMMA WindowSlides ==
  ASSUME SolverInv, BackPropLevelComplete
  PROVE  LET After(l) == CASE l = level -> IF level > 0 THEN Checkpointed(board[l])
                                           ELSE ClosedBoards(Checkpointed(board[l]))
                           [] l = level + 1 -> ClosedBoards(board[l])
                           [] l = level - 1 -> OpenedBoards(board[l])
                           [] OTHER -> board[l]
         IN  /\ board' = [l \in Levels |-> After(l)] /\ UNCHANGED <<deepestLevel, sweep>>
             /\ level > 0 =>
                  /\ boardArena' = {level} \cup {level - 1} /\ moveArena' = {level - 1}
                  /\ moves' = [moves EXCEPT ![level] = ClosedMoves(moves[level]),
                                            ![level - 1] = OpenedMoves(moves[level - 1])]
                  /\ left' = moves[level - 1].saved /\ level' = level - 1 /\ pc' = pc
                  /\ lost' = (lost \/ board[level - 1].worn)
             /\ level = 0 =>
                  /\ boardArena' = {} /\ moveArena' = {}
                  /\ moves' = [moves EXCEPT ![0] = ClosedMoves(moves[0])]
                  /\ pc' = "sentinel" /\ left' = left /\ level' = level /\ lost' = lost
<1> DEFINE held == IF level < maxLevel THEN Release(boardArena, level + 1) ELSE boardArena
<1>1. /\ pc = "back" /\ level \in Levels /\ level \in Nat /\ maxLevel \in Nat
      /\ boardArena = {level, level + 1} \cap Levels /\ moveArena = {level}
  BY GameAssumption DEF SolverInv, BackPropLevelComplete, LevelOK, ArenasOK, Levels
<1>2. held = {level} /\ Release(moveArena, level) = {}
  BY <1>1 DEF Release, Levels
<1>3. FreeArena(held) /\ FreeArena(Release(moveArena, level))
  BY <1>2, FreeFor
<1>4. level = 0 => Release(held, 0) = {} /\ Release(moveArena, 0) = {}
  BY <1>1, <1>2 DEF Release
<1>5. CASE level > 0
  BY <1>2, <1>3, <1>5 DEF BackPropLevelComplete
<1>6. CASE level = 0
  BY <1>4, <1>6 DEF BackPropLevelComplete
<1> QED
  BY <1>1, <1>5, <1>6

LEMMA BackPropLevelCompleteKeeps == ASSUME SolverInv, BackPropLevelComplete PROVE SolverInv'
<1> DEFINE After(l) == CASE l = level -> IF level > 0 THEN Checkpointed(board[l])
                                         ELSE ClosedBoards(Checkpointed(board[l]))
                         [] l = level + 1 -> ClosedBoards(board[l])
                         [] l = level - 1 -> OpenedBoards(board[l])
                         [] OTHER -> board[l]
<1>1. /\ pc = "back" /\ left = {} /\ level \in Levels /\ level \in Nat /\ maxLevel \in Nat
      /\ boardArena = {level, level + 1} \cap Levels /\ moveArena = {level}
  BY GameAssumption DEF SolverInv, BackPropLevelComplete, LevelOK, ArenasOK, Levels
<1>4. \A l \in Levels : BoardStore(After(l), l)
  BY CheckpointedKeeps, ClosedKeeps, OpenedKeeps DEF SolverInv, StoresOK
<1>5. UNCHANGED <<deepestLevel, sweep>>
  BY WindowSlides
<1>6. CASE level > 0
  <2>1. /\ board' = [l \in Levels |-> After(l)]
        /\ boardArena' = {level} \cup {level - 1} /\ moveArena' = {level - 1}
        /\ moves' = [moves EXCEPT ![level] = ClosedMoves(moves[level]),
                                  ![level - 1] = OpenedMoves(moves[level - 1])]
        /\ left' = moves[level - 1].saved /\ level' = level - 1 /\ pc' = pc
    BY <1>6, WindowSlides
  <2>2. level - 1 \in Levels /\ level - 1 # level
    BY <1>1, <1>6 DEF Levels
  <2>3. \A l \in Levels : moves'[l] \in {moves[l], ClosedMoves(moves[l]), OpenedMoves(moves[l])}
    BY <1>1, <2>1, <2>2 DEF SolverInv, StoresOK
  <2>4. /\ \A l \in Levels : BoardStore(board'[l], l) /\ MoveStore(moves'[l], l)
        /\ DOMAIN board' = Levels /\ DOMAIN moves' = Levels
    BY <1>4, <2>1, <2>3, MovesKeep DEF SolverInv, StoresOK
  <2>5. StoresOK'
    BY <2>4 DEF StoresOK, BoardStore, MoveStore, OfLevel, EdgesOf, Levels
  <2>6. left' \subseteq EdgesOf(level - 1)
    BY <2>1, <2>2 DEF SolverInv, StoresOK, MoveStore
  <2>7. LevelOK' /\ OpenOK' /\ CarryOK'
    BY <1>1, <1>5, <2>1, <2>2, <2>6
    DEF SolverInv, sweep, LevelOK, OpenOK, InLevel, CarryOK, ArenasSuffice, EdgesOf, Levels
  <2>8. ArenasOK'
    BY <1>1, <2>1, <2>2 DEF ArenasOK, InLevel, Levels
  <2>9. JobsOK' /\ ReadOK'
    BY <1>1, <1>5, <2>1, OffSweep DEF sweep
  <2> QED
    BY <2>5, <2>7, <2>8, <2>9 DEF SolverInv
<1>7. CASE ~(level > 0)
  <2>1. level = 0
    BY <1>1, <1>7
  <2>2. /\ board' = [l \in Levels |-> After(l)]
        /\ boardArena' = {} /\ moveArena' = {}
        /\ moves' = [moves EXCEPT ![0] = ClosedMoves(moves[0])]
        /\ pc' = "sentinel" /\ left' = left /\ level' = level
    BY <2>1, WindowSlides
  <2>3. /\ \A l \in Levels : BoardStore(board'[l], l) /\ MoveStore(moves'[l], l)
        /\ DOMAIN board' = Levels /\ DOMAIN moves' = Levels
    BY <1>4, <2>2, MovesKeep DEF SolverInv, StoresOK
  <2>4. StoresOK'
    BY <2>3 DEF StoresOK, BoardStore, MoveStore, OfLevel, EdgesOf, Levels
  <2>6. LevelOK' /\ OpenOK' /\ ArenasOK' /\ CarryOK'
    BY <1>1, <1>5, <2>2
    DEF SolverInv, sweep, LevelOK, OpenOK, InLevel, ArenasOK, CarryOK, ArenasSuffice, Levels
  <2>7. JobsOK' /\ ReadOK'
    BY <1>1, <1>5, <2>2, OffSweep DEF sweep
  <2> QED
    BY <2>4, <2>6, <2>7 DEF SolverInv
<1> QED
  BY <1>6, <1>7

\* The steps that touch no store: the sentinel, the report, a run found complete.
LEMMA EndsKeep ==
  ASSUME SolverInv, WriteBackpropSentinel \/ Report \/ AlreadyComplete PROVE SolverInv'
<1>1. /\ \/ pc = "sentinel" /\ pc' = "report"
         \/ pc \in {"report", "down"} /\ pc' = "done"
      /\ UNCHANGED <<board, moves, boardArena, moveArena, level, deepestLevel, sweep, left>>
  <2>1. pc = "report" => boardArena = {}
    BY DEF SolverInv, ArenasOK
  <2>2. FreeArena({})
    BY FreeFor
  <2> QED
    BY <2>1, <2>2 DEF WriteBackpropSentinel, Report, AlreadyComplete, stores
<1>2. StoresOK' /\ LevelOK' /\ OpenOK' /\ ArenasOK' /\ CarryOK'
  BY <1>1 DEF SolverInv, StoresOK, BoardStore, MoveStore, OfLevel, EdgesOf, Levels, LevelOK,
     OpenOK, InLevel, ArenasOK, CarryOK, ArenasSuffice, sweep
<1>3. JobsOK' /\ ReadOK'
  BY <1>1, OffSweep DEF sweep
<1> QED
  BY <1>2, <1>3 DEF SolverInv
-----------------------------------------------------------------------------
LEMMA SolverStep == ASSUME SolverInv, [Next]_vars PROVE SolverInv'
<1>1. CASE Main
  BY <1>1, StartKeeps, RestartKeeps, EndsKeep, StartLevelKeeps, DispatchKeeps, DrainKeeps,
     CheckpointsKeep, EndLevelKeeps, StartBackPropagationKeeps, CarryBackKeeps,
     BackPropLevelCompleteKeeps DEF Main
<1>2. CASE \E w \in Workers : Job(w)
  BY <1>2, WorkerProcessBatchKeeps, JobEndKeeps DEF Job
<1>3. CASE Pool \/ \E l \in Levels : TriggerBgFlush(l)
  BY <1>3, MergesKeep DEF Pool
<1>4. CASE Crash
  BY <1>4, CrashKeeps
<1>5. CASE UNCHANGED vars
  BY <1>5 DEF SolverInv, vars, stores, sweep, StoresOK, BoardStore, MoveStore, OfLevel, EdgesOf,
     Levels, LevelOK, OpenOK, InLevel, ReadOK, JobsOK, JobOp, ArenasOK, CarryOK, ArenasSuffice
<1> QED
  BY <1>1, <1>2, <1>3, <1>4, <1>5 DEF Next

\* The inductive invariant holds of every behaviour.
LEMMA SolverAlways == Spec => []SolverInv
<1>1. Init => SolverInv
  BY SolverInit
<1>2. SolverInv /\ [Next]_vars => SolverInv'
  BY SolverStep
<1> QED
  BY <1>1, <1>2, PTL DEF Spec

(* Whatever the game, the threads and the crashes, a thread inserts only    *)
(* into open stores, and only boards and moves of the level being swept:    *)
(* the main thread never closes a level under a job (OthelloSolverCommand-  *)
(* Line.cpp, the wait for g_activeCount).                                   *)
THEOREM JobsAlwaysHaveStores == Spec => []JobsHaveStores
<1>1. SolverInv => JobsHaveStores
  <2> SUFFICES ASSUME SolverInv, NEW w \in Workers, NEW op \in worker[w].ops,
                      NEW b, b = IF op.kind = "terminal" THEN op.board ELSE op.edge.from
               PROVE  /\ LevelOf[b] = level /\ board[level].open /\ moves[level].open
                      /\ op.kind # "terminal" /\ ~op.edge.pass => board[level + 1].open
    BY DEF JobsHaveStores
  <2>1. pc = "sweep" /\ JobOp(op, level) /\ level \in Levels
    BY DEF SolverInv, JobsOK, LevelOK
  <2>2. LevelOf[b] = level
    BY <2>1 DEF JobOp, OfLevel, EdgesOf
  <2>3. board[level].open /\ moves[level].open /\ (level < maxLevel => board[level + 1].open)
    BY <2>1 DEF SolverInv, OpenOK, InLevel
  <2>4. ASSUME op.kind # "terminal", ~op.edge.pass PROVE level < maxLevel
    <3>1. op.edge \in Edges /\ LevelOf[op.edge.from] = level
      BY <2>1, <2>4 DEF JobOp, EdgesOf
    <3>2. LevelOf[op.edge.to] = level + 1 /\ LevelOf[op.edge.to] \in 0..maxLevel
      BY <2>4, <3>1, GameAssumption
    <3> QED
      BY <2>1, <3>2, GameAssumption DEF Levels
  <2> QED
    BY <2>2, <2>3, <2>4
<1> QED
  BY <1>1, SolverAlways, PTL

(* With arenas for three stores none is ever wanted in vain: at most two    *)
(* levels are open at a time, in the sweep and in the back-propagation, and *)
(* a run that fails does so over a board it cannot find, never over an      *)
(* arena (OthelloSolverCommandLine.cpp, the sliding window of stores).      *)
THEOREM ArenasAlwaysSuffice == Spec => []ArenasSuffice
<1>1. SolverInv => ArenasSuffice
  BY DEF SolverInv, CarryOK
<1> QED
  BY <1>1, SolverAlways, PTL
-----------------------------------------------------------------------------
\* What a store holds, in whichever tier, and which boards of a level the level
\* above it must have put there.
Keys(s) == DOMAIN s.mem \cup DOMAIN s.bg \cup DOMAIN s.files
Seeds(l) == {b \in OfLevel(l) : b = Root \/ \E e \in Edges : ~e.pass /\ e.to = b}

\* The manifests of the moves are written level by level, each after the one of
\* its boards; a level's own only at its end.
NamesOK ==
  /\ \A i \in Levels : moves[i].named => board[i].named
  /\ \A i, j \in Levels : i < j /\ moves[j].named => moves[i].named
  /\ pc \in {"level"} \cup InLevel =>
       \A i \in Levels : (i < level => moves[i].named) /\ (i > level => ~moves[i].named)
  /\ pc \in {"sweep", "board", "moves"} => ~moves[level].named
  /\ pc = "moves" => board[level].named
  /\ pc = "next" => moves[level].named
  /\ pc \in {"open", "back"} => moves[deepestLevel].named /\ level <= deepestLevel
  /\ pc \in InLevel => deepestLevel = level

\* A context is busy while its job counts, and a board whose wins a job inserts
\* has no moves.
BatchesOK ==
  \A w \in Workers : /\ worker[w].counted => worker[w].ctx
                     /\ \A op \in worker[w].ops : op.kind = "terminal" => Terminal(op.board)

\* A level both of whose manifests exist is whole.
Kept(l) == OfLevel(l) # {} /\ DOMAIN board[l].saved = OfLevel(l) /\ moves[l].saved = EdgesOf(l)
SavedOK == \A l \in Levels : moves[l].named => Kept(l)

SeedsOK == pc \in {"level"} \cup InLevel =>
             OfLevel(level) # {} /\ Seeds(level) \subseteq Keys(board[level])

\* A board found is still to be expanded, or each of its moves is stored or in a job.
Pending(kind, e) == \E w \in Workers : \E op \in worker[w].ops : op.kind = kind /\ op.edge = e
ChildKept(e) == IF e.pass THEN e.to \in Keys(board[level]) ELSE newBoards /\ e.to \in Keys(board[level + 1])
Expanded(e) == /\ Pending("board", e) \/ ChildKept(e)
               /\ Pending("move", e) \/ e \in moves[level].edges
InSeq(b, s) == \E i \in DOMAIN s : s[i] = b
SweepOK == pc = "sweep" =>
  \A b \in Keys(board[level]) :
    InSeq(b, toRead) \/ InSeq(b, passQueue) \/ \A e \in Out(b) : Expanded(e)
ChildrenOK == pc \in InLevel /\ newBoards => level < maxLevel /\ Keys(board[level + 1]) # {}

\* A level swept is whole, and so is what the next begins with.
DoneOK ==
  /\ pc \in {"board", "moves", "next"} =>
       /\ Keys(board[level]) = OfLevel(level) /\ moves[level].edges = EdgesOf(level)
       /\ \A e \in EdgesOf(level) : ~e.pass => ChildKept(e)
  /\ pc = "moves" => DOMAIN board[level].saved = OfLevel(level)
BackOK ==
  /\ pc = "back" => /\ Keys(board[level]) = OfLevel(level)
                    /\ level < maxLevel => Keys(board[level + 1]) = OfLevel(level + 1)
  /\ pc \in {"open", "back"} => /\ deepestLevel = Deepest
                               /\ \A b \in Boards : LevelOf[b] <= deepestLevel

WholeOK == SavedOK /\ SeedsOK /\ SweepOK /\ ChildrenOK /\ DoneOK /\ BackOK /\ pc # "failed"
PlayInv == NamesOK /\ BatchesOK /\ (~lost => WholeOK)
-----------------------------------------------------------------------------
LEMMA InsertedKeys ==
  ASSUME NEW l, NEW s, BoardStore(s, l), NEW b, NEW delta
  PROVE  /\ Keys(Inserted(s, b, delta)) = Keys(s) \cup {b}
         /\ Inserted(s, b, delta).saved = s.saved /\ Inserted(s, b, delta).named = s.named
<1> DEFINE m == Put(s.mem, b, delta)  t == Inserted(s, b, delta)
<1>1. DOMAIN m = DOMAIN s.mem \cup {b}
  BY PutDomain
<1> HIDE DEF m
<1>2. t.mem = m /\ t.bg = s.bg /\ t.files = s.files /\ t.saved = s.saved /\ t.named = s.named
  BY DEF BoardStore, Inserted, m
<1> QED
  BY <1>1, <1>2 DEF Keys

LEMMA FilledKeys ==
  ASSUME NEW l, NEW s, BoardStore(s, l), DOMAIN s.bg = {}
  PROVE  Keys(Filled(s)) = Keys(s) /\ Filled(s).saved = s.saved /\ Filled(s).named = s.named
<1>1. /\ Filled(s).mem = Empty /\ Filled(s).bg = s.mem /\ Filled(s).files = s.files
      /\ Filled(s).saved = s.saved /\ Filled(s).named = s.named
  BY DEF BoardStore, Filled
<1> QED
  BY <1>1, EmptyDomain DEF Keys

LEMMA MergedKeys ==
  ASSUME NEW l, NEW s, BoardStore(s, l)
  PROVE  Keys(Merged(s)) = Keys(s) /\ Merged(s).saved = s.saved /\ Merged(s).named = s.named
<1> DEFINE m == Merge(s.bg, s.files)
<1>1. DOMAIN m = DOMAIN s.bg \cup DOMAIN s.files
  BY MergeDomain
<1> HIDE DEF m
<1>2. /\ Merged(s).mem = s.mem /\ Merged(s).bg = Empty /\ Merged(s).files = m
      /\ Merged(s).saved = s.saved /\ Merged(s).named = s.named
  BY DEF BoardStore, Merged, m
<1> QED
  BY <1>1, <1>2, EmptyDomain DEF Keys

LEMMA ContentsKeys == ASSUME NEW s PROVE DOMAIN Contents(s) = Keys(s)
<1>1. DOMAIN Contents(s) = DOMAIN s.mem \cup DOMAIN Merge(s.bg, s.files)
  BY MergeDomain DEF Contents
<1>2. DOMAIN Merge(s.bg, s.files) = DOMAIN s.bg \cup DOMAIN s.files
  BY MergeDomain
<1> QED
  BY <1>1, <1>2 DEF Keys

LEMMA FlushedKeys ==
  ASSUME NEW l, NEW s, BoardStore(s, l)
  PROVE  Keys(Flushed(s)) = Keys(s) /\ Flushed(s).saved = s.saved /\ Flushed(s).named = s.named
<1>1. /\ Flushed(s).mem = Empty /\ Flushed(s).bg = s.bg /\ Flushed(s).files = Contents(s)
      /\ Flushed(s).saved = s.saved /\ Flushed(s).named = s.named
  BY DEF BoardStore, Flushed
<1>2. DOMAIN s.bg \subseteq Keys(s)
  BY DEF Keys
<1>3. Keys(Flushed(s)) = {} \cup DOMAIN s.bg \cup Keys(s)
  BY <1>1, ContentsKeys, EmptyDomain DEF Keys
<1> QED
  BY <1>1, <1>2, <1>3

LEMMA CheckpointedKeys ==
  ASSUME NEW l, NEW s, BoardStore(s, l)
  PROVE  /\ Keys(Checkpointed(s)) = Keys(s)
         /\ DOMAIN Checkpointed(s).saved = Keys(s) /\ Checkpointed(s).named = TRUE
<1> DEFINE f == Flushed(s)  t == Checkpointed(s)
<1>1. BoardStore(f, l) /\ Keys(f) = Keys(s)
  BY FlushedKeeps, FlushedKeys
<1>2. DOMAIN f = DOMAIN s
  BY DEF Flushed
<1> HIDE DEF f
<1>3. t.mem = f.mem /\ t.bg = f.bg /\ t.files = f.files /\ t.saved = Contents(s) /\ t.named = TRUE
  BY <1>1 DEF BoardStore, Checkpointed, f
<1>4. Keys(t) = Keys(f)
  BY <1>3 DEF Keys
<1> QED
  BY <1>1, <1>3, <1>4, ContentsKeys

\* A store opened whose files are still there has what its manifest names.
LEMMA OpenedKeys ==
  ASSUME NEW l, NEW s, BoardStore(s, l)
  PROVE  /\ ~s.worn => DOMAIN s.saved \subseteq Keys(OpenedBoards(s))
         /\ OpenedBoards(s).saved = s.saved /\ OpenedBoards(s).named = s.named
<1> DEFINE t == OpenedBoards(s)
<1>1. /\ t.files = (IF s.worn THEN Empty ELSE s.saved) /\ t.saved = s.saved /\ t.named = s.named
  BY DEF BoardStore, OpenedBoards
<1> QED
  BY <1>1 DEF Keys

LEMMA ClosedKeys ==
  ASSUME NEW l, NEW s, BoardStore(s, l)
  PROVE  ClosedBoards(s).saved = s.saved /\ ClosedBoards(s).named = s.named
BY DEF BoardStore, ClosedBoards

LEMMA KeysOfLevel == ASSUME NEW l, NEW s, BoardStore(s, l) PROVE Keys(s) \subseteq OfLevel(l)
BY DEF BoardStore, Keys

LEMMA CreatedKeys == /\ Keys(CreatedBoards) = {}
                     /\ CreatedBoards.named = FALSE /\ NoBoards.named = FALSE
                     /\ CreatedMoves.named = FALSE /\ NoMoves.named = FALSE
BY EmptyDomain DEF CreatedBoards, NoBoards, CreatedMoves, NoMoves, Keys

LEMMA RecordedNames ==
  ASSUME NEW l, NEW s, MoveStore(s, l), NEW e
  PROVE  /\ Recorded(s, e).edges = s.edges \cup {e}
         /\ Recorded(s, e).saved = s.saved /\ Recorded(s, e).named = s.named
BY DEF MoveStore, Recorded

LEMMA MovesNames ==
  ASSUME NEW l, NEW s, MoveStore(s, l)
  PROVE  /\ OpenedMoves(s).saved = s.saved /\ OpenedMoves(s).named = s.named
         /\ ClosedMoves(s).saved = s.saved /\ ClosedMoves(s).named = s.named
         /\ NamedMoves(s).saved = s.edges /\ NamedMoves(s).named = TRUE
         /\ NamedMoves(s).edges = s.edges
BY DEF MoveStore, OpenedMoves, ClosedMoves, NamedMoves
-----------------------------------------------------------------------------
\* Every board is reached: a level that has what the level above it leads to and
\* whose passes stay in it is whole, and one that no move leaves is the last.
LEMMA LevelReached ==
  ASSUME NEW l \in Levels, NEW found \in SUBSET OfLevel(l), Seeds(l) \subseteq found,
         \A e \in Edges : e.from \in found /\ e.pass => e.to \in found
  PROVE  found = OfLevel(l)
<1> DEFINE S == {b \in Boards : LevelOf[b] # l} \cup found
<1>1. S \subseteq Boards /\ OfLevel(l) \subseteq Boards
  BY DEF OfLevel
<1>2. Root \in S
  BY FirstBoard DEF OfLevel, Seeds
<1>3. ASSUME NEW e \in Edges, e.from \in S PROVE e.to \in S
  <2>1. /\ e.from \in Boards /\ e.to \in Boards /\ e.pass \in BOOLEAN /\ LevelOf[e.from] \in Nat
        /\ LevelOf[e.to] = IF e.pass THEN LevelOf[e.from] ELSE LevelOf[e.from] + 1
    BY Steps
  <2>2. CASE LevelOf[e.to] # l
    BY <2>1, <2>2
  <2>3. CASE LevelOf[e.to] = l /\ e.pass
    <3>1. LevelOf[e.from] = l
      BY <2>1, <2>3
    <3> QED
      BY <1>3, <2>3, <3>1
  <2>4. CASE LevelOf[e.to] = l /\ ~e.pass
    BY <2>1, <2>4 DEF Seeds, OfLevel
  <2> QED
    BY <2>1, <2>2, <2>3, <2>4
<1>4. S = Boards
  BY <1>1, <1>2, <1>3, PlayAssumption
<1> QED
  BY <1>4 DEF OfLevel

LEMMA LastReached ==
  ASSUME NEW l \in Levels, OfLevel(l) # {}, \A e \in EdgesOf(l) : e.pass
  PROVE  l = Deepest /\ \A b \in Boards : LevelOf[b] <= l
<1> DEFINE S == {b \in Boards : LevelOf[b] <= l}
<1>0. l \in Nat /\ maxLevel \in Nat
  BY GameAssumption DEF Levels
<1>1. Root \in S
  BY <1>0, FirstBoard DEF OfLevel
<1>2. ASSUME NEW e \in Edges, e.from \in S PROVE e.to \in S
  <2>1. /\ e.from \in Boards /\ e.to \in Boards /\ e.pass \in BOOLEAN /\ LevelOf[e.from] \in Nat
        /\ LevelOf[e.to] = IF e.pass THEN LevelOf[e.from] ELSE LevelOf[e.from] + 1
    BY Steps
  <2>2. LevelOf[e.from] = l => e.pass
    BY <2>1 DEF EdgesOf
  <2> QED
    BY <1>0, <1>2, <2>1, <2>2
<1>3. S \in SUBSET Boards
  OBVIOUS
<1>4. S = Boards
  BY <1>1, <1>2, <1>3, PlayAssumption
<1> DEFINE T == {LevelOf[b] : b \in Boards}
<1>5. l \in T /\ T \subseteq Nat /\ \A i \in T : i <= l
  <2>1. \A b \in Boards : LevelOf[b] \in Nat /\ LevelOf[b] <= l
    BY <1>4, LevelType
  <2> QED
    BY <2>1 DEF OfLevel
<1>6. Max(T) \in T /\ \A i \in T : Max(T) >= i
  <2> HIDE DEF T
  <2>1. \E i \in T : \A j \in T : i >= j
    BY <1>0, <1>5
  <2> QED
    BY <2>1 DEF Max
<1>7. Deepest = Max(T)
  BY DEF Deepest
<1> HIDE DEF T
<1>8. Max(T) \in Nat /\ Max(T) >= l /\ Max(T) <= l
  BY <1>5, <1>6
<1> QED
  BY <1>0, <1>4, <1>7, <1>8
-----------------------------------------------------------------------------
\* The steps that move records between the tiers of stores.
LEMMA SameKeys ==
  ASSUME SolverInv, PlayInv, UNCHANGED <<moves, pc, level, deepestLevel, sweep, lost>>,
         \A l \in Levels : /\ Keys(board'[l]) = Keys(board[l])
                           /\ board'[l].saved = board[l].saved /\ board'[l].named = board[l].named
  PROVE  PlayInv'
<1>1. level \in Levels /\ deepestLevel \in Levels /\ level \in Nat /\ maxLevel \in Nat
  BY GameAssumption DEF SolverInv, LevelOK, Levels
<1>2. level < maxLevel => level + 1 \in Levels
  BY <1>1 DEF Levels
<1>3. NamesOK' /\ BatchesOK'
  BY <1>1 DEF PlayInv, NamesOK, BatchesOK, InLevel, sweep, Terminal, Out, Levels
<1>4. ASSUME ~lost' PROVE WholeOK'
  <2>1. WholeOK
    BY <1>4 DEF PlayInv
  <2>2. SavedOK'
    BY <2>1 DEF WholeOK, SavedOK, Kept, OfLevel, EdgesOf, Levels
  <2>3. SeedsOK'
    BY <1>1, <2>1 DEF WholeOK, SeedsOK, Seeds, OfLevel, InLevel, Root
  <2>4. \A e \in EdgesOf(level) : ChildKept(e)' <=> ChildKept(e)
    <3> SUFFICES ASSUME NEW e \in EdgesOf(level) PROVE ChildKept(e)' <=> ChildKept(e)
      OBVIOUS
    <3>1. ~e.pass => level + 1 \in Levels
      BY <1>1, GameAssumption DEF EdgesOf, Levels
    <3> QED
      BY <1>1, <3>1 DEF ChildKept, sweep
  <2>5. \A b \in Keys(board[level]) : Out(b) \subseteq EdgesOf(level)
    BY <1>1, KeysOfLevel DEF SolverInv, StoresOK, Out, EdgesOf, OfLevel
  <2>6. SweepOK'
    BY <1>1, <2>1, <2>4, <2>5 DEF WholeOK, SweepOK, Expanded, Pending, InSeq, Out, sweep
  <2>7. ChildrenOK' /\ DoneOK'
    BY <1>1, <1>2, <2>1, <2>4 DEF WholeOK, ChildrenOK, DoneOK, InLevel, OfLevel, EdgesOf, sweep
  <2>8. BackOK' /\ pc' # "failed"
    BY <1>1, <1>2, <2>1 DEF WholeOK, BackOK, OfLevel, Deepest
  <2> QED
    BY <2>2, <2>3, <2>6, <2>7, <2>8 DEF WholeOK
<1> QED
  BY <1>3, <1>4 DEF PlayInv

LEMMA MergesPlay ==
  ASSUME SolverInv, PlayInv, NEW l \in Levels, TriggerBgFlush(l) \/ MergeEnds(l) PROVE PlayInv'
<1> DEFINE t == IF TriggerBgFlush(l) THEN Filled(board[l]) ELSE Merged(board[l])
<1>1. BoardStore(board[l], l) /\ DOMAIN board = Levels
  BY DEF SolverInv, StoresOK
<1>2. Keys(t) = Keys(board[l]) /\ t.saved = board[l].saved /\ t.named = board[l].named
  <2>1. CASE TriggerBgFlush(l)
    BY <1>1, <2>1, FilledKeys, EmptyDomain DEF TriggerBgFlush, Quiet
  <2>2. CASE ~TriggerBgFlush(l)
    BY <1>1, <2>2, MergedKeys
  <2> QED
    BY <2>1, <2>2
<1>3. /\ board' = [board EXCEPT ![l] = t]
      /\ UNCHANGED <<moves, pc, level, deepestLevel, sweep, lost>>
  BY DEF TriggerBgFlush, MergeEnds, history
<1> HIDE DEF t
<1>4. \A i \in Levels : board'[i] = IF i = l THEN t ELSE board[i]
  BY <1>1, <1>3
<1>5. \A i \in Levels : /\ Keys(board'[i]) = Keys(board[i])
                        /\ board'[i].saved = board[i].saved /\ board'[i].named = board[i].named
  BY <1>2, <1>4
<1> QED
  BY <1>3, <1>5, SameKeys
-----------------------------------------------------------------------------
\* A run begins, anew or again, or ends.
LEMMA NamesOfMoves ==
  ASSUME SolverInv, NEW l \in Levels
  PROVE  /\ OpenedMoves(moves[l]).saved = moves[l].saved /\ OpenedMoves(moves[l]).named = moves[l].named
         /\ ClosedMoves(moves[l]).saved = moves[l].saved /\ ClosedMoves(moves[l]).named = moves[l].named
<1>1. MoveStore(moves[l], l)
  BY DEF SolverInv, StoresOK
<1> QED
  BY <1>1, MovesNames

LEMMA SavedStays ==
  ASSUME SavedOK,
         \A l \in Levels : moves'[l].named => /\ moves[l].named /\ moves'[l].saved = moves[l].saved
                                              /\ DOMAIN board'[l].saved = DOMAIN board[l].saved
  PROVE  SavedOK'
BY DEF SavedOK, Kept, OfLevel, EdgesOf, Levels

LEMMA StartPlays == ASSUME SolverInv, PlayInv, doStartProcess PROVE PlayInv'
<1> DEFINE m == Put(Empty, Root, Zero)  first == [CreatedBoards EXCEPT !.mem = m]
<1>1. DOMAIN m = {Root}
  <2>1. DOMAIN m = DOMAIN Empty \cup {Root}
    BY PutDomain
  <2> QED
    BY <2>1, EmptyDomain
<1>2. first.mem = m /\ first.named = FALSE
  BY DEF CreatedBoards, NoBoards
<1>3. Root \in Keys(first)
  BY <1>1, <1>2 DEF Keys
<1> HIDE DEF first
<1>4. /\ board' = [[l \in Levels |-> NoBoards] EXCEPT ![0] = first]
      /\ moves' = [l \in Levels |-> NoMoves]
      /\ pc' = "level" /\ level' = 0 /\ worker' = [w \in Workers |-> Idle]
  BY DEF doStartProcess, Reset, first
<1>5. /\ board'[0] = first /\ \A l \in Levels : l # 0 => board'[l] = NoBoards
      /\ \A l \in Levels : board'[l].named = FALSE /\ moves'[l].named = FALSE
  BY <1>2, <1>4, FirstBoard, CreatedKeys
<1>6. NamesOK'
  BY <1>4, <1>5, GameAssumption DEF NamesOK, InLevel, Levels
<1>7. BatchesOK'
  BY <1>4 DEF BatchesOK, Idle
<1>8. Root \in OfLevel(0) /\ Seeds(0) \subseteq {Root}
  BY FirstBoard, Steps DEF Seeds, OfLevel
<1>9. SeedsOK'
  BY <1>3, <1>4, <1>5, <1>8 DEF SeedsOK, Seeds, OfLevel
<1>10. WholeOK'
  BY <1>4, <1>5, <1>9 DEF WholeOK, SavedOK, SweepOK, ChildrenOK, DoneOK, BackOK, InLevel
<1> QED
  BY <1>6, <1>7, <1>10 DEF PlayInv

LEMMA RestartPlays == ASSUME SolverInv, PlayInv, doRestartProcess PROVE PlayInv'
<1>1. PICK l \in Levels :
        /\ pc = "down" /\ board' = [board EXCEPT ![l] = OpenedBoards(board[l])]
        /\ pc' = "level" /\ level' = l /\ LastWhole(l) /\ lost' = (lost \/ board[l].worn)
        /\ UNCHANGED <<moves, sweep>>
  BY DEF doRestartProcess
<1>2. BoardStore(board[l], l) /\ DOMAIN board = Levels /\ l \in Nat /\ maxLevel \in Nat
  BY GameAssumption DEF SolverInv, StoresOK, Levels
<1>3. /\ board'[l] = OpenedBoards(board[l]) /\ \A i \in Levels : i # l => board'[i] = board[i]
      /\ \A i \in Levels : board'[i].saved = board[i].saved /\ board'[i].named = board[i].named
  BY <1>1, <1>2, OpenedKeys
<1>4. \A i \in 0..l : moves[i].named
  BY <1>1 DEF LastWhole, Whole
<1>5. \A i \in Levels : i > l => ~moves[i].named
  <2> SUFFICES ASSUME NEW i \in Levels, i > l, moves[i].named PROVE FALSE
    OBVIOUS
  <2>1. l < maxLevel /\ i \in Nat /\ i <= maxLevel
    BY <1>2 DEF Levels
  <2>2. \A j \in 0..(l + 1) : moves[j].named
    <3>1. \A j \in 0..(l + 1) : j \in Levels /\ (j < i \/ j = i)
      BY <1>2, <2>1 DEF Levels
    <3> QED
      BY <3>1 DEF PlayInv, NamesOK
  <2>3. \A j \in 0..(l + 1) : board[j].named
    <3>1. \A j \in 0..(l + 1) : j \in Levels
      BY <1>2, <2>1 DEF Levels
    <3> QED
      BY <2>2, <3>1 DEF PlayInv, NamesOK
  <2> QED
    BY <1>1, <2>1, <2>2, <2>3 DEF LastWhole, Whole
<1>6. NamesOK'
  <2>1. \A i \in Levels : i < l => moves[i].named
    BY <1>2, <1>4 DEF Levels
  <2> QED
    BY <1>1, <1>3, <1>5, <2>1 DEF PlayInv, NamesOK, InLevel, Levels
<1>7. BatchesOK'
  BY <1>1 DEF PlayInv, BatchesOK, Terminal, Out, sweep
<1>8. ASSUME ~lost' PROVE WholeOK'
  <2>1. WholeOK /\ ~board[l].worn
    BY <1>1, <1>8 DEF PlayInv
  <2>2. SavedOK'
    BY <1>1, <1>3, <2>1, SavedStays DEF WholeOK
  <2>3. Kept(l)
    <3>1. moves[l].named
      BY <1>2, <1>4
    <3> QED
      BY <2>1, <3>1 DEF WholeOK, SavedOK
  <2>4. OfLevel(l) \subseteq Keys(board'[l])
    BY <1>2, <1>3, <2>1, <2>3, OpenedKeys DEF Kept
  <2>5. SeedsOK'
    BY <1>1, <2>3, <2>4 DEF SeedsOK, Seeds, OfLevel, Kept
  <2> QED
    BY <1>1, <2>2, <2>5 DEF WholeOK, SweepOK, ChildrenOK, DoneOK, BackOK, InLevel
<1> QED
  BY <1>6, <1>7, <1>8 DEF PlayInv

LEMMA CrashPlays == ASSUME SolverInv, PlayInv, Crash PROVE PlayInv'
<1>1. /\ board' = [l \in Levels |-> ClosedBoards(board[l])]
      /\ moves' = [l \in Levels |-> ClosedMoves(moves[l])]
      /\ pc' = "down" /\ lost' = lost /\ worker' = [w \in Workers |-> Idle]
  BY DEF Crash, Reset
<1>2. \A l \in Levels : /\ board'[l].named = board[l].named /\ moves'[l].named = moves[l].named
                        /\ moves'[l].saved = moves[l].saved /\ board'[l].saved = board[l].saved
  <2> SUFFICES ASSUME NEW l \in Levels
               PROVE  /\ board'[l].named = board[l].named /\ moves'[l].named = moves[l].named
                      /\ moves'[l].saved = moves[l].saved /\ board'[l].saved = board[l].saved
    OBVIOUS
  <2>1. BoardStore(board[l], l) /\ MoveStore(moves[l], l)
    BY DEF SolverInv, StoresOK
  <2>2. board'[l] = ClosedBoards(board[l]) /\ moves'[l] = ClosedMoves(moves[l])
    BY <1>1
  <2> QED
    BY <2>1, <2>2, ClosedKeys, MovesNames
<1>3. NamesOK' /\ BatchesOK'
  BY <1>1, <1>2 DEF PlayInv, NamesOK, InLevel, BatchesOK, Idle, Levels
<1>4. ASSUME ~lost' PROVE WholeOK'
  <2>1. SavedOK'
    BY <1>1, <1>2, <1>4, SavedStays DEF PlayInv, WholeOK
  <2> QED
    BY <1>1, <2>1 DEF WholeOK, SeedsOK, SweepOK, ChildrenOK, DoneOK, BackOK, InLevel
<1> QED
  BY <1>3, <1>4 DEF PlayInv

LEMMA EndsPlay ==
  ASSUME SolverInv, PlayInv, WriteBackpropSentinel \/ Report \/ AlreadyComplete PROVE PlayInv'
<1>1. /\ pc' \in {"report", "done"}
      /\ UNCHANGED <<board, moves, level, deepestLevel, sweep, lost>>
  <2>1. pc = "report" => boardArena = {}
    BY DEF SolverInv, ArenasOK
  <2>2. FreeArena({})
    BY FreeFor
  <2> QED
    BY <2>1, <2>2 DEF WriteBackpropSentinel, Report, AlreadyComplete, stores, history
<1>2. NamesOK' /\ BatchesOK'
  BY <1>1 DEF PlayInv, NamesOK, InLevel, BatchesOK, Terminal, Out, Levels, sweep
<1>3. ASSUME ~lost' PROVE WholeOK'
  <2>1. SavedOK'
    BY <1>1, <1>3, SavedStays DEF PlayInv, WholeOK
  <2> QED
    BY <1>1, <2>1 DEF WholeOK, SeedsOK, SweepOK, ChildrenOK, DoneOK, BackOK, InLevel
<1> QED
  BY <1>2, <1>3 DEF PlayInv
-----------------------------------------------------------------------------
\* The iterator of a level returns all its boards.
LEMMA AscendingAll ==
  ASSUME NEW S \in SUBSET Nat, IsFiniteSet(S), NEW s \in Ascending(S), NEW b \in S
  PROVE  InSeq(b, s)
<1> DEFINE n == Cardinality(S)
<1>1. n \in Nat
  BY FS_CardinalityType
<1>2. IsFiniteSet(1..n) /\ Cardinality(1..n) = n
  BY <1>1, FS_Interval
<1>3. s \in [1..n -> S] /\ \A i, j \in 1..n : i < j => s[i] < s[j]
  BY DEF Ascending
<1>4. s \in Injection(1..n, S)
  <2>1. ASSUME NEW i \in 1..n, NEW j \in 1..n, s[i] = s[j] PROVE i = j
    <3>1. s[i] \in Nat /\ s[j] \in Nat
      BY <1>3
    <3>3. i \in Nat /\ j \in Nat
      BY <1>1
    <3>2. ~(i < j) /\ ~(j < i)
      BY <1>3, <2>1, <3>1
    <3> QED
      BY <3>2, <3>3
  <2> HIDE DEF n
  <2> QED
    BY <1>3, <2>1 DEF Injection, IsInjective
<1> HIDE DEF n
<1>5. s \in Surjection(1..n, S)
  BY <1>2, <1>4, FS_Injection DEF n
<1> QED
  BY <1>3, <1>5 DEF Surjection, InSeq

-----------------------------------------------------------------------------
\* The sweep of a level.
LEMMA StartLevelPlays == ASSUME SolverInv, PlayInv, StartLevel PROVE PlayInv'
<1> DEFINE held == Contents(board[level])
<1>1. /\ pc = "level" /\ level \in Levels
      /\ BoardStore(board[level], level) /\ DOMAIN board = Levels /\ DOMAIN moves = Levels
  BY DEF SolverInv, StartLevel, LevelOK, StoresOK
<1>3. /\ pc' = "sweep" /\ deepestLevel' = level /\ level' = level
      /\ moves' = [moves EXCEPT ![level] = CreatedMoves]
      /\ board' = [l \in Levels |-> IF l = level THEN Flushed(board[l])
                                    ELSE IF l = level + 1 THEN CreatedBoards ELSE board[l]]
      /\ toRead' \in Ascending(DOMAIN held)
      /\ newBoards' = FALSE
      /\ UNCHANGED <<passQueue, worker, lost>>
  BY LevelStarts
<1>4. level \in Nat /\ \A i \in Levels : i \in Nat
  BY <1>1 DEF Levels
<1>5. /\ moves'[level].named = FALSE /\ \A i \in Levels : i # level => moves'[i] = moves[i]
      /\ \A i \in Levels : i < level => board'[i] = board[i]
      /\ board'[level] = Flushed(board[level])
  BY <1>1, <1>3, <1>4, CreatedKeys
<1>6. \A i \in Levels : moves'[i].named => i < level /\ moves[i].named
  BY <1>1, <1>4, <1>5 DEF PlayInv, NamesOK
<1>7. NamesOK'
  <2>1. \A i \in Levels : i < level => moves'[i].named /\ board'[i].named
    BY <1>1, <1>4, <1>5 DEF PlayInv, NamesOK
  <2> QED
    BY <1>3, <1>4, <1>5, <1>6, <2>1 DEF NamesOK, InLevel, Levels
<1>8. BatchesOK'
  BY <1>3 DEF PlayInv, BatchesOK, Terminal, Out
<1>9. Keys(board'[level]) = Keys(board[level]) /\ DOMAIN held = Keys(board[level])
  BY <1>1, <1>5, FlushedKeys, ContentsKeys
<1> HIDE DEF held
<1>10. ASSUME ~lost' PROVE WholeOK'
  <2>1. WholeOK
    BY <1>3, <1>10 DEF PlayInv
  <2>2. SavedOK'
    BY <1>5, <1>6, <2>1, SavedStays DEF WholeOK
  <2>3. SeedsOK'
    BY <1>1, <1>3, <1>9, <2>1 DEF WholeOK, SeedsOK, Seeds, OfLevel
  <2>4. SweepOK'
    <3>1. Keys(board[level]) \subseteq Boards
      BY <1>1, KeysOfLevel DEF OfLevel
    <3>2. Keys(board[level]) \subseteq Nat /\ IsFiniteSet(Keys(board[level]))
      BY <3>1, GameAssumption, FS_Subset
    <3>3. \A b \in Keys(board[level]) : InSeq(b, toRead')
      BY <1>3, <1>9, <3>2, AscendingAll
    <3>4. \A b \in Keys(board'[level]) : InSeq(b, toRead)'
      BY <1>9, <3>3 DEF InSeq
    <3> QED
      BY <1>3, <3>4 DEF SweepOK
  <2> QED
    BY <1>3, <2>2, <2>3, <2>4 DEF WholeOK, ChildrenOK, DoneOK, BackOK
<1> QED
  BY <1>7, <1>8, <1>10 DEF PlayInv

\* While the level is swept, records are added and none is lost.
LEMMA Sweeping ==
  ASSUME SolverInv, PlayInv, pc = "sweep", pc' = "sweep", UNCHANGED <<level, deepestLevel, lost>>,
         \A l \in Levels : /\ Keys(board[l]) \subseteq Keys(board'[l])
                           /\ board'[l].saved = board[l].saved /\ board'[l].named = board[l].named
                           /\ moves'[l].saved = moves[l].saved /\ moves'[l].named = moves[l].named,
         BatchesOK', ~lost => SweepOK' /\ ChildrenOK'
  PROVE  PlayInv'
<1>1. level \in Levels /\ deepestLevel \in Levels
  BY DEF SolverInv, LevelOK
<1>2. NamesOK'
  BY <1>1 DEF PlayInv, NamesOK, InLevel, Levels
<1>3. ASSUME ~lost' PROVE WholeOK'
  <2>1. WholeOK
    BY <1>3 DEF PlayInv
  <2>2. SavedOK'
    BY <2>1, SavedStays DEF WholeOK
  <2>3. SeedsOK'
    BY <1>1, <2>1 DEF WholeOK, SeedsOK, Seeds, OfLevel, InLevel
  <2> QED
    BY <1>3, <2>2, <2>3 DEF WholeOK, DoneOK, BackOK
<1> QED
  BY <1>2, <1>3 DEF PlayInv

LEMMA ExpandedStays ==
  ASSUME SolverInv, NEW e \in EdgesOf(level), Expanded(e), level' = level, newBoards => newBoards',
         \A l \in Levels : Keys(board[l]) \subseteq Keys(board'[l]),
         moves[level].edges \subseteq moves'[level].edges,
         Pending("board", e) => Pending("board", e)' \/ ChildKept(e)',
         Pending("move", e) => Pending("move", e)' \/ e \in moves'[level].edges
  PROVE  Expanded(e)'
<1>1. level \in Levels /\ level \in Nat
  BY DEF SolverInv, LevelOK, Levels
<1>2. ~e.pass => level + 1 \in Levels
  <2>1. LevelOf[e.to] \in Levels /\ LevelOf[e.from] = level /\ (~e.pass => LevelOf[e.to] = LevelOf[e.from] + 1)
    BY Steps DEF EdgesOf
  <2> QED
    BY <2>1
<1>3. ChildKept(e) => ChildKept(e)'
  BY <1>1, <1>2 DEF ChildKept
<1> QED
  BY <1>3 DEF Expanded

LEMMA FoundEdges ==
  ASSUME SolverInv, NEW b \in Keys(board[level]) PROVE Out(b) \subseteq EdgesOf(level)
<1>1. BoardStore(board[level], level)
  BY DEF SolverInv, StoresOK, LevelOK
<1>2. b \in OfLevel(level)
  BY <1>1, KeysOfLevel
<1> QED
  BY <1>2 DEF Out, EdgesOf, OfLevel

LEMMA JobEndPlays ==
  ASSUME SolverInv, PlayInv, NEW w \in Workers, Counted(w) \/ ReturnContext(w) PROVE PlayInv'
<1>1. /\ UNCHANGED <<board, moves, pc, level, deepestLevel, toRead, newBoards, passQueue, lost>>
      /\ DOMAIN worker' = Workers
      /\ \A v \in Workers : /\ worker'[v].ops = worker[v].ops
                            /\ worker'[v].counted => worker'[v].ctx
  <2>1. /\ DOMAIN worker = Workers
        /\ \A v \in Workers : DOMAIN worker[v] = {"ctx", "counted", "ops"}
    BY DEF SolverInv, JobsOK
  <2>2. UNCHANGED <<board, moves, pc, level, deepestLevel, toRead, newBoards, passQueue, lost>>
    BY DEF Counted, ReturnContext, stores, history
  <2>3. CASE Counted(w)
    BY <2>1, <2>2, <2>3 DEF Counted, PlayInv, BatchesOK
  <2>4. CASE ReturnContext(w)
    BY <2>1, <2>2, <2>4 DEF ReturnContext, PlayInv, BatchesOK
  <2> QED
    BY <2>3, <2>4
<1>2. NamesOK' /\ BatchesOK'
  BY <1>1 DEF PlayInv, NamesOK, BatchesOK, Terminal, Out, InLevel, Levels
<1>3. \A kind, e : Pending(kind, e)' <=> Pending(kind, e)
  BY <1>1 DEF Pending
<1>4. ASSUME ~lost' PROVE WholeOK'
  <2>1. WholeOK
    BY <1>1, <1>4 DEF PlayInv
  <2>2. SavedOK' /\ SeedsOK' /\ ChildrenOK' /\ DoneOK' /\ BackOK' /\ pc' # "failed"
    BY <1>1, <2>1 DEF WholeOK, SavedOK, Kept, SeedsOK, Seeds, ChildrenOK, DoneOK, BackOK, ChildKept, EdgesOf,
       OfLevel, InLevel, Levels, Deepest
  <2>3. SweepOK'
    BY <1>1, <1>3, <2>1 DEF WholeOK, SweepOK, Expanded, ChildKept, InSeq, Out
  <2> QED
    BY <2>2, <2>3 DEF WholeOK
<1> QED
  BY <1>2, <1>4 DEF PlayInv

\* A board of a batch has an insert for each of its moves, and for their children.
LEMMA BatchInserts ==
  ASSUME NEW batch, NEW n \in DOMAIN batch, NEW e \in Out(batch[n]), NEW kind \in {"board", "move"}
  PROVE  \E op \in Inserts(batch) : op.kind = kind /\ op.edge = e
<1> DEFINE op == [kind |-> kind, n |-> n, edge |-> e]
<1>1. op \in EdgeOps(batch, n)
  BY DEF EdgeOps
<1>2. op \in Inserts(batch)
  BY <1>1 DEF Inserts
<1>3. op.kind = kind /\ op.edge = e
  OBVIOUS
<1> QED
  BY <1>2, <1>3

LEMMA BatchTerminals ==
  ASSUME NEW batch, NEW op \in Inserts(batch), op.kind = "terminal" PROVE Terminal(op.board)
<1>1. CASE op \in Terminals(batch)
  BY <1>1 DEF Terminals
<1>2. CASE \E n \in DOMAIN batch : op \in EdgeOps(batch, n)
  BY <1>2 DEF EdgeOps
<1> QED
  BY <1>1, <1>2 DEF Inserts

LEMMA DispatchPlays == ASSUME SolverInv, PlayInv, NEW w \in Workers, Dispatch(w) PROVE PlayInv'
<1> DEFINE got == IF Len(toRead) < batchSize THEN Len(toRead) ELSE batchSize
           batch == SubSeq(toRead, 1, got)
           rest == SubSeq(toRead, got + 1, Len(toRead))
           ops == Inserts(batch)
<1>1. /\ pc = "sweep" /\ level \in Levels /\ toRead \in Seq(OfLevel(level)) /\ ~worker[w].ctx
      /\ worker' = [worker EXCEPT ![w] = [ctx |-> TRUE, counted |-> TRUE, ops |-> ops]]
      /\ toRead' = rest
      /\ UNCHANGED <<board, moves, pc, level, deepestLevel, newBoards, passQueue, lost>>
  BY DEF SolverInv, Dispatch, LevelOK, ReadOK, stores, history
<1>2. Len(toRead) \in Nat /\ got \in 0..Len(toRead)
  BY <1>1, SolverAssumption
<1> HIDE DEF got
<1>3. \A b : InSeq(b, toRead) => InSeq(b, rest) \/ \E n \in DOMAIN batch : batch[n] = b
  <2> SUFFICES ASSUME NEW i \in 1..Len(toRead)
               PROVE  InSeq(toRead[i], rest) \/ \E n \in DOMAIN batch : batch[n] = toRead[i]
    <3>1. DOMAIN toRead = 1..Len(toRead)
      BY <1>1
    <3> HIDE DEF batch, rest
    <3> QED
      BY <3>1 DEF InSeq
  <2>1. DOMAIN batch = 1..got /\ \A n \in 1..got : batch[n] = toRead[n]
    BY <1>1, <1>2
  <2>2. CASE i <= got
    BY <1>2, <2>1, <2>2
  <2>3. CASE i > got
    <3>1. DOMAIN rest = 1..(Len(toRead) - got)
      BY <1>1, <1>2
    <3>2. i - got \in 1..(Len(toRead) - got) /\ rest[i - got] = toRead[i]
      BY <1>1, <1>2, <2>3
    <3> QED
      BY <3>1, <3>2 DEF InSeq
  <2> QED
    BY <1>2, <2>2, <2>3
<1>4. \A n \in DOMAIN batch, kind \in {"board", "move"} : \A e \in Out(batch[n]) :
        \E op \in ops : op.kind = kind /\ op.edge = e
  <2> HIDE DEF batch
  <2> QED
    BY BatchInserts
<1>5. \A op \in ops : op.kind = "terminal" => Terminal(op.board)
  BY BatchTerminals
<1> HIDE DEF batch, rest, ops
<1>6. worker[w].ops = {} /\ DOMAIN worker = Workers
  BY <1>1 DEF SolverInv, JobsOK, PlayInv, BatchesOK
<1>7. /\ worker'[w].ops = ops /\ worker'[w].ctx
      /\ \A v \in Workers : v # w => worker'[v] = worker[v]
  BY <1>1, <1>6
<1>8. BatchesOK'
  BY <1>5, <1>7 DEF PlayInv, BatchesOK, Terminal, Out
<1>9. \A kind, e : Pending(kind, e) => Pending(kind, e)'
  BY <1>6, <1>7 DEF Pending
<1>10. ASSUME ~lost PROVE SweepOK' /\ ChildrenOK'
  <2>1. WholeOK
    BY <1>10 DEF PlayInv
  <2>2. ChildrenOK'
    BY <1>1, <2>1 DEF WholeOK, ChildrenOK, InLevel
  <2>3. ASSUME NEW b \in Keys(board[level])
        PROVE  InSeq(b, rest) \/ InSeq(b, passQueue) \/ \A e \in Out(b) : Expanded(e)'
    <3>1. CASE \E n \in DOMAIN batch : batch[n] = b
      <4>1. \A e \in Out(b) : Pending("board", e)' /\ Pending("move", e)'
        BY <1>4, <1>7, <3>1 DEF Pending
      <4> QED
        BY <4>1 DEF Expanded
    <3>2. CASE \A e \in Out(b) : Expanded(e)
      <4>1. \A e \in Out(b) : ChildKept(e)' <=> ChildKept(e)
        BY <1>1 DEF ChildKept
      <4> QED
        BY <1>1, <1>9, <3>2, <4>1 DEF Expanded
    <3> QED
      BY <1>1, <1>3, <2>1, <3>1, <3>2 DEF WholeOK, SweepOK
  <2>4. \A b \in Keys(board'[level']) :
          InSeq(b, toRead') \/ InSeq(b, passQueue') \/ \A e \in Out(b) : Expanded(e)'
    BY <1>1, <2>3
  <2>5. SweepOK'
    BY <2>4 DEF SweepOK, InSeq, Out
  <2> QED
    BY <2>2, <2>5
<1> QED
  BY <1>1, <1>8, <1>10, Sweeping

LEMMA DrainPlays == ASSUME SolverInv, PlayInv, Drain PROVE PlayInv'
<1>1. /\ pc = "sweep" /\ toRead = << >> /\ toRead' = passQueue /\ passQueue' = << >>
      /\ pc' = (IF passQueue = << >> THEN "board" ELSE "sweep")
      /\ UNCHANGED <<board, moves, level, deepestLevel, newBoards, worker, lost>>
      /\ level \in Levels /\ BoardStore(board[level], level) /\ MoveStore(moves[level], level)
  BY DEF Drain, Passes, Emptied, stores, history, SolverInv, LevelOK, StoresOK
<1>2. \A w \in Workers : worker[w].ops = {}
  BY DEF Drain, NoneActive, SolverInv, JobsOK
<1>3. BatchesOK'
  BY <1>1 DEF PlayInv, BatchesOK, Terminal, Out
<1>4. CASE passQueue # << >>
  <2>1. ASSUME ~lost PROVE SweepOK' /\ ChildrenOK'
    <3>1. WholeOK
      BY <2>1 DEF PlayInv
    <3>2. ChildrenOK'
      BY <1>1, <1>4, <3>1 DEF WholeOK, ChildrenOK, InLevel
    <3>3. \A b : ~InSeq(b, toRead)
      BY <1>1 DEF InSeq
    <3>4. \A e : Expanded(e) <=> Expanded(e)'
      BY <1>1 DEF Expanded, Pending, ChildKept
    <3>5. \A b \in Keys(board'[level']) : InSeq(b, toRead') \/ \A e \in Out(b) : Expanded(e)'
      BY <1>1, <3>1, <3>3, <3>4 DEF WholeOK, SweepOK
    <3>6. SweepOK'
      BY <3>5 DEF SweepOK, InSeq, Out
    <3> QED
      BY <3>2, <3>6
  <2> QED
    BY <1>1, <1>3, <1>4, <2>1, Sweeping
<1>5. CASE passQueue = << >>
  <2>1. pc' = "board"
    BY <1>1, <1>5
  <2>2. NamesOK'
    BY <1>1, <2>1 DEF PlayInv, NamesOK, InLevel, Levels
  <2>3. ASSUME ~lost' PROVE WholeOK'
    <3>1. WholeOK
      BY <1>1, <2>3 DEF PlayInv
    <3>2. \A b \in Keys(board[level]) : \A e \in Out(b) : ChildKept(e) /\ e \in moves[level].edges
      <4>1. \A b : ~InSeq(b, toRead) /\ ~InSeq(b, passQueue)
        BY <1>1, <1>5 DEF InSeq
      <4>2. \A kind, e : ~Pending(kind, e)
        BY <1>2 DEF Pending
      <4> QED
        BY <1>1, <3>1, <4>1, <4>2 DEF WholeOK, SweepOK, Expanded
    <3>3. Keys(board[level]) = OfLevel(level)
      <4>1. Keys(board[level]) \in SUBSET OfLevel(level)
        BY <1>1, KeysOfLevel
      <4>2. Seeds(level) \subseteq Keys(board[level])
        BY <1>1, <3>1 DEF WholeOK, SeedsOK, InLevel
      <4>3. \A e \in Edges : e.from \in Keys(board[level]) /\ e.pass => e.to \in Keys(board[level])
        BY <3>2 DEF Out, ChildKept
      <4> QED
        BY <1>1, <4>1, <4>2, <4>3, LevelReached
    <3>4. \A e \in EdgesOf(level) : ChildKept(e) /\ e \in moves[level].edges
      <4>1. \A e \in EdgesOf(level) : e.from \in OfLevel(level) /\ e \in Out(e.from)
        BY Steps DEF EdgesOf, OfLevel, Out
      <4> QED
        BY <3>2, <3>3, <4>1
    <3>5. moves[level].edges = EdgesOf(level)
      BY <1>1, <3>4 DEF MoveStore
    <3>6. DoneOK'
      BY <1>1, <2>1, <3>3, <3>4, <3>5 DEF DoneOK, ChildKept, OfLevel, EdgesOf
    <3>7. SavedOK' /\ SeedsOK' /\ ChildrenOK'
      BY <1>1, <2>1, <3>1 DEF WholeOK, SavedOK, Kept, SeedsOK, Seeds, ChildrenOK, EdgesOf, OfLevel, InLevel, Levels
    <3> QED
      BY <2>1, <3>6, <3>7 DEF WholeOK, SweepOK, BackOK
  <2> QED
    BY <1>3, <2>2, <2>3 DEF PlayInv
<1> QED
  BY <1>4, <1>5

\* An insert adds what it was to add; a pass found in the level is queued.
LEMMA WorkerPlays ==
  ASSUME SolverInv, PlayInv, NEW w \in Workers, NEW op \in worker[w].ops, pc = "sweep",
         worker' = [worker EXCEPT ![w].ops = worker[w].ops \ {op}],
         UNCHANGED <<pc, level, deepestLevel, toRead, lost>>,
         \A l \in Levels : /\ Keys(board[l]) \subseteq Keys(board'[l])
                           /\ board'[l].saved = board[l].saved /\ board'[l].named = board[l].named
                           /\ moves'[l].saved = moves[l].saved /\ moves'[l].named = moves[l].named,
         moves[level].edges \subseteq moves'[level].edges,
         \A b \in Keys(board'[level]) : b \in Keys(board[level]) \/ Out(b) = {} \/ InSeq(b, passQueue'),
         \A b : InSeq(b, passQueue) => InSeq(b, passQueue'),
         newBoards => newBoards',
         newBoards' => newBoards \/ (level < maxLevel /\ Keys(board'[level + 1]) # {}),
         op.kind = "board" => ChildKept(op.edge)',
         op.kind = "move" => op.edge \in moves'[level].edges
  PROVE  PlayInv'
<1>1. level \in Levels /\ level \in Nat /\ maxLevel \in Nat
  BY GameAssumption DEF SolverInv, LevelOK, Levels
<1>2. /\ DOMAIN worker = Workers
      /\ \A v \in Workers : DOMAIN worker[v] = {"ctx", "counted", "ops"}
  BY DEF SolverInv, JobsOK
<1>3. /\ worker'[w].ops = worker[w].ops \ {op}
      /\ \A v \in Workers : v # w => worker'[v] = worker[v]
      /\ \A v \in Workers : worker'[v].ctx = worker[v].ctx /\ worker'[v].counted = worker[v].counted
  BY <1>2
<1>4. BatchesOK'
  BY <1>3 DEF PlayInv, BatchesOK, Terminal, Out
<1>5. \A kind, e : Pending(kind, e) => Pending(kind, e)' \/ (op.kind = kind /\ op.edge = e)
  BY <1>3 DEF Pending
<1>6. ASSUME ~lost PROVE SweepOK' /\ ChildrenOK'
  <2>1. WholeOK
    BY <1>6 DEF PlayInv
  <2>2. ChildrenOK'
    <3>1. newBoards => level < maxLevel /\ Keys(board[level + 1]) # {}
      BY <2>1 DEF WholeOK, ChildrenOK, InLevel
    <3>2. level < maxLevel => level + 1 \in Levels
      BY <1>1 DEF Levels
    <3>3. newBoards' => level < maxLevel /\ Keys(board'[level + 1]) # {}
      BY <3>1, <3>2
    <3> QED
      BY <3>3 DEF ChildrenOK
  <2>3. ASSUME NEW b \in Keys(board[level]), NEW e \in Out(b), Expanded(e) PROVE Expanded(e)'
    <3>1. e \in EdgesOf(level)
      BY FoundEdges
    <3>2. Pending("board", e) => Pending("board", e)' \/ ChildKept(e)'
      BY <1>5
    <3>3. Pending("move", e) => Pending("move", e)' \/ e \in moves'[level].edges
      BY <1>5
    <3> QED
      BY <2>3, <3>1, <3>2, <3>3, ExpandedStays
  <2>4. ASSUME NEW b \in Keys(board[level])
        PROVE  InSeq(b, toRead) \/ InSeq(b, passQueue') \/ \A e \in Out(b) : Expanded(e)'
    BY <2>1, <2>3 DEF WholeOK, SweepOK
  <2>5. \A b \in Keys(board'[level]) :
          InSeq(b, toRead) \/ InSeq(b, passQueue') \/ \A e \in Out(b) : Expanded(e)'
    BY <2>4
  <2>6. SweepOK'
    BY <2>5 DEF SweepOK, InSeq, Out
  <2> QED
    BY <2>2, <2>6
<1> QED
  BY <1>4, <1>6, Sweeping

LEMMA BoardInserted ==
  ASSUME SolverInv, NEW l \in Levels, NEW b, NEW delta, TSInsert(l, b, delta)
  PROVE  \A i \in Levels : /\ Keys(board'[i]) = IF i = l THEN Keys(board[i]) \cup {b} ELSE Keys(board[i])
                           /\ board'[i].saved = board[i].saved /\ board'[i].named = board[i].named
<1> DEFINE t == Inserted(board[l], b, delta)
<1>1. BoardStore(board[l], l) /\ DOMAIN board = Levels
  BY DEF SolverInv, StoresOK
<1>2. Keys(t) = Keys(board[l]) \cup {b} /\ t.saved = board[l].saved /\ t.named = board[l].named
  BY <1>1, InsertedKeys
<1>3. board' = [board EXCEPT ![l] = t]
  BY DEF TSInsert
<1> HIDE DEF t
<1>4. \A i \in Levels : board'[i] = IF i = l THEN t ELSE board[i]
  BY <1>1, <1>3
<1> QED
  BY <1>2, <1>4

LEMMA WorkerProcessBatchPlays ==
  ASSUME SolverInv, PlayInv, NEW w \in Workers, WorkerProcessBatch(w) PROVE PlayInv'
<1>1. PICK op \in worker[w].ops :
        /\ worker' = [worker EXCEPT ![w].ops = worker[w].ops \ {op}]
        /\ \/ /\ op.kind = "terminal"
              /\ TSInsert(level, op.board, Outcome[op.board])
              /\ UNCHANGED <<moves, newBoards, passQueue>>
           \/ /\ op.kind = "board"
              /\ TSInsert(IF op.edge.pass THEN level ELSE level + 1, op.edge.to, Zero)
              /\ newBoards' = (newBoards \/ ~op.edge.pass)
              /\ passQueue' = IF op.edge.pass THEN Append(passQueue, op.edge.to) ELSE passQueue
              /\ UNCHANGED moves
           \/ /\ op.kind = "move"
              /\ moves' = [moves EXCEPT ![level] = Recorded(moves[level], op.edge)]
              /\ UNCHANGED <<board, newBoards, passQueue>>
        /\ UNCHANGED <<pc, level, deepestLevel, toRead, lost>>
  BY DEF WorkerProcessBatch, history
<1>2. /\ pc = "sweep" /\ level \in Levels /\ JobOp(op, level) /\ passQueue \in Seq(OfLevel(level))
      /\ level \in Nat /\ maxLevel \in Nat
  BY <1>1, GameAssumption DEF SolverInv, JobsOK, LevelOK, ReadOK, Levels
<1>3. CASE op.kind = "terminal"
  <2>1. Out(op.board) = {}
    BY <1>3 DEF PlayInv, BatchesOK, Terminal
  <2>2. /\ \A i \in Levels : /\ Keys(board'[i]) = IF i = level THEN Keys(board[i]) \cup {op.board} ELSE Keys(board[i])
                             /\ board'[i].saved = board[i].saved /\ board'[i].named = board[i].named
      /\ UNCHANGED <<moves, newBoards, passQueue>>
    BY <1>1, <1>2, <1>3, BoardInserted
  <2> QED
    BY <1>1, <1>2, <1>3, <2>1, <2>2, WorkerPlays
<1>4. CASE op.kind = "board"
  <2> DEFINE to == IF op.edge.pass THEN level ELSE level + 1
  <2>1. /\ op.edge \in Edges /\ LevelOf[op.edge.from] = level /\ op.edge.pass \in BOOLEAN
        /\ LevelOf[op.edge.to] = to /\ to \in Levels
    <3>1. op.edge \in Edges /\ LevelOf[op.edge.from] = level
      BY <1>2, <1>4 DEF JobOp, EdgesOf
    <3> QED
      BY <3>1, Steps
  <2>2. /\ TSInsert(to, op.edge.to, Zero) /\ newBoards' = (newBoards \/ ~op.edge.pass)
        /\ passQueue' = (IF op.edge.pass THEN Append(passQueue, op.edge.to) ELSE passQueue)
        /\ UNCHANGED moves
    BY <1>1, <1>4
  <2>3. \A i \in Levels : /\ Keys(board'[i]) = IF i = to THEN Keys(board[i]) \cup {op.edge.to} ELSE Keys(board[i])
                          /\ board'[i].saved = board[i].saved /\ board'[i].named = board[i].named
    BY <2>1, <2>2, BoardInserted
  <2>4. ChildKept(op.edge)'
    BY <1>1, <1>2, <2>1, <2>2, <2>3 DEF ChildKept
  <2>5. \A b : InSeq(b, passQueue) => InSeq(b, passQueue')
    BY <1>2, <2>2 DEF InSeq
  <2>6. \A b \in Keys(board'[level]) : b \in Keys(board[level]) \/ InSeq(b, passQueue')
    <3>1. CASE op.edge.pass
      <4>1. InSeq(op.edge.to, passQueue')
        BY <1>2, <2>2, <3>1 DEF InSeq
      <4> QED
        BY <1>2, <2>3, <3>1, <4>1
    <3>2. CASE ~op.edge.pass
      <4>1. level # to
        BY <1>2, <3>2
      <4> QED
        BY <1>2, <2>3, <4>1
    <3> QED
      BY <3>1, <3>2
  <2>7. newBoards' => newBoards \/ (level < maxLevel /\ Keys(board'[level + 1]) # {})
    <3>1. CASE ~op.edge.pass
      <4>1. to = level + 1 /\ level + 1 \in Levels
        BY <2>1, <3>1
      <4>2. op.edge.to \in Keys(board'[level + 1])
        BY <2>3, <4>1
      <4> QED
        BY <1>2, <4>1, <4>2 DEF Levels
    <3>2. CASE op.edge.pass
      BY <2>2, <3>2
    <3> QED
      BY <3>1, <3>2
  <2> HIDE DEF to
  <2> QED
    BY <1>1, <1>2, <1>4, <2>2, <2>3, <2>4, <2>5, <2>6, <2>7, WorkerPlays
<1>5. CASE op.kind = "move"
  <2> DEFINE t == Recorded(moves[level], op.edge)
  <2>1. MoveStore(moves[level], level) /\ DOMAIN moves = Levels
    BY <1>2 DEF SolverInv, StoresOK
  <2>2. /\ t.edges = moves[level].edges \cup {op.edge}
        /\ t.saved = moves[level].saved /\ t.named = moves[level].named
    BY <2>1, RecordedNames
  <2>3. moves' = [moves EXCEPT ![level] = t] /\ UNCHANGED <<board, newBoards, passQueue>>
    BY <1>1, <1>5
  <2> HIDE DEF t
  <2>4. \A l \in Levels : moves'[l].saved = moves[l].saved /\ moves'[l].named = moves[l].named
    BY <2>1, <2>2, <2>3
  <2>5. moves'[level].edges = moves[level].edges \cup {op.edge}
    BY <1>2, <2>1, <2>2, <2>3
  <2> QED
    BY <1>1, <1>2, <1>5, <2>3, <2>4, <2>5, WorkerPlays
<1> QED
  BY <1>1, <1>3, <1>4, <1>5

\* A level ends: its manifests are written, and the last level is the deepest.
LEMMA CheckpointBoardsPlays == ASSUME SolverInv, PlayInv, CheckpointBoards PROVE PlayInv'
<1> DEFINE t == Checkpointed(board[level])
<1>1. /\ pc = "board" /\ level \in Levels /\ BoardStore(board[level], level) /\ DOMAIN board = Levels
      /\ board' = [board EXCEPT ![level] = t] /\ pc' = "moves"
      /\ UNCHANGED <<moves, level, deepestLevel, newBoards, worker, lost>>
  BY DEF CheckpointBoards, SolverInv, StoresOK, LevelOK, sweep, history
<1>2. Keys(t) = Keys(board[level]) /\ DOMAIN t.saved = Keys(board[level]) /\ t.named
  BY <1>1, CheckpointedKeys
<1> HIDE DEF t
<1>3. \A l \in Levels : /\ board'[l] = IF l = level THEN t ELSE board[l]
                        /\ Keys(board'[l]) = Keys(board[l]) /\ (board[l].named => board'[l].named)
  BY <1>1, <1>2
<1>4. NamesOK'
  BY <1>1, <1>2, <1>3 DEF PlayInv, NamesOK, InLevel, Levels
<1>5. BatchesOK'
  BY <1>1 DEF PlayInv, BatchesOK, Terminal, Out
<1>6. ASSUME ~lost' PROVE WholeOK'
  <2>1. WholeOK /\ ~moves[level].named
    BY <1>1, <1>6 DEF PlayInv, NamesOK
  <2>2. SavedOK'
    BY <1>1, <1>3, <2>1, SavedStays DEF WholeOK
  <2>3. level < maxLevel => level + 1 \in Levels
    BY <1>1, GameAssumption DEF Levels
  <2>4. SeedsOK' /\ ChildrenOK'
    BY <1>1, <1>3, <2>1, <2>3 DEF WholeOK, SeedsOK, Seeds, OfLevel, ChildrenOK, InLevel
  <2>5. \A e \in EdgesOf(level) : ~e.pass => ChildKept(e)'
    <3> SUFFICES ASSUME NEW e \in EdgesOf(level), ~e.pass PROVE ChildKept(e)'
      OBVIOUS
    <3>1. level + 1 \in Levels
      BY Steps DEF EdgesOf
    <3> QED
      BY <1>1, <1>3, <2>1, <3>1 DEF WholeOK, DoneOK, ChildKept
  <2>6. DoneOK'
    BY <1>1, <1>2, <1>3, <2>1, <2>5 DEF WholeOK, DoneOK, OfLevel, EdgesOf
  <2> QED
    BY <1>1, <2>2, <2>4, <2>6 DEF WholeOK, SweepOK, BackOK
<1> QED
  BY <1>4, <1>5, <1>6 DEF PlayInv

LEMMA CheckpointMovesPlays == ASSUME SolverInv, PlayInv, CheckpointMoves PROVE PlayInv'
<1> DEFINE t == NamedMoves(moves[level])
<1>1. /\ pc = "moves" /\ level \in Levels /\ MoveStore(moves[level], level) /\ DOMAIN moves = Levels
      /\ moves' = [moves EXCEPT ![level] = t] /\ pc' = "next"
      /\ UNCHANGED <<board, level, deepestLevel, newBoards, worker, lost>>
  BY DEF CheckpointMoves, SolverInv, StoresOK, LevelOK, sweep, history
<1>2. t.saved = moves[level].edges /\ t.edges = moves[level].edges /\ t.named
  BY <1>1, MovesNames
<1> HIDE DEF t
<1>3. moves'[level] = t /\ \A l \in Levels : l # level => moves'[l] = moves[l]
  BY <1>1
<1>4. level \in Nat /\ \A l \in Levels : l \in Nat
  BY <1>1 DEF Levels
<1>5. NamesOK'
  <2>1. /\ \A i \in Levels : i < level => moves'[i].named
        /\ \A i \in Levels : i > level => ~moves'[i].named
        /\ moves'[level].named /\ board[level].named
    BY <1>1, <1>2, <1>3, <1>4 DEF PlayInv, NamesOK, InLevel
  <2>2. \A i \in Levels : moves'[i].named => board[i].named
    BY <1>1, <1>3, <2>1 DEF PlayInv, NamesOK
  <2>3. \A i, j \in Levels : i < j /\ moves'[j].named => moves'[i].named
    <3> SUFFICES ASSUME NEW i \in Levels, NEW j \in Levels, i < j, moves'[j].named PROVE moves'[i].named
      OBVIOUS
    <3>1. j <= level
      BY <1>4, <2>1
    <3> QED
      BY <1>4, <2>1, <3>1
  <2> QED
    BY <1>1, <2>1, <2>2, <2>3 DEF PlayInv, NamesOK, InLevel, Levels
<1>6. BatchesOK'
  BY <1>1 DEF PlayInv, BatchesOK, Terminal, Out
<1>7. ASSUME ~lost' PROVE WholeOK'
  <2>1. WholeOK
    BY <1>1, <1>7 DEF PlayInv
  <2>2. /\ OfLevel(level) # {} /\ DOMAIN board[level].saved = OfLevel(level)
        /\ moves'[level].saved = EdgesOf(level) /\ moves'[level].edges = EdgesOf(level)
    BY <1>1, <1>2, <1>3, <2>1 DEF WholeOK, SeedsOK, DoneOK, InLevel
  <2>3. SavedOK'
    BY <1>1, <1>3, <2>1, <2>2 DEF WholeOK, SavedOK, Kept, OfLevel, EdgesOf, Levels
  <2>4. SeedsOK' /\ ChildrenOK'
    BY <1>1, <2>1 DEF WholeOK, SeedsOK, Seeds, OfLevel, ChildrenOK, InLevel
  <2>5. DoneOK'
    BY <1>1, <2>1, <2>2 DEF WholeOK, DoneOK, ChildKept, OfLevel, EdgesOf
  <2> QED
    BY <1>1, <2>3, <2>4, <2>5 DEF WholeOK, SweepOK, BackOK
<1> QED
  BY <1>5, <1>6, <1>7 DEF PlayInv

LEMMA EndLevelPlays == ASSUME SolverInv, PlayInv, EndLevel PROVE PlayInv'
<1> DEFINE last == ~newBoards \/ level = maxLevel
           After(l) == CASE l = level -> ClosedBoards(board[l])
                         [] l = level + 1 -> IF newBoards THEN Checkpointed(board[l])
                                             ELSE ClosedBoards(Checkpointed(board[l]))
                         [] OTHER -> board[l]
<1>1. /\ pc = "next" /\ level \in Levels /\ level \in Nat /\ maxLevel \in Nat /\ DOMAIN moves = Levels
      /\ \A l \in Levels : BoardStore(board[l], l) /\ MoveStore(moves[l], l) /\ l \in Nat
  BY GameAssumption DEF SolverInv, EndLevel, LevelOK, StoresOK, Levels
<1>2. /\ board' = [l \in Levels |-> After(l)]
      /\ level' = (IF last THEN level ELSE level + 1)
      /\ pc' = (IF last THEN "open" ELSE "level")
      /\ moves' = [moves EXCEPT ![level] = ClosedMoves(moves[level])]
      /\ UNCHANGED <<deepestLevel, worker, lost>>
  BY DEF EndLevel, sweep, history
<1>3. \A l \in Levels : moves'[l].named = moves[l].named /\ moves'[l].saved = moves[l].saved
  <2>1. \A l \in Levels : moves'[l] = IF l = level THEN ClosedMoves(moves[l]) ELSE moves[l]
    BY <1>1, <1>2
  <2> QED
    BY <2>1, NamesOfMoves
<1>4. \A l \in Levels : /\ l # level + 1 => board'[l].named = board[l].named /\ board'[l].saved = board[l].saved
                        /\ l = level + 1 /\ newBoards => board'[l] = Checkpointed(board[l])
  <2>1. \A l \in Levels : /\ l = level => board'[l] = ClosedBoards(board[l])
                          /\ l # level /\ l # level + 1 => board'[l] = board[l]
                          /\ l = level + 1 /\ newBoards => board'[l] = Checkpointed(board[l])
    BY <1>1, <1>2
  <2> QED
    BY <1>1, <2>1, ClosedKeys
<1> HIDE DEF After
<1>5. /\ deepestLevel = level /\ moves[level].named
      /\ \A i \in Levels : (i < level => moves[i].named) /\ (i > level => ~moves[i].named)
  BY <1>1 DEF PlayInv, NamesOK, InLevel
<1>6. NamesOK'
  <2>1. \A i \in Levels : moves'[i].named => board'[i].named
    <3>1. \A i \in Levels : moves'[i].named => i # level + 1
      BY <1>1, <1>3, <1>5
    <3> QED
      BY <1>3, <1>4, <3>1 DEF PlayInv, NamesOK
  <2>2. \A i, j \in Levels : i < j /\ moves'[j].named => moves'[i].named
    BY <1>3 DEF PlayInv, NamesOK
  <2>3. ~last => \A i \in Levels : (i < level + 1 => moves'[i].named) /\ (i > level + 1 => ~moves'[i].named)
    <3>1. \A i \in Levels : (i < level + 1 => i < level \/ i = level) /\ (i > level + 1 => i > level)
      BY <1>1
    <3> QED
      BY <1>3, <1>5, <3>1
  <2>4. moves'[level].named
    BY <1>1, <1>3, <1>5
  <2> QED
    BY <1>1, <1>2, <1>5, <2>1, <2>2, <2>3, <2>4 DEF NamesOK, InLevel, Levels
<1>7. BatchesOK'
  BY <1>2 DEF PlayInv, BatchesOK, Terminal, Out
<1>8. ASSUME ~lost' PROVE WholeOK'
  <2>1. WholeOK
    BY <1>2, <1>8 DEF PlayInv
  <2>2. SavedOK'
    <3>1. \A l \in Levels : moves'[l].named => moves[l].named /\ l # level + 1
      BY <1>1, <1>3, <1>5
    <3> QED
      BY <1>3, <1>4, <2>1, <3>1, SavedStays DEF WholeOK
  <2>3. newBoards => level < maxLevel /\ Keys(board[level + 1]) # {}
    BY <1>1, <2>1 DEF WholeOK, ChildrenOK, InLevel
  <2>4. \A e \in EdgesOf(level) : ~e.pass => newBoards /\ e.to \in Keys(board[level + 1])
    BY <1>1, <2>1 DEF WholeOK, DoneOK, ChildKept
  <2>5. OfLevel(level) # {}
    BY <1>1, <2>1 DEF WholeOK, SeedsOK, InLevel
  <2>6. CASE last
    <3>1. \A e \in EdgesOf(level) : e.pass
      BY <1>1, <2>3, <2>4, <2>6
    <3>2. level = Deepest /\ \A b \in Boards : LevelOf[b] <= level
      BY <1>1, <2>5, <3>1, LastReached
    <3>3. BackOK'
      BY <1>2, <1>5, <2>6, <3>2 DEF BackOK, Deepest
    <3> QED
      BY <1>2, <2>2, <2>6, <3>3 DEF WholeOK, SeedsOK, SweepOK, ChildrenOK, DoneOK, InLevel
  <2>7. CASE ~last
    <3>1. level + 1 \in Levels /\ newBoards
      BY <1>1, <2>7 DEF Levels
    <3>2. Keys(board'[level + 1]) = Keys(board[level + 1])
      BY <1>1, <1>4, <3>1, CheckpointedKeys
    <3>3. OfLevel(level + 1) # {}
      BY <1>1, <2>3, <3>1, KeysOfLevel
    <3>4. Seeds(level + 1) \subseteq Keys(board[level + 1])
      <4> SUFFICES ASSUME NEW b \in Seeds(level + 1) PROVE b \in Keys(board[level + 1])
        OBVIOUS
      <4>1. LevelOf[b] = level + 1 /\ b # Root
        BY <1>1, FirstBoard DEF Seeds, OfLevel
      <4>2. PICK e \in Edges : ~e.pass /\ e.to = b
        BY <4>1 DEF Seeds
      <4>3. LevelOf[e.from] = level
        BY <1>1, <4>1, <4>2, Steps
      <4> QED
        BY <2>4, <4>2, <4>3 DEF EdgesOf
    <3>5. SeedsOK'
      BY <1>2, <2>7, <3>2, <3>3, <3>4 DEF SeedsOK, Seeds, OfLevel
    <3> QED
      BY <1>2, <2>2, <2>7, <3>5 DEF WholeOK, SweepOK, ChildrenOK, DoneOK, BackOK, InLevel
  <2> QED
    BY <2>6, <2>7
<1> QED
  BY <1>6, <1>7, <1>8 DEF PlayInv
-----------------------------------------------------------------------------
\* The wins are carried back: the stores opened are whole, so each child is found.
LEMMA OpenedWhole ==
  ASSUME SolverInv, WholeOK, NEW l \in Levels, moves[l].named, ~board[l].worn
  PROVE  Keys(OpenedBoards(board[l])) = OfLevel(l)
<1>1. BoardStore(board[l], l)
  BY DEF SolverInv, StoresOK
<1>2. BoardStore(OpenedBoards(board[l]), l)
  BY <1>1, OpenedKeeps
<1>3. DOMAIN board[l].saved = OfLevel(l)
  BY DEF WholeOK, SavedOK, Kept
<1>4. OfLevel(l) \subseteq Keys(OpenedBoards(board[l]))
  BY <1>1, <1>3, OpenedKeys
<1> QED
  BY <1>2, <1>4, KeysOfLevel

LEMMA StartBackPropagationPlays == ASSUME SolverInv, PlayInv, StartBackPropagation PROVE PlayInv'
<1> DEFINE opened == {deepestLevel, deepestLevel + 1} \cap Levels
<1>1. /\ pc = "open" /\ deepestLevel \in Levels /\ DOMAIN moves = Levels
      /\ \A l \in Levels : BoardStore(board[l], l) /\ MoveStore(moves[l], l) /\ l \in Nat
  BY DEF SolverInv, StartBackPropagation, LevelOK, StoresOK, Levels
<1>2. /\ pc' = "back" /\ level' = deepestLevel
      /\ board' = [l \in Levels |-> IF l \in opened THEN OpenedBoards(board[l]) ELSE board[l]]
      /\ moves' = [moves EXCEPT ![deepestLevel] = OpenedMoves(moves[deepestLevel])]
      /\ lost' = (lost \/ \E l \in opened : board[l].worn)
      /\ UNCHANGED <<deepestLevel, worker>>
  BY WindowOpens DEF sweep
<1>3. \A l \in Levels : moves'[l].named = moves[l].named /\ moves'[l].saved = moves[l].saved
  <2>1. \A l \in Levels : moves'[l] = IF l = deepestLevel THEN OpenedMoves(moves[l]) ELSE moves[l]
    BY <1>1, <1>2
  <2> QED
    BY <2>1, NamesOfMoves
<1>4. \A l \in Levels : board'[l].named = board[l].named /\ board'[l].saved = board[l].saved
  BY <1>1, <1>2, OpenedKeys
<1>5. NamesOK'
  BY <1>1, <1>2, <1>3, <1>4 DEF PlayInv, NamesOK, InLevel, Levels
<1>6. BatchesOK'
  BY <1>2 DEF PlayInv, BatchesOK, Terminal, Out
<1>7. ASSUME ~lost' PROVE WholeOK'
  <2>1. WholeOK /\ \A l \in opened : ~board[l].worn
    BY <1>2, <1>7 DEF PlayInv
  <2>2. SavedOK'
    BY <1>3, <1>4, <2>1, SavedStays DEF WholeOK
  <2>3. moves[deepestLevel].named
    BY <1>1 DEF PlayInv, NamesOK
  <2>4. deepestLevel = Deepest /\ \A b \in Boards : LevelOf[b] <= deepestLevel
    BY <1>1, <2>1 DEF WholeOK, BackOK
  <2>5. Keys(board'[deepestLevel]) = OfLevel(deepestLevel)
    BY <1>1, <1>2, <2>1, <2>3, OpenedWhole
  <2>6. ASSUME deepestLevel < maxLevel
        PROVE  Keys(board'[deepestLevel + 1]) = OfLevel(deepestLevel + 1)
    <3>1. deepestLevel + 1 \in Levels
      BY <1>1, <2>6, GameAssumption DEF Levels
    <3>2. OfLevel(deepestLevel + 1) = {}
      BY <1>1, <2>4, LevelType DEF OfLevel
    <3>3. Keys(board'[deepestLevel + 1]) \subseteq OfLevel(deepestLevel + 1)
      BY <1>1, <1>2, <3>1, OpenedKeeps, KeysOfLevel
    <3> QED
      BY <3>2, <3>3
  <2>7. BackOK'
    BY <1>2, <2>4, <2>5, <2>6 DEF BackOK, OfLevel, Deepest
  <2> QED
    BY <1>2, <2>2, <2>7 DEF WholeOK, SeedsOK, SweepOK, ChildrenOK, DoneOK, InLevel
<1> QED
  BY <1>5, <1>6, <1>7 DEF PlayInv

LEMMA FoundWhereKept == ASSUME NEW s, NEW b \in Keys(s) PROVE FoundIn(s, b) # {}
<1> DEFINE T == <<s.mem, s.bg, s.files>>
<1>1. T[1] = s.mem /\ T[2] = s.bg /\ T[3] = s.files
  OBVIOUS
<1>2. \E i \in 1..3 : b \in DOMAIN T[i]
  BY <1>1 DEF Keys
<1>3. FoundIn(s, b) = {i \in 1..3 : b \in DOMAIN T[i]}
  BY DEF FoundIn, Tiers
<1> QED
  BY <1>2, <1>3

LEMMA CarryBackPlays == ASSUME SolverInv, PlayInv, CarryBack PROVE PlayInv'
<1>1. PICK e \in NextEdge(left) :
        /\ pc = "back"
        /\ \/ /\ FoundIn(board[IF e.pass THEN level ELSE level + 1], e.to) = {}
              /\ pc' = "failed" /\ UNCHANGED board
           \/ /\ \E wins : TSInsert(level, e.from, wins)
              /\ pc' = pc
        /\ UNCHANGED <<moves, level, deepestLevel, worker, lost>>
  BY DEF CarryBack, sweep
<1>2. e \in left
  BY DEF NextEdge, First
<1>3. level \in Levels /\ e \in EdgesOf(level) /\ deepestLevel \in Levels /\ level \in Nat /\ maxLevel \in Nat
  BY <1>1, <1>2, GameAssumption DEF SolverInv, LevelOK, CarryOK, Levels
<1>4. BatchesOK'
  BY <1>1 DEF PlayInv, BatchesOK, Terminal, Out
<1>5. ASSUME UNCHANGED board, pc' = "failed", FoundIn(board[IF e.pass THEN level ELSE level + 1], e.to) = {}
      PROVE  PlayInv'
  <2>1. NamesOK'
    BY <1>1, <1>5 DEF PlayInv, NamesOK, InLevel, Levels
  <2>2. lost
    <3> SUFFICES ASSUME ~lost PROVE FALSE
      OBVIOUS
    <3>1. /\ Keys(board[level]) = OfLevel(level)
          /\ level < maxLevel => Keys(board[level + 1]) = OfLevel(level + 1)
      BY <1>1 DEF PlayInv, WholeOK, BackOK
    <3>2. /\ e.pass \in BOOLEAN /\ e.to \in OfLevel(IF e.pass THEN level ELSE level + 1)
          /\ LevelOf[e.to] \in Levels
      BY <1>3, Steps DEF EdgesOf, OfLevel
    <3>3. ~e.pass => level < maxLevel
      BY <1>3, <3>2 DEF OfLevel, Levels
    <3>4. e.to \in Keys(board[IF e.pass THEN level ELSE level + 1])
      BY <3>1, <3>2, <3>3
    <3> QED
      BY <1>5, <3>4, FoundWhereKept
  <2> QED
    BY <1>1, <1>4, <2>1, <2>2 DEF PlayInv
<1>6. ASSUME \E wins : TSInsert(level, e.from, wins), pc' = pc PROVE PlayInv'
  <2>1. PICK wins : TSInsert(level, e.from, wins)
    BY <1>6
  <2>2. \A i \in Levels :
           /\ Keys(board'[i]) = IF i = level THEN Keys(board[i]) \cup {e.from} ELSE Keys(board[i])
           /\ board'[i].saved = board[i].saved /\ board'[i].named = board[i].named
    BY <1>3, <2>1, BoardInserted
  <2>3. NamesOK'
    BY <1>1, <1>3, <1>6, <2>2 DEF PlayInv, NamesOK, InLevel, Levels
  <2>4. ASSUME ~lost' PROVE WholeOK'
    <3>1. WholeOK
      BY <1>1, <2>4 DEF PlayInv
    <3>2. SavedOK'
      BY <1>1, <2>2, <3>1, SavedStays DEF WholeOK
    <3>3. e.from \in OfLevel(level)
      BY <1>3, Steps DEF EdgesOf, OfLevel
    <3>4. level < maxLevel => level + 1 \in Levels /\ level + 1 # level
      BY <1>3 DEF Levels
    <3>5. /\ Keys(board'[level]) = OfLevel(level)
          /\ level < maxLevel => Keys(board'[level + 1]) = OfLevel(level + 1)
      BY <1>1, <1>3, <2>2, <3>1, <3>3, <3>4 DEF WholeOK, BackOK
    <3>6. BackOK'
      BY <1>1, <1>6, <3>1, <3>5 DEF WholeOK, BackOK, OfLevel, Deepest
    <3> QED
      BY <1>1, <1>6, <3>2, <3>6 DEF WholeOK, SeedsOK, SweepOK, ChildrenOK, DoneOK, InLevel
  <2> QED
    BY <1>4, <2>3, <2>4 DEF PlayInv
<1> QED
  BY <1>1, <1>5, <1>6

LEMMA BackPropLevelCompletePlays == ASSUME SolverInv, PlayInv, BackPropLevelComplete PROVE PlayInv'
<1> DEFINE After(l) == CASE l = level -> IF level > 0 THEN Checkpointed(board[l])
                                         ELSE ClosedBoards(Checkpointed(board[l]))
                         [] l = level + 1 -> ClosedBoards(board[l])
                         [] l = level - 1 -> OpenedBoards(board[l])
                         [] OTHER -> board[l]
<1>1. /\ pc = "back" /\ level \in Levels /\ level \in Nat /\ maxLevel \in Nat /\ deepestLevel \in Levels
      /\ DOMAIN moves = Levels /\ \A l \in Levels : BoardStore(board[l], l) /\ MoveStore(moves[l], l) /\ l \in Nat
  BY GameAssumption DEF SolverInv, BackPropLevelComplete, LevelOK, StoresOK, Levels
<1>2. /\ board' = [l \in Levels |-> After(l)] /\ UNCHANGED <<deepestLevel, worker>>
      /\ level > 0 => /\ moves' = [moves EXCEPT ![level] = ClosedMoves(moves[level]),
                                                ![level - 1] = OpenedMoves(moves[level - 1])]
                      /\ level' = level - 1 /\ pc' = pc /\ lost' = (lost \/ board[level - 1].worn)
      /\ level = 0 => /\ moves' = [moves EXCEPT ![0] = ClosedMoves(moves[0])]
                      /\ pc' = "sentinel" /\ lost' = lost
  BY WindowSlides DEF sweep
<1>3. \A l \in Levels : moves'[l].named = moves[l].named /\ moves'[l].saved = moves[l].saved
  <2>1. level > 0 => level - 1 \in Levels /\ level - 1 # level
    BY <1>1 DEF Levels
  <2>2. \A l \in Levels : moves'[l] \in {moves[l], ClosedMoves(moves[l]), OpenedMoves(moves[l])}
    BY <1>1, <1>2, <2>1
  <2>3. \A l \in Levels : /\ ClosedMoves(moves[l]).named = moves[l].named
                          /\ ClosedMoves(moves[l]).saved = moves[l].saved
                          /\ OpenedMoves(moves[l]).named = moves[l].named
                          /\ OpenedMoves(moves[l]).saved = moves[l].saved
    BY NamesOfMoves
  <2> QED
    BY <2>2, <2>3
<1>4. \A l \in Levels : /\ board[l].named => board'[l].named
                        /\ l # level => board'[l].saved = board[l].saved
  <2> SUFFICES ASSUME NEW l \in Levels
               PROVE  /\ board[l].named => board'[l].named
                      /\ l # level => board'[l].saved = board[l].saved
    OBVIOUS
  <2>0. BoardStore(board[l], l) /\ l \in Nat
    BY <1>1
  <2>1. CASE l = level
    <3>1. /\ Checkpointed(board[l]).named /\ BoardStore(Checkpointed(board[l]), l)
      BY <2>0, CheckpointedKeys, CheckpointedKeeps
    <3>2. ClosedBoards(Checkpointed(board[l])).named
      BY <3>1, ClosedKeys
    <3>3. board'[l] = IF level > 0 THEN Checkpointed(board[l]) ELSE ClosedBoards(Checkpointed(board[l]))
      BY <1>1, <1>2, <2>1
    <3> QED
      BY <2>1, <3>1, <3>2, <3>3
  <2>2. CASE l # level
    <3>1. board'[l] \in {ClosedBoards(board[l]), OpenedBoards(board[l]), board[l]}
      BY <1>1, <1>2, <2>2
    <3> QED
      BY <2>0, <3>1, ClosedKeys, OpenedKeys
  <2> QED
    BY <2>1, <2>2
<1>5. /\ board'[level] = IF level > 0 THEN Checkpointed(board[level]) ELSE ClosedBoards(Checkpointed(board[level]))
      /\ level > 0 => board'[level - 1] = OpenedBoards(board[level - 1])
  <2>1. level > 0 => /\ level - 1 \in Levels /\ level - 1 # level /\ level - 1 # level + 1
    BY <1>1 DEF Levels
  <2> QED
    BY <1>1, <1>2, <2>1
<1> HIDE DEF After
<1>6. DOMAIN board'[level].saved = Keys(board[level]) /\ (level > 0 => Keys(board'[level]) = Keys(board[level]))
  <2>1. /\ DOMAIN Checkpointed(board[level]).saved = Keys(board[level])
        /\ Keys(Checkpointed(board[level])) = Keys(board[level]) /\ BoardStore(Checkpointed(board[level]), level)
    BY <1>1, CheckpointedKeys, CheckpointedKeeps
  <2>2. ClosedBoards(Checkpointed(board[level])).saved = Checkpointed(board[level]).saved
    BY <2>1, ClosedKeys
  <2> QED
    BY <1>5, <2>1, <2>2
<1>7. BatchesOK'
  BY <1>2 DEF PlayInv, BatchesOK, Terminal, Out
<1>8. moves[deepestLevel].named /\ level <= deepestLevel /\ deepestLevel \in Nat
  BY <1>1 DEF PlayInv, NamesOK
<1>9. NamesOK'
  <2>1. level > 0 => level' \in Nat /\ level' <= deepestLevel /\ pc' = "back"
    BY <1>1, <1>2, <1>8
  <2>2. level = 0 => pc' = "sentinel"
    BY <1>2
  <2> QED
    BY <1>1, <1>2, <1>3, <1>4, <1>8, <2>1, <2>2 DEF PlayInv, NamesOK, InLevel, Levels
<1>10. ASSUME ~lost' PROVE WholeOK'
  <2>1. WholeOK /\ (level > 0 => ~board[level - 1].worn)
    <3>1. CASE level > 0
      <4>1. lost' = (lost \/ board[level - 1].worn)
        BY <1>2, <3>1
      <4> QED
        BY <1>10, <4>1 DEF PlayInv
    <3>2. CASE level = 0
      BY <1>2, <1>10, <3>2 DEF PlayInv
    <3> QED
      BY <1>1, <3>1, <3>2
  <2>2. Keys(board[level]) = OfLevel(level)
    BY <1>1, <2>1 DEF WholeOK, BackOK
  <2>3. SavedOK'
    BY <1>3, <1>4, <1>6, <2>1, <2>2 DEF WholeOK, SavedOK, Kept, OfLevel, EdgesOf, Levels
  <2>4. CASE level > 0
    <3>1. level - 1 \in Levels /\ level - 1 < deepestLevel /\ level - 1 + 1 = level
      BY <1>1, <1>8, <2>4 DEF Levels
    <3>2. moves[level - 1].named
      BY <1>1, <1>8, <3>1 DEF PlayInv, NamesOK
    <3>3. Keys(board'[level - 1]) = OfLevel(level - 1)
      BY <1>5, <2>1, <2>4, <3>1, <3>2, OpenedWhole
    <3>4. pc' = "back" /\ level' = level - 1 /\ level' + 1 = level /\ deepestLevel' = deepestLevel
      BY <1>1, <1>2, <2>4, <3>1
    <3>5. /\ Keys(board'[level']) = OfLevel(level')
          /\ Keys(board'[level' + 1]) = OfLevel(level' + 1)
      BY <1>6, <2>2, <2>4, <3>3, <3>4
    <3>6. BackOK'
      BY <1>1, <2>1, <3>4, <3>5 DEF WholeOK, BackOK, OfLevel, Deepest
    <3> QED
      BY <2>3, <3>4, <3>6 DEF WholeOK, SeedsOK, SweepOK, ChildrenOK, DoneOK, InLevel
  <2>5. CASE level = 0
    BY <1>2, <2>3, <2>5 DEF WholeOK, SeedsOK, SweepOK, ChildrenOK, DoneOK, BackOK, InLevel
  <2> QED
    BY <1>1, <2>4, <2>5
<1> QED
  BY <1>7, <1>9, <1>10 DEF PlayInv
-----------------------------------------------------------------------------
LEMMA PlayInit == Init => PlayInv
<1> SUFFICES ASSUME Init PROVE PlayInv
  OBVIOUS
<1>1. \A l \in Levels : ~board[l].named /\ ~moves[l].named
  BY CreatedKeys DEF Init
<1>2. NamesOK /\ BatchesOK
  BY <1>1 DEF Init, NamesOK, BatchesOK, Idle, InLevel
<1>3. WholeOK
  BY <1>1 DEF Init, WholeOK, SavedOK, SeedsOK, SweepOK, ChildrenOK, DoneOK, BackOK, InLevel
<1> QED
  BY <1>2, <1>3 DEF PlayInv

LEMMA PlayStep == ASSUME SolverInv, PlayInv, [Next]_vars PROVE PlayInv'
<1>1. CASE Main
  BY <1>1, StartPlays, RestartPlays, EndsPlay, StartLevelPlays, DispatchPlays, DrainPlays,
     CheckpointBoardsPlays, CheckpointMovesPlays, EndLevelPlays, StartBackPropagationPlays,
     CarryBackPlays, BackPropLevelCompletePlays DEF Main
<1>2. CASE \E w \in Workers : Job(w)
  BY <1>2, WorkerProcessBatchPlays, JobEndPlays DEF Job
<1>3. CASE Pool \/ \E l \in Levels : TriggerBgFlush(l)
  BY <1>3, MergesPlay DEF Pool
<1>4. CASE Crash
  BY <1>4, CrashPlays
<1>5. CASE UNCHANGED vars
  BY <1>5, SameKeys DEF vars, stores, history
<1> QED
  BY <1>1, <1>2, <1>3, <1>4, <1>5 DEF Next

LEMMA PlayAlways == Spec => [](SolverInv /\ PlayInv)
<1>1. Init => SolverInv /\ PlayInv
  BY SolverInit, PlayInit
<1>2. SolverInv /\ PlayInv /\ [Next]_vars => (SolverInv /\ PlayInv)'
  BY SolverStep, PlayStep
<1> QED
  BY <1>1, <1>2, PTL DEF Spec

(* Whatever the game, the order of the threads, the flushes and the crashes *)
(* of the process, the sweep leaves no board and no move out: at its end    *)
(* every level up to the last has every board and every move in its         *)
(* manifests, unless a store was opened whose files a merge had replaced    *)
(* (OthelloSolverCommandLine.cpp, the level loop and doRestartProcess).     *)
THEOREM LevelsAlwaysComplete == Spec => []LevelsComplete
<1>1. SolverInv /\ PlayInv => LevelsComplete
  <2> SUFFICES ASSUME SolverInv, PlayInv, pc = "open", ~lost
               PROVE  /\ deepestLevel = Deepest
                      /\ \A l \in 0..Deepest : /\ DOMAIN board[l].saved = OfLevel(l)
                                               /\ moves[l].saved = UNION {Out(b) : b \in OfLevel(l)}
    BY DEF LevelsComplete
  <2>1. deepestLevel = Deepest /\ deepestLevel \in Levels /\ moves[deepestLevel].named /\ SavedOK
    BY DEF SolverInv, LevelOK, PlayInv, NamesOK, WholeOK, BackOK
  <2>2. \A l \in 0..deepestLevel : l \in Levels /\ moves[l].named
    <3>1. \A l \in 0..deepestLevel : l \in Levels /\ (l < deepestLevel \/ l = deepestLevel)
      BY <2>1, GameAssumption DEF Levels
    <3> QED
      BY <2>1, <3>1 DEF PlayInv, NamesOK
  <2>3. \A l \in Levels : EdgesOf(l) = UNION {Out(b) : b \in OfLevel(l)}
    BY Steps DEF EdgesOf, Out, OfLevel
  <2> QED
    BY <2>1, <2>2, <2>3 DEF SavedOK, Kept
<1> QED
  BY <1>1, PlayAlways, PTL

(* A run that fails has opened a store whose files a merge had replaced: as *)
(* long as that does not happen every board a move leads to is found when   *)
(* the wins are carried back, and no arena is wanted in vain                *)
(* (OthelloSolverCommandLine.cpp, the Fatal of the back-propagation).       *)
THEOREM FailsOnlyWhenLost == Spec => []FailsOnlyIfLost
<1>1. SolverInv /\ PlayInv => FailsOnlyIfLost
  BY DEF SolverInv, CarryOK, PlayInv, WholeOK, FailsOnlyIfLost
<1> QED
  BY <1>1, PlayAlways, PTL
-----------------------------------------------------------------------------
(* The wins.  A sum over moves takes them out one at a time, whichever      *)
(* CHOOSE picks; the lemmas say it is the sum of any one move's wins and    *)
(* the sum over the others.                                                 *)
Chosen(s) == CHOOSE x \in s : TRUE
Adds(wins, es, f) ==
  f = [s \in SUBSET es |->
         IF s = {} THEN Zero
         ELSE Add(f[s \ {Chosen(s)}], Swapped(Chosen(s), wins[Chosen(s).to]))]
Adder(wins, es) == CHOOSE f : Adds(wins, es, f)

LEMMA SumIs == ASSUME NEW wins, NEW es PROVE Sum(wins, es) = Adder(wins, es)[es]
BY Zenon DEF Sum, FoldSet, MapThenFoldSet, Adder, Adds, Chosen

Vec == [1..3 -> Nat]
Brought(wins, e) == Swapped(e, wins[e.to])

LEMMA VecOf == ASSUME NEW a \in Nat, NEW b \in Nat, NEW c \in Nat PROVE <<a, b, c>> \in Vec
BY DEF Vec
LEMMA ZeroVec == Zero \in Vec /\ \A i \in 1..3 : Zero[i] = 0
BY DEF Vec, Zero
LEMMA SwappedVec == ASSUME NEW e, NEW v \in Vec PROVE Swapped(e, v) \in Vec
<1>1. v[1] \in Nat /\ v[2] \in Nat /\ v[3] \in Nat
  BY DEF Vec
<1> QED
  BY <1>1, VecOf DEF Swapped
LEMMA AddVec == ASSUME NEW u \in Vec, NEW v \in Vec PROVE Add(u, v) \in Vec
BY DEF Vec, Add
LEMMA AddZero == ASSUME NEW v \in Vec PROVE Add(v, Zero) = v /\ Add(Zero, v) = v
BY ZeroVec DEF Vec, Add
LEMMA AddSwap == ASSUME NEW u \in Vec, NEW v \in Vec, NEW w \in Vec
  PROVE Add(u, v) = Add(v, u) /\ Add(Add(u, v), w) = Add(Add(u, w), v) /\ Add(Add(u, v), w) = Add(u, Add(v, w))
BY DEF Vec, Add

LEMMA MinimalSet ==
  ASSUME NEW S, IsFiniteSet(S), NEW B \in SUBSET (SUBSET S), B # {}
  PROVE  \E T \in B : \A U \in B : U \subseteq T => U = T
<1>1. B \subseteq FiniteSubsetsOf(S)
  BY FS_FiniteSubsetsOfFinite
<1>2. IsWellFoundedOn(StrictSubsetOrdering(S), FiniteSubsetsOf(S))
  BY FS_StrictSubsetOrderingWellFounded
<1>3. \E T \in B : \A U \in B : ~ (<<U, T>> \in StrictSubsetOrdering(S))
  BY <1>1, <1>2, WFMin
<1> QED
  BY <1>3 DEF StrictSubsetOrdering

LEMMA AddersAgree ==
  ASSUME NEW wins, NEW S, IsFiniteSet(S), NEW R, IsFiniteSet(R), NEW f, NEW g, Adds(wins, S, f), Adds(wins, R, g)
  PROVE  \A s \in SUBSET (S \cap R) : f[s] = g[s]
<1> DEFINE B == {s \in SUBSET (S \cap R) : f[s] # g[s]}
<1>1. SUFFICES ASSUME B # {} PROVE FALSE
  OBVIOUS
<1>2. IsFiniteSet(S \cap R)
  BY FS_Subset
<1>3. PICK s \in B : \A t \in B : t \subseteq s => t = s
  <2>1. B \in SUBSET (SUBSET (S \cap R))
    OBVIOUS
  <2> HIDE DEF B
  <2> QED
    BY <1>1, <1>2, <2>1, MinimalSet
<1>4. s \subseteq S \cap R /\ s # {} 
  BY <1>3 DEF Adds
<1>5. Chosen(s) \in s
  BY <1>4 DEF Chosen
<1>6. f[s \ {Chosen(s)}] = g[s \ {Chosen(s)}]
  BY <1>3, <1>4, <1>5
<1>7. f[s] = g[s]
  BY <1>4, <1>6 DEF Adds
<1> QED
  BY <1>3, <1>7

LEMMA AdderExists ==
  ASSUME NEW wins, NEW S, IsFiniteSet(S)
  PROVE  Adds(wins, S, Adder(wins, S))
<1> DEFINE Good(s) == \E f : Adds(wins, s, f)
           B == {s \in SUBSET S : ~Good(s)}
<1>1. SUFFICES ASSUME B # {} PROVE FALSE
  <2>1. S \notin B => Good(S)
    OBVIOUS
  <2>2. Good(S) => Adds(wins, S, Adder(wins, S))
    BY Zenon DEF Adder
  <2> QED
    BY <1>1, <2>1, <2>2
<1>2. PICK T \in B : \A U \in B : U \subseteq T => U = T
  <2>1. B \in SUBSET (SUBSET S)
    OBVIOUS
  <2> HIDE DEF B
  <2> QED
    BY <1>1, <2>1, MinimalSet
<1>3. ASSUME NEW U \in SUBSET T, U # T PROVE IsFiniteSet(U) /\ Adds(wins, U, Adder(wins, U))
  <2>1. U \notin B /\ U \in SUBSET S
    BY <1>2, <1>3
  <2>2. Good(U)
    BY <2>1
  <2> QED
    BY <2>1, <2>2, FS_Subset, Zenon DEF Adder
<1> DEFINE Last(s) == Adder(wins, s)[s]
           g == [s \in SUBSET T |->
                   IF s = {} THEN Zero
                   ELSE Add(Last(s \ {Chosen(s)}), Swapped(Chosen(s), wins[Chosen(s).to]))]
<1>4. ASSUME NEW s \in SUBSET T, s # {} PROVE g[s \ {Chosen(s)}] = Last(s \ {Chosen(s)})
  <2> DEFINE r == s \ {Chosen(s)}
  <2>1. Chosen(s) \in s
    BY <1>4 DEF Chosen
  <2>2. r \in SUBSET T /\ r # T
    BY <2>1
  <2>3. Adds(wins, r, Adder(wins, r)) /\ IsFiniteSet(r)
    BY <1>3, <2>2
  <2>4. CASE r = {}
    <3>1. Last(r) = Zero
      BY <2>3, <2>4 DEF Adds
    <3> QED
      BY <2>2, <2>4, <3>1
  <2>5. CASE r # {}
    <3> DEFINE q == r \ {Chosen(r)}
    <3>1. Chosen(r) \in r
      BY <2>5 DEF Chosen
    <3>2. q \in SUBSET T /\ q # T /\ q \in SUBSET (r \cap q)
      BY <2>2, <3>1
    <3>3. Adds(wins, q, Adder(wins, q)) /\ IsFiniteSet(q)
      BY <1>3, <3>2
    <3> HIDE DEF q
    <3>4. Adder(wins, r)[q] = Adder(wins, q)[q]
      BY <2>3, <3>2, <3>3, AddersAgree
    <3>5. Last(r) = Add(Adder(wins, r)[q], Swapped(Chosen(r), wins[Chosen(r).to]))
      BY <2>3, <2>5, Zenon DEF Adds, q
    <3>6. g[r] = Add(Last(q), Swapped(Chosen(r), wins[Chosen(r).to]))
      BY <2>2, <2>5, Zenon DEF q
    <3> QED
      BY <3>4, <3>5, <3>6
  <2> QED
    BY <2>4, <2>5
<1>5. Adds(wins, T, g)
  <2> DEFINE h == [s \in SUBSET T |->
                   IF s = {} THEN Zero
                   ELSE Add(g[s \ {Chosen(s)}], Swapped(Chosen(s), wins[Chosen(s).to]))]
  <2>1. \A s \in SUBSET T : g[s] = h[s]
    BY <1>4
  <2>2. g = h
    BY <2>1
  <2> QED
    BY <2>2, Zenon DEF Adds
<1> HIDE DEF g
<1>6. Good(T)
  BY <1>5
<1> QED
  BY <1>2, <1>6

LEMMA SumSteps ==
  ASSUME NEW wins, NEW S, IsFiniteSet(S)
  PROVE  /\ Sum(wins, {}) = Zero
         /\ S # {} => /\ Chosen(S) \in S
                      /\ Sum(wins, S) = Add(Sum(wins, S \ {Chosen(S)}), Brought(wins, Chosen(S)))
<1>1. Sum(wins, {}) = Zero
  <2>1. Adds(wins, {}, Adder(wins, {}))
    BY AdderExists, FS_EmptySet
  <2> QED
    BY <2>1, SumIs DEF Adds
<1>2. ASSUME S # {} PROVE Chosen(S) \in S
  BY <1>2 DEF Chosen
<1>3. ASSUME S # {} PROVE Sum(wins, S) = Add(Sum(wins, S \ {Chosen(S)}), Brought(wins, Chosen(S)))
  <2> DEFINE r == S \ {Chosen(S)}
  <2>1. IsFiniteSet(r) /\ r \in SUBSET (S \cap r)
    BY FS_Subset
  <2>2. Adds(wins, S, Adder(wins, S)) /\ Adds(wins, r, Adder(wins, r))
    BY <2>1, AdderExists
  <2> HIDE DEF r
  <2>3. Adder(wins, S)[r] = Adder(wins, r)[r]
    <3> DEFINE F == Adder(wins, S)  G == Adder(wins, r)
    <3>1. Adds(wins, S, F) /\ Adds(wins, r, G)
      BY <2>2
    <3> HIDE DEF F, G
    <3>2. IsFiniteSet(S) /\ IsFiniteSet(r)
      BY <2>1
    <3>3. \A s \in SUBSET (S \cap r) : F[s] = G[s]
      BY <3>1, <3>2, AddersAgree
    <3>4. F[r] = G[r]
      BY <2>1, <3>3
    <3> QED
      BY <3>4 DEF F, G
  <2>4. Adder(wins, S)[S] = Add(Adder(wins, S)[r], Brought(wins, Chosen(S)))
    BY <1>3, <2>2 DEF Adds, r, Brought
  <2> QED
    BY <2>3, <2>4, SumIs DEF r
<1> QED
  BY <1>1, <1>2, <1>3

LEMMA SumVec ==
  ASSUME NEW wins, NEW S, IsFiniteSet(S), \A e \in S : Brought(wins, e) \in Vec
  PROVE  Sum(wins, S) \in Vec
<1> DEFINE B == {s \in SUBSET S : Sum(wins, s) \notin Vec}
<1>1. SUFFICES ASSUME B # {} PROVE FALSE
  OBVIOUS
<1>2. PICK s \in B : \A t \in B : t \subseteq s => t = s
  <2>1. B \in SUBSET (SUBSET S)
    OBVIOUS
  <2> HIDE DEF B
  <2> QED
    BY <1>1, <2>1, MinimalSet
<1>3. IsFiniteSet(s) /\ s \subseteq S
  BY <1>2, FS_Subset
<1>4. CASE s = {}
  BY <1>2, <1>3, <1>4, SumSteps, ZeroVec
<1>5. CASE s # {}
  <2>1. Chosen(s) \in s /\ Sum(wins, s) = Add(Sum(wins, s \ {Chosen(s)}), Brought(wins, Chosen(s)))
    BY <1>3, <1>5, SumSteps
  <2>2. Sum(wins, s \ {Chosen(s)}) \in Vec
    BY <1>2, <1>3, <2>1
  <2> QED
    BY <1>2, <1>3, <2>1, <2>2, AddVec
<1> QED
  BY <1>4, <1>5

LEMMA SumTakes ==
  ASSUME NEW wins, NEW S, IsFiniteSet(S), \A e \in S : Brought(wins, e) \in Vec, NEW d \in S
  PROVE  Sum(wins, S) = Add(Sum(wins, S \ {d}), Brought(wins, d))
<1> DEFINE B == {s \in SUBSET S : \E e \in s : Sum(wins, s) # Add(Sum(wins, s \ {e}), Brought(wins, e))}
<1>1. SUFFICES ASSUME B # {} PROVE FALSE
  OBVIOUS
<1>2. PICK s \in B : \A t \in B : t \subseteq s => t = s
  <2>1. B \in SUBSET (SUBSET S)
    OBVIOUS
  <2> HIDE DEF B
  <2> QED
    BY <1>1, <2>1, MinimalSet
<1>3. PICK e \in s : Sum(wins, s) # Add(Sum(wins, s \ {e}), Brought(wins, e))
  BY <1>2
<1> DEFINE c == Chosen(s)
<1>4. IsFiniteSet(s) /\ s \subseteq S
  BY <1>2, FS_Subset
<1>5. c \in s /\ Sum(wins, s) = Add(Sum(wins, s \ {c}), Brought(wins, c))
  BY <1>3, <1>4, SumSteps
<1>6. e # c
  BY <1>3, <1>5
<1> DEFINE q == s \ {c, e}
<1>7. /\ (s \ {c}) \ {e} = q /\ (s \ {e}) \ {c} = q /\ e \in s \ {c} /\ c \in s \ {e}
      /\ s \ {c} \in SUBSET S /\ s \ {e} \in SUBSET S /\ s \ {c} # s /\ s \ {e} # s /\ q \in SUBSET S
  BY <1>3, <1>4, <1>5, <1>6
<1> HIDE DEF q, c
<1>8. s \ {c} \notin B /\ s \ {e} \notin B
  BY <1>2, <1>7
<1>9. /\ Sum(wins, s \ {c}) = Add(Sum(wins, q), Brought(wins, e))
      /\ Sum(wins, s \ {e}) = Add(Sum(wins, q), Brought(wins, c))
  BY <1>7, <1>8
<1>10. Sum(wins, q) \in Vec /\ Brought(wins, e) \in Vec /\ Brought(wins, c) \in Vec
  <2>1. IsFiniteSet(q)
    BY <1>7, FS_Subset
  <2> QED
    BY <1>3, <1>4, <1>5, <1>7, <2>1, SumVec
<1> QED
  BY <1>3, <1>5, <1>9, <1>10, AddSwap
LEMMA SumSame ==
  ASSUME NEW S, IsFiniteSet(S), NEW v, NEW w, \A e \in S : v[e.to] = w[e.to]
  PROVE  Sum(v, S) = Sum(w, S)
<1> DEFINE B == {s \in SUBSET S : Sum(v, s) # Sum(w, s)}
<1>1. SUFFICES ASSUME B # {} PROVE FALSE
  OBVIOUS
<1>2. PICK s \in B : \A t \in B : t \subseteq s => t = s
  <2>1. B \in SUBSET (SUBSET S)
    OBVIOUS
  <2> HIDE DEF B
  <2> QED
    BY <1>1, <2>1, MinimalSet
<1>3. IsFiniteSet(s) /\ s \subseteq S
  BY <1>2, FS_Subset
<1>4. s # {}
  BY <1>2, <1>3, SumSteps
<1>5. /\ Chosen(s) \in s
      /\ Sum(v, s) = Add(Sum(v, s \ {Chosen(s)}), Brought(v, Chosen(s)))
      /\ Sum(w, s) = Add(Sum(w, s \ {Chosen(s)}), Brought(w, Chosen(s)))
  BY <1>3, <1>4, SumSteps
<1>6. Sum(v, s \ {Chosen(s)}) = Sum(w, s \ {Chosen(s)})
  BY <1>2, <1>3, <1>5
<1>7. Brought(v, Chosen(s)) = Brought(w, Chosen(s))
  BY <1>3, <1>5 DEF Brought
<1> QED
  BY <1>2, <1>5, <1>6, <1>7

LEMMA OutIs == ASSUME NEW b PROVE Out(b) \subseteq Edges /\ IsFiniteSet(Out(b)) /\ \A e \in Out(b) : e.from = b
<1>1. Out(b) \in SUBSET Edges /\ \A e \in Out(b) : e.from = b
  BY DEF Out
<1> QED
  BY <1>1, FS_Subset, OutcomeAssumption

\* No play returns to a board: of a set of boards one has no move into the set.
LEMMA LastOf ==
  ASSUME NEW C \in SUBSET Boards, C # {}
  PROVE  \E b \in C : \A e \in Out(b) : e.to \notin C
<1> DEFINE Above(b) == {c \in C : LevelOf[c] > LevelOf[b]}
           B == {Above(b) : b \in C}
<1>1. PICK b \in C : \A c \in C : Above(c) \subseteq Above(b) => Above(c) = Above(b)
  <2>1. \A c : Above(c) \in SUBSET Boards
    OBVIOUS
  <2> HIDE DEF Above
  <2>2. B \in SUBSET (SUBSET Boards) /\ B # {}
    BY <2>1
  <2>3. \A T : T \in B <=> \E c \in C : T = Above(c)
    OBVIOUS
  <2> HIDE DEF B
  <2>4. IsFiniteSet(Boards)
    BY GameAssumption
  <2>5. \E T \in B : \A U \in B : U \subseteq T => U = T
    BY <2>2, <2>4, MinimalSet
  <2> QED
    BY <2>3, <2>5
<1>2. \A c \in C : c \in Boards /\ LevelOf[c] \in Nat
  BY LevelType
<1>3. \A c \in C : LevelOf[c] <= LevelOf[b]
  <2> SUFFICES ASSUME NEW c \in C, LevelOf[c] > LevelOf[b] PROVE FALSE
    BY <1>2
  <2>1. Above(c) \subseteq Above(b) /\ c \in Above(b) /\ c \notin Above(c)
    BY <1>2
  <2> QED
    BY <1>1, <2>1
<1>4. ASSUME NEW c \in C, LevelOf[c] = LevelOf[b], NEW e \in Out(c), e.to \in C
      PROVE  e.pass /\ LevelOf[e.to] = LevelOf[b] /\ e \in Edges
  <2>1. e \in Edges /\ e.from = c
    BY OutIs
  <2> QED
    BY <1>2, <1>3, <1>4, <2>1, Steps
<1>5. CASE \A e \in Out(b) : e.to \notin C
  BY <1>5
<1>6. CASE \E e \in Out(b) : e.to \in C
  <2>1. PICK e \in Out(b) : e.to \in C
    BY <1>6
  <2>2. e.pass /\ LevelOf[e.to] = LevelOf[b] /\ e \in Edges
    BY <1>4, <2>1
  <2>3. \A d \in Out(e.to) : ~d.pass
    BY <2>2, OutcomeAssumption DEF Out
  <2>4. \A d \in Out(e.to) : d.to \notin C
    BY <1>4, <2>1, <2>2, <2>3
  <2> QED
    BY <2>1, <2>4
<1> QED
  BY <1>5, <1>6

WinsOf(f, b) == IF Terminal(b) THEN Outcome[b] ELSE Sum(f, Out(b))
LEMMA WinsExist == \E f : f = [b \in Boards |-> WinsOf(f, b)]
<1> DEFINE Closed(D) == \A b \in D : \A e \in Out(b) : e.to \in D
           Solves(f, D) == \A b \in D : f[b] = WinsOf(f, b)
           Good(D) == Closed(D) /\ \E f : Solves(f, D)
           B == {C \in SUBSET Boards : Good(Boards \ C)}
<1>1. Boards \in B
  BY Zenon
<1>2. PICK C \in B : \A U \in B : U \subseteq C => U = C
  <2>1. B \in SUBSET (SUBSET Boards) /\ B # {} /\ IsFiniteSet(Boards)
    BY <1>1, GameAssumption
  <2> HIDE DEF B
  <2> QED
    BY <2>1, MinimalSet
<1> DEFINE D == Boards \ C
<1>3. Closed(D) /\ C \in SUBSET Boards
  BY <1>2
<1>4. PICK f : Solves(f, D)
  BY <1>2
<1>5. C = {}
  <2>1. SUFFICES ASSUME C # {} PROVE FALSE
    OBVIOUS
  <2>2. PICK b \in C : \A e \in Out(b) : e.to \notin C
    BY <1>3, <2>1, LastOf
  <2> DEFINE g == [c \in Boards |-> IF c = b THEN WinsOf(f, b) ELSE f[c]]
             E == Boards \ (C \ {b})
  <2>3. \A c \in E : c = b \/ c \in D
    OBVIOUS
  <2>4. b \in Boards /\ b \notin D /\ D \subseteq E /\ \A c \in D : c \in Boards /\ c # b
    BY <1>3
  <2>5. \A c \in E : \A e \in Out(c) : e.to \in D
    BY <1>3, <2>2, <2>3, OutIs, Steps
  <2>6. Closed(E)
    BY <2>4, <2>5
  <2>7. ASSUME NEW c \in E PROVE g[c] = WinsOf(g, c)
    <3>1. \A e \in Out(c) : g[e.to] = f[e.to]
      BY <2>4, <2>5
    <3>2. g[c] = WinsOf(f, c)
      BY <1>4, <2>3, <2>4
    <3> HIDE DEF g
    <3>3. Sum(g, Out(c)) = Sum(f, Out(c))
      BY <3>1, OutIs, SumSame
    <3> QED
      BY <3>2, <3>3 DEF WinsOf
  <2> HIDE DEF g
  <2>8. Good(E)
    BY <2>6, <2>7
  <2>9. C \ {b} \in B
    BY <1>3, <2>8
  <2> QED
    BY <1>2, <2>2, <2>9
<1>6. \A b \in Boards : f[b] = WinsOf(f, b)
  BY <1>4, <1>5
<1> DEFINE g == [b \in Boards |-> f[b]]
<1>7. ASSUME NEW b \in Boards PROVE WinsOf(g, b) = WinsOf(f, b)
  <2>1. \A e \in Out(b) : g[e.to] = f[e.to]
    BY OutIs, Steps
  <2> HIDE DEF g
  <2>2. Sum(g, Out(b)) = Sum(f, Out(b))
    BY <2>1, OutIs, SumSame
  <2> QED
    BY <2>2 DEF WinsOf
<1>8. g = [b \in Boards |-> WinsOf(g, b)]
  <2> DEFINE h == [b \in Boards |-> WinsOf(g, b)]
  <2>1. \A b \in Boards : g[b] = h[b]
    BY <1>6, <1>7
  <2>2. g = h
    BY <2>1
  <2> QED
    BY <2>2
<1> QED
  BY <1>8

LEMMA WinsAre ==
  /\ \A b \in Boards : Terminal(b) => Wins[b] = Outcome[b]
  /\ \A b \in Boards : ~Terminal(b) => Wins[b] = Sum(Wins, Out(b))
<1>1. Wins = CHOOSE f : f = [b \in Boards |-> WinsOf(f, b)]
  BY Zenon DEF Wins, WinsOf
<1>2. Wins = [b \in Boards |-> WinsOf(Wins, b)]
  BY <1>1, WinsExist, Zenon
<1>3. \A b \in Boards : Wins[b] = WinsOf(Wins, b)
  BY <1>2, Zenon
<1> QED
  BY <1>3 DEF WinsOf

LEMMA WinsVec == ASSUME NEW b \in Boards PROVE Wins[b] \in Vec
<1> DEFINE C == {c \in Boards : Wins[c] \notin Vec}
<1>1. SUFFICES ASSUME C # {} PROVE FALSE
  OBVIOUS
<1>2. PICK c \in C : \A e \in Out(c) : e.to \notin C
  BY <1>1, LastOf
<1>3. CASE Terminal(c)
  <2>1. \A e \in Edges : e.from # c
    BY <1>3 DEF Terminal, Out
  <2>2. Outcome[c] \in Vec
    BY <1>2, <2>1, OutcomeAssumption DEF Vec
  <2> QED
    BY <1>2, <1>3, <2>2, WinsAre
<1>4. CASE ~Terminal(c)
  <2>1. \A e \in Out(c) : Wins[e.to] \in Vec
    BY <1>2, OutIs, Steps
  <2>2. \A e \in Out(c) : Brought(Wins, e) \in Vec
    BY <2>1, SwappedVec DEF Brought
  <2>3. Sum(Wins, Out(c)) \in Vec
    BY <2>2, OutIs, SumVec
  <2> QED
    BY <1>2, <1>4, <2>3, WinsAre
<1> QED
  BY <1>3, <1>4

-----------------------------------------------------------------------------
\* What the tiers of a store hold of a board, together.
VecRecords(f) == \A c \in DOMAIN f : f[c] \in Vec
Vecs(s) == VecRecords(s.mem) /\ VecRecords(s.bg) /\ VecRecords(s.files) /\ VecRecords(s.saved)
In(f, c) == IF c \in DOMAIN f THEN f[c] ELSE Zero
Record(s, c) == Contents(s)[c]

LEMMA InVec == ASSUME NEW f, VecRecords(f), NEW c PROVE In(f, c) \in Vec
BY ZeroVec DEF VecRecords, In

LEMMA InEmpty == ASSUME NEW f, DOMAIN f = {}, NEW c PROVE In(f, c) = Zero /\ VecRecords(f)
BY DEF In, VecRecords

LEMMA MergeIs ==
  ASSUME NEW t, NEW f, VecRecords(t), VecRecords(f)
  PROVE  /\ VecRecords(Merge(t, f))
         /\ \A c : In(Merge(t, f), c) = Add(In(t, c), In(f, c))
<1> DEFINE m == Merge(t, f)
<1>1. DOMAIN m = DOMAIN t \cup DOMAIN f
  BY MergeDomain
<1>2. ASSUME NEW c PROVE In(m, c) \in Vec /\ In(m, c) = Add(In(t, c), In(f, c))
  <2>1. /\ In(t, c) \in Vec /\ In(f, c) \in Vec
        /\ Add(In(t, c), In(f, c)) \in Vec /\ Add(In(f, c), In(t, c)) = Add(In(t, c), In(f, c))
    BY InVec, AddVec, AddSwap
  <2>2. CASE c \notin DOMAIN m
    <3>1. In(t, c) = Zero /\ In(f, c) = Zero /\ In(m, c) = Zero
      BY <1>1, <2>2 DEF In
    <3> QED
      BY <3>1, ZeroVec, AddZero
  <2>3. CASE c \in DOMAIN m
    <3>1. m[c] = IF c \notin DOMAIN t THEN f[c] ELSE IF c \in DOMAIN f THEN Add(f[c], t[c]) ELSE t[c]
      BY <1>1, <2>3 DEF Merge
    <3>2. m[c] = Add(In(t, c), In(f, c))
      BY <1>1, <2>1, <2>3, <3>1, AddZero DEF In
    <3> QED
      BY <2>1, <2>3, <3>2 DEF In
  <2> QED
    BY <2>2, <2>3
<1> HIDE DEF m
<1>3. VecRecords(m)
  BY <1>2 DEF VecRecords, In
<1> QED
  BY <1>2, <1>3 DEF m

LEMMA ContentsIs ==
  ASSUME NEW s, Vecs(s)
  PROVE  /\ VecRecords(Contents(s))
         /\ \A c \in Keys(s) : /\ Record(s, c) = Add(In(s.mem, c), Add(In(s.bg, c), In(s.files, c)))
                               /\ Record(s, c) \in Vec
<1> DEFINE m == Merge(s.bg, s.files)
<1>1. VecRecords(m) /\ \A c : In(m, c) = Add(In(s.bg, c), In(s.files, c))
  BY MergeIs DEF Vecs
<1> HIDE DEF m
<1>2. VecRecords(Merge(s.mem, m)) /\ \A c : In(Merge(s.mem, m), c) = Add(In(s.mem, c), In(m, c))
  BY <1>1, MergeIs DEF Vecs
<1>3. Contents(s) = Merge(s.mem, m)
  BY DEF Contents, m
<1>4. \A c \in Keys(s) : In(Contents(s), c) = Record(s, c)
  BY ContentsKeys DEF In, Record
<1>5. \A c \in Keys(s) : Record(s, c) \in Vec
  BY <1>2, <1>3, <1>4, InVec
<1> QED
  BY <1>1, <1>2, <1>3, <1>4, <1>5

\* Two stores whose tiers add up to the same have the same records.
LEMMA SameRecords ==
  ASSUME NEW s, NEW t, Vecs(s), Vecs(t), NEW c \in Keys(s), c \in Keys(t),
         Add(In(s.mem, c), Add(In(s.bg, c), In(s.files, c))) =
         Add(In(t.mem, c), Add(In(t.bg, c), In(t.files, c)))
  PROVE  Record(t, c) = Record(s, c)
BY ContentsIs

LEMMA InsertedRecords ==
  ASSUME NEW l, NEW s, BoardStore(s, l), Vecs(s), NEW b, NEW delta \in Vec
  PROVE  /\ Vecs(Inserted(s, b, delta)) /\ Inserted(s, b, delta).worn = s.worn
         /\ \A c \in Keys(s) \ {b} : Record(Inserted(s, b, delta), c) = Record(s, c)
         /\ Record(Inserted(s, b, delta), b) = IF b \in Keys(s) THEN Add(Record(s, b), delta) ELSE delta
<1> DEFINE m == Put(s.mem, b, delta)  t == Inserted(s, b, delta)
<1>1. DOMAIN m = DOMAIN s.mem \cup {b}
  BY PutDomain
<1>2. \A c \in DOMAIN m : m[c] = IF c # b THEN s.mem[c]
                                 ELSE IF b \in DOMAIN s.mem THEN Add(s.mem[b], delta) ELSE delta
  BY <1>1 DEF Put
<1>3. VecRecords(m)
  BY <1>1, <1>2, AddVec DEF Vecs, VecRecords
<1>4. \A c : c # b => In(m, c) = In(s.mem, c)
  BY <1>1, <1>2 DEF In
<1>5. In(m, b) = Add(In(s.mem, b), delta)
  BY <1>1, <1>2, AddZero DEF In
<1> HIDE DEF m
<1>6. t.mem = m /\ t.bg = s.bg /\ t.files = s.files /\ t.saved = s.saved /\ t.worn = s.worn
  BY DEF BoardStore, Inserted, m
<1>7. Keys(t) = Keys(s) \cup {b}
  BY InsertedKeys
<1> HIDE DEF t
<1>8. Vecs(t)
  BY <1>3, <1>6 DEF Vecs
<1>9. \A c \in Keys(s) \ {b} : Record(t, c) = Record(s, c)
  BY <1>4, <1>6, <1>7, <1>8, SameRecords
<1>10. /\ In(s.mem, b) \in Vec /\ In(s.bg, b) \in Vec /\ In(s.files, b) \in Vec
       /\ Add(In(s.bg, b), In(s.files, b)) \in Vec
  BY InVec, AddVec DEF Vecs
<1>11. Record(t, b) = Add(Add(In(s.mem, b), Add(In(s.bg, b), In(s.files, b))), delta)
  <2> DEFINE u == Add(In(s.bg, b), In(s.files, b))
  <2>1. Record(t, b) = Add(Add(In(s.mem, b), delta), u)
    BY <1>5, <1>6, <1>7, <1>8, ContentsIs
  <2> QED
    BY <1>10, <2>1, AddSwap
<1>12. CASE b \in Keys(s)
  BY <1>6, <1>8, <1>9, <1>11, <1>12, ContentsIs DEF t
<1>13. CASE b \notin Keys(s)
  <2>1. In(s.mem, b) = Zero /\ In(s.bg, b) = Zero /\ In(s.files, b) = Zero
    BY <1>13 DEF In, Keys
  <2>2. Record(t, b) = delta
    BY <1>11, <2>1, ZeroVec, AddZero
  <2> QED
    BY <1>6, <1>8, <1>9, <1>13, <2>2 DEF t
<1> QED
  BY <1>12, <1>13

LEMMA FilledRecords ==
  ASSUME NEW l, NEW s, BoardStore(s, l), Vecs(s), DOMAIN s.bg = {}
  PROVE  Vecs(Filled(s)) /\ \A c \in Keys(s) : Record(Filled(s), c) = Record(s, c)
<1> DEFINE t == Filled(s)
<1>1. t.mem = Empty /\ t.bg = s.mem /\ t.files = s.files /\ t.saved = s.saved
  BY DEF BoardStore, Filled
<1>2. Keys(t) = Keys(s)
  BY FilledKeys
<1> HIDE DEF t
<1>3. \A c : In(t.mem, c) = Zero /\ In(s.bg, c) = Zero
  BY <1>1, EmptyDomain, InEmpty
<1>4. Vecs(t)
  BY <1>1, EmptyDomain, InEmpty DEF Vecs
<1>5. ASSUME NEW c \in Keys(s)
      PROVE  Add(In(s.mem, c), Add(In(s.bg, c), In(s.files, c))) =
             Add(In(t.mem, c), Add(In(t.bg, c), In(t.files, c)))
  <2>1. In(s.mem, c) \in Vec /\ In(s.files, c) \in Vec /\ Add(In(s.mem, c), In(s.files, c)) \in Vec
    BY InVec, AddVec DEF Vecs
  <2> QED
    BY <1>1, <1>3, <2>1, AddZero
<1>6. \A c \in Keys(s) : Record(t, c) = Record(s, c)
  BY <1>2, <1>4, <1>5, SameRecords
<1> QED
  BY <1>4, <1>6 DEF t

LEMMA MergedRecords ==
  ASSUME NEW l, NEW s, BoardStore(s, l), Vecs(s)
  PROVE  Vecs(Merged(s)) /\ \A c \in Keys(s) : Record(Merged(s), c) = Record(s, c)
<1> DEFINE t == Merged(s)  m == Merge(s.bg, s.files)
<1>1. t.mem = s.mem /\ t.bg = Empty /\ t.files = m /\ t.saved = s.saved
  BY DEF BoardStore, Merged
<1>2. Keys(t) = Keys(s)
  BY MergedKeys
<1>3. VecRecords(m) /\ \A c : In(m, c) = Add(In(s.bg, c), In(s.files, c))
  BY MergeIs DEF Vecs
<1> HIDE DEF t, m
<1>4. \A c : In(t.bg, c) = Zero
  BY <1>1, EmptyDomain, InEmpty
<1>5. Vecs(t)
  BY <1>1, <1>3, EmptyDomain, InEmpty DEF Vecs
<1>6. ASSUME NEW c \in Keys(s)
      PROVE  Add(In(s.mem, c), Add(In(s.bg, c), In(s.files, c))) =
             Add(In(t.mem, c), Add(In(t.bg, c), In(t.files, c)))
  <2>1. Add(Zero, In(m, c)) = In(m, c)
    BY <1>3, InVec, AddZero
  <2> QED
    BY <1>1, <1>3, <1>4, <2>1
<1>7. \A c \in Keys(s) : Record(t, c) = Record(s, c)
  BY <1>2, <1>5, <1>6, SameRecords
<1> QED
  BY <1>5, <1>7 DEF t

LEMMA FlushedRecords ==
  ASSUME NEW l, NEW s, BoardStore(s, l), Vecs(s), DOMAIN s.bg = {}
  PROVE  /\ Vecs(Flushed(s)) /\ DOMAIN Flushed(s).bg = {}
         /\ \A c \in Keys(s) : Record(Flushed(s), c) = Record(s, c)
<1> DEFINE t == Flushed(s)
<1>1. t.mem = Empty /\ t.bg = s.bg /\ t.files = Contents(s) /\ t.saved = s.saved
  BY DEF BoardStore, Flushed
<1>2. Keys(t) = Keys(s)
  BY FlushedKeys
<1>3. VecRecords(Contents(s))
  BY ContentsIs
<1> HIDE DEF t
<1>4. \A c : In(t.mem, c) = Zero /\ In(t.bg, c) = Zero
  BY <1>1, EmptyDomain, InEmpty
<1>5. Vecs(t)
  BY <1>1, <1>3, EmptyDomain, InEmpty DEF Vecs
<1>6. ASSUME NEW c \in Keys(s) PROVE Record(t, c) = Record(s, c)
  <2>1. In(t.files, c) = Record(s, c) /\ Record(s, c) \in Vec
    BY <1>1, <1>6, ContentsKeys, ContentsIs DEF In, Record
  <2>2. Record(t, c) = Add(Zero, Add(Zero, Record(s, c)))
    BY <1>2, <1>4, <1>5, <2>1, ContentsIs
  <2> QED
    BY <2>1, <2>2, AddZero
<1> QED
  BY <1>1, <1>5, <1>6 DEF t

LEMMA CheckpointedRecords ==
  ASSUME NEW l, NEW s, BoardStore(s, l), Vecs(s), DOMAIN s.bg = {}
  PROVE  /\ Vecs(Checkpointed(s)) /\ DOMAIN Checkpointed(s).bg = {} /\ ~Checkpointed(s).worn
         /\ \A c \in Keys(s) : /\ Record(Checkpointed(s), c) = Record(s, c)
                               /\ Checkpointed(s).saved[c] = Record(s, c)
<1> DEFINE f == Flushed(s)  t == Checkpointed(s)
<1>1. Vecs(f) /\ DOMAIN f.bg = {} /\ \A c \in Keys(s) : Record(f, c) = Record(s, c)
  BY FlushedRecords
<1>2. DOMAIN f = DOMAIN s
  BY DEF Flushed
<1> HIDE DEF f
<1>3. t.mem = f.mem /\ t.bg = f.bg /\ t.files = f.files /\ t.saved = Contents(s) /\ t.worn = FALSE
  BY <1>2 DEF BoardStore, Checkpointed, f
<1> HIDE DEF t
<1>4. VecRecords(Contents(s))
  BY ContentsIs
<1>5. Vecs(t)
  BY <1>1, <1>3, <1>4 DEF Vecs
<1>6. Contents(t) = Contents(f)
  BY <1>3 DEF Contents
<1> QED
  BY <1>1, <1>3, <1>5, <1>6 DEF t, Record

\* A store opened again has the records its manifest names.
LEMMA OpenedRecords ==
  ASSUME NEW l, NEW s, BoardStore(s, l), Vecs(s), DOMAIN s.mem = {}, DOMAIN s.bg = {}
  PROVE  /\ Vecs(OpenedBoards(s))
         /\ ~s.worn => /\ Keys(OpenedBoards(s)) = DOMAIN s.saved
                       /\ \A c \in DOMAIN s.saved : Record(OpenedBoards(s), c) = s.saved[c]
<1> DEFINE t == OpenedBoards(s)
<1>1. t.mem = s.mem /\ t.bg = s.bg /\ t.files = (IF s.worn THEN Empty ELSE s.saved) /\ t.saved = s.saved
  BY DEF BoardStore, OpenedBoards
<1> HIDE DEF t
<1>2. Vecs(t)
  BY <1>1, EmptyDomain, InEmpty DEF Vecs
<1>3. ASSUME ~s.worn
      PROVE  Keys(t) = DOMAIN s.saved /\ \A c \in DOMAIN s.saved : Record(t, c) = s.saved[c]
  <2>1. Keys(t) = DOMAIN s.saved
    BY <1>1, <1>3 DEF Keys
  <2>2. ASSUME NEW c \in DOMAIN s.saved PROVE Record(t, c) = s.saved[c]
    <3>1. In(t.mem, c) = Zero /\ In(t.bg, c) = Zero /\ In(t.files, c) = s.saved[c] /\ s.saved[c] \in Vec
      BY <1>1, <1>3, InEmpty DEF In, Vecs, VecRecords
    <3>2. Record(t, c) = Add(Zero, Add(Zero, s.saved[c]))
      BY <1>2, <2>1, <3>1, ContentsIs
    <3> QED
      BY <3>1, <3>2, AddZero
  <2> QED
    BY <2>1, <2>2
<1> QED
  BY <1>2, <1>3 DEF t

LEMMA ClosedRecords ==
  ASSUME NEW l, NEW s, BoardStore(s, l), Vecs(s)
  PROVE  LET t == ClosedBoards(s)
         IN  /\ Vecs(t) /\ ~t.open /\ DOMAIN t.mem = {} /\ DOMAIN t.bg = {} /\ DOMAIN t.files = {}
             /\ t.saved = s.saved /\ t.worn = s.worn
<1> DEFINE t == ClosedBoards(s)
<1>1. /\ t.mem = Empty /\ t.bg = Empty /\ t.files = Empty /\ t.open = FALSE
      /\ t.saved = s.saved /\ t.worn = s.worn
  BY DEF BoardStore, ClosedBoards
<1> QED
  BY <1>1, EmptyDomain, InEmpty DEF Vecs

LEMMA CreatedRecords ==
  /\ Vecs(NoBoards) /\ Vecs(CreatedBoards) /\ Keys(NoBoards) = {} /\ Keys(CreatedBoards) = {}
  /\ ~NoBoards.open /\ DOMAIN NoBoards.mem = {} /\ DOMAIN NoBoards.bg = {} /\ DOMAIN NoBoards.files = {}
BY EmptyDomain DEF NoBoards, CreatedBoards, Keys, Vecs, VecRecords

-----------------------------------------------------------------------------
\* A store that holds no arena is empty, and every record is three counts.
Shut(s) == ~s.open /\ DOMAIN s.mem = {} /\ DOMAIN s.bg = {} /\ DOMAIN s.files = {}
RecordInv ==
  /\ \A l \in Levels : Vecs(board[l])
  /\ \A l \in Levels : l \notin boardArena => Shut(board[l])

LEMMA SameStores == ASSUME RecordInv, UNCHANGED <<board, boardArena>> PROVE RecordInv'
BY DEF RecordInv, Levels

LEMMA OneStoreRecords ==
  ASSUME SolverInv, RecordInv, NEW k \in Levels, k \in boardArena, NEW t, Vecs(t),
         board' = [board EXCEPT ![k] = t], boardArena' = boardArena
  PROVE  RecordInv'
<1>1. DOMAIN board = Levels
  BY DEF SolverInv, StoresOK
<1>2. \A l \in Levels : board'[l] = IF l = k THEN t ELSE board[l]
  BY <1>1
<1> QED
  BY <1>2 DEF RecordInv, Levels

LEMMA InsertRecords ==
  ASSUME SolverInv, RecordInv, NEW k \in Levels, k \in boardArena, NEW b, NEW delta \in Vec,
         TSInsert(k, b, delta), boardArena' = boardArena
  PROVE  RecordInv'
<1> DEFINE t == Inserted(board[k], b, delta)
<1>1. Vecs(t)
  BY InsertedRecords DEF SolverInv, StoresOK, RecordInv
<1>2. board' = [board EXCEPT ![k] = t]
  BY DEF TSInsert
<1> HIDE DEF t
<1> QED
  BY <1>1, <1>2, OneStoreRecords

LEMMA RecordInit == Init => RecordInv
BY CreatedRecords DEF Init, RecordInv, Shut

LEMMA StartRecords == ASSUME SolverInv, RecordInv, doStartProcess PROVE RecordInv'
<1> DEFINE m == Put(Empty, Root, Zero)  first == [CreatedBoards EXCEPT !.mem = m]
<1>1. DOMAIN m = {Root}
  <2>1. DOMAIN m = DOMAIN Empty \cup {Root}
    BY PutDomain
  <2> QED
    BY <2>1, EmptyDomain
<1>2. VecRecords(m)
  BY <1>1, EmptyDomain, ZeroVec DEF VecRecords, Put
<1>3. /\ first.mem = m /\ first.bg = CreatedBoards.bg /\ first.files = CreatedBoards.files
      /\ first.saved = CreatedBoards.saved
  BY DEF CreatedBoards, NoBoards
<1>4. Vecs(first)
  BY <1>2, <1>3, CreatedRecords DEF Vecs
<1> HIDE DEF first
<1>5. board' = [[l \in Levels |-> NoBoards] EXCEPT ![0] = first] /\ boardArena' = {0}
  BY DEF doStartProcess, first
<1>6. \A l \in Levels : board'[l] = IF l = 0 THEN first ELSE NoBoards
  BY <1>5
<1> QED
  BY <1>4, <1>5, <1>6, CreatedRecords DEF RecordInv, Shut, Levels

LEMMA RestartRecords == ASSUME SolverInv, RecordInv, doRestartProcess PROVE RecordInv'
<1>1. PICK k \in Levels : /\ board' = [board EXCEPT ![k] = OpenedBoards(board[k])]
                          /\ boardArena' = {k} /\ pc = "down"
  BY DEF doRestartProcess
<1>2. boardArena = {} /\ DOMAIN board = Levels /\ BoardStore(board[k], k)
  BY <1>1 DEF SolverInv, ArenasOK, StoresOK
<1>3. Vecs(OpenedBoards(board[k]))
  BY <1>2, OpenedRecords DEF RecordInv, Shut
<1>4. \A l \in Levels : board'[l] = IF l = k THEN OpenedBoards(board[k]) ELSE board[l]
  BY <1>1, <1>2
<1> QED
  BY <1>1, <1>2, <1>3, <1>4 DEF RecordInv, Levels

LEMMA CrashRecords == ASSUME SolverInv, RecordInv, Crash PROVE RecordInv'
<1>1. board' = [l \in Levels |-> ClosedBoards(board[l])] /\ boardArena' = {}
  BY DEF Crash
<1>2. \A l \in Levels : Vecs(ClosedBoards(board[l])) /\ Shut(ClosedBoards(board[l]))
  BY ClosedRecords DEF SolverInv, StoresOK, RecordInv, Shut
<1> QED
  BY <1>1, <1>2 DEF RecordInv, Levels

LEMMA FlushRecords ==
  ASSUME SolverInv, RecordInv, \E l \in Levels : TriggerBgFlush(l) \/ MergeEnds(l) PROVE RecordInv'
<1>1. PICK k \in Levels : TriggerBgFlush(k) \/ MergeEnds(k)
  OBVIOUS
<1>2. k \in boardArena /\ BoardStore(board[k], k) /\ Vecs(board[k]) /\ boardArena' = boardArena
  BY <1>1 DEF SolverInv, StoresOK, RecordInv, Shut, TriggerBgFlush, MergeEnds, stores
<1>3. CASE TriggerBgFlush(k)
  <2>1. Vecs(Filled(board[k]))
    BY <1>2, <1>3, EmptyDomain, FilledRecords DEF TriggerBgFlush, Quiet
  <2> QED
    BY <1>2, <1>3, <2>1, OneStoreRecords DEF TriggerBgFlush
<1>4. CASE MergeEnds(k)
  <2>1. Vecs(Merged(board[k]))
    BY <1>2, MergedRecords
  <2> QED
    BY <1>2, <1>4, <2>1, OneStoreRecords DEF MergeEnds
<1> QED
  BY <1>1, <1>3, <1>4

LEMMA StartLevelRecords == ASSUME SolverInv, RecordInv, StartLevel PROVE RecordInv'
<1>1. /\ board' = [l \in Levels |-> IF l = level THEN Flushed(board[l])
                                    ELSE IF l = level + 1 THEN CreatedBoards ELSE board[l]]
      /\ boardArena' = boardArena \cup ({level + 1} \cap Levels)
  BY LevelStarts
<1>2. level \in Levels /\ Quiet(level) /\ boardArena = {level} /\ BoardStore(board[level], level)
  BY DEF StartLevel, SolverInv, LevelOK, ArenasOK, StoresOK
<1>3. Vecs(Flushed(board[level]))
  BY <1>2, EmptyDomain, FlushedRecords DEF RecordInv, Quiet
<1> QED
  BY <1>1, <1>2, <1>3, CreatedRecords DEF RecordInv, Levels

LEMMA WorkerRecords ==
  ASSUME SolverInv, PlayInv, RecordInv, NEW w \in Workers, WorkerProcessBatch(w) PROVE RecordInv'
<1>1. PICK op \in worker[w].ops :
        /\ \/ op.kind = "terminal" /\ TSInsert(level, op.board, Outcome[op.board])
           \/ op.kind = "board" /\ TSInsert(IF op.edge.pass THEN level ELSE level + 1, op.edge.to, Zero)
           \/ op.kind = "move" /\ UNCHANGED board
        /\ boardArena' = boardArena
  BY DEF WorkerProcessBatch
<1>2. /\ pc = "sweep" /\ level \in Levels /\ JobOp(op, level)
      /\ boardArena = {level, level + 1} \cap Levels
  BY <1>1 DEF SolverInv, JobsOK, LevelOK, ArenasOK, InLevel
<1>3. CASE op.kind = "terminal"
  <2>1. op.board \in Boards /\ Terminal(op.board)
    BY <1>1, <1>2, <1>3 DEF JobOp, OfLevel, PlayInv, BatchesOK
  <2>2. Outcome[op.board] \in Vec
    BY <2>1, WinsAre, WinsVec
  <2> QED
    BY <1>1, <1>2, <1>3, <2>2, InsertRecords
<1>4. CASE op.kind = "board"
  <2> DEFINE to == IF op.edge.pass THEN level ELSE level + 1
  <2>1. to \in Levels
    <3>1. op.edge \in Edges /\ LevelOf[op.edge.from] = level
      BY <1>2, <1>4 DEF JobOp, EdgesOf
    <3> QED
      BY <3>1, Steps
  <2>2. to \in boardArena
    BY <1>2, <2>1
  <2>3. TSInsert(to, op.edge.to, Zero)
    BY <1>1, <1>4
  <2> HIDE DEF to
  <2> QED
    BY <1>1, <2>1, <2>2, <2>3, ZeroVec, InsertRecords
<1>5. CASE op.kind = "move"
  BY <1>1, <1>5, SameStores
<1> QED
  BY <1>1, <1>3, <1>4, <1>5

LEMMA CheckpointRecords == ASSUME SolverInv, RecordInv, CheckpointBoards PROVE RecordInv'
<1>1. /\ level \in Levels /\ level \in boardArena /\ Quiet(level) /\ BoardStore(board[level], level)
      /\ board' = [board EXCEPT ![level] = Checkpointed(board[level])] /\ boardArena' = boardArena
  BY DEF CheckpointBoards, SolverInv, LevelOK, ArenasOK, StoresOK, InLevel
<1>2. Vecs(Checkpointed(board[level]))
  BY <1>1, EmptyDomain, CheckpointedRecords DEF RecordInv, Quiet
<1> QED
  BY <1>1, <1>2, OneStoreRecords

LEMMA EndLevelRecords == ASSUME SolverInv, PlayInv, RecordInv, EndLevel PROVE RecordInv'
<1> DEFINE After(l) == CASE l = level -> ClosedBoards(board[l])
                         [] l = level + 1 -> IF newBoards THEN Checkpointed(board[l])
                                             ELSE ClosedBoards(Checkpointed(board[l]))
                         [] OTHER -> board[l]
<1>1. /\ pc = "next" /\ level \in Levels /\ level \in Nat /\ \A l \in Levels : BoardStore(board[l], l)
      /\ boardArena = {level, level + 1} \cap Levels
      /\ level < maxLevel => Quiet(level + 1)
  BY GameAssumption DEF SolverInv, EndLevel, LevelOK, StoresOK, ArenasOK, InLevel, Levels
<1>2. /\ board' = [l \in Levels |-> After(l)]
      /\ boardArena' = IF newBoards THEN Release(boardArena, level)
                       ELSE Release(Release(boardArena, level), level + 1)
  BY DEF EndLevel
<1>3. Vecs(ClosedBoards(board[level])) /\ Shut(ClosedBoards(board[level]))
  BY <1>1, ClosedRecords DEF RecordInv, Shut
<1>4. ASSUME level + 1 \in Levels
      PROVE  /\ Vecs(Checkpointed(board[level + 1])) /\ Vecs(ClosedBoards(Checkpointed(board[level + 1])))
             /\ Shut(ClosedBoards(Checkpointed(board[level + 1])))
  <2> DEFINE s == board[level + 1]
  <2>1. BoardStore(s, level + 1) /\ Vecs(s) /\ DOMAIN s.bg = {}
    <3>1. level < maxLevel
      BY <1>1, <1>4, GameAssumption DEF Levels
    <3>2. s.bg = Empty
      BY <1>1, <3>1 DEF Quiet
    <3> QED
      BY <1>1, <1>4, <3>2, EmptyDomain DEF RecordInv
  <2> HIDE DEF s
  <2>2. Vecs(Checkpointed(s)) /\ BoardStore(Checkpointed(s), level + 1)
    BY <2>1, CheckpointedRecords, CheckpointedKeeps
  <2>3. Vecs(ClosedBoards(Checkpointed(s))) /\ Shut(ClosedBoards(Checkpointed(s)))
    BY <2>2, ClosedRecords DEF Shut
  <2> QED
    BY <2>2, <2>3 DEF s
<1>5. /\ board'[level] = ClosedBoards(board[level])
      /\ level + 1 \in Levels => board'[level + 1] = IF newBoards THEN Checkpointed(board[level + 1])
                                                     ELSE ClosedBoards(Checkpointed(board[level + 1]))
      /\ \A l \in Levels : l # level /\ l # level + 1 => board'[l] = board[l]
  BY <1>1, <1>2
<1> HIDE DEF After
<1>6. boardArena' = IF newBoards THEN {level + 1} \cap Levels ELSE {}
  BY <1>1, <1>2 DEF Release
<1>7. \A l \in Levels : Vecs(board'[l])
  BY <1>3, <1>4, <1>5 DEF RecordInv
<1>8. \A l \in Levels : l \notin boardArena' => Shut(board'[l])
  BY <1>1, <1>3, <1>4, <1>5, <1>6 DEF RecordInv
<1> QED
  BY <1>7, <1>8 DEF RecordInv, Levels

LEMMA OpenRecords ==
  ASSUME SolverInv, RecordInv, StartBackPropagation PROVE RecordInv'
<1> DEFINE opened == {deepestLevel, deepestLevel + 1} \cap Levels
<1>1. /\ board' = [l \in Levels |-> IF l \in opened THEN OpenedBoards(board[l]) ELSE board[l]]
      /\ boardArena' = opened
  BY WindowOpens
<1>2. boardArena = {} /\ \A l \in Levels : BoardStore(board[l], l)
  BY DEF StartBackPropagation, SolverInv, ArenasOK, StoresOK
<1>3. \A l \in Levels : Vecs(OpenedBoards(board[l]))
  BY <1>2, OpenedRecords DEF RecordInv, Shut
<1> QED
  BY <1>1, <1>2, <1>3 DEF RecordInv, Levels

LEMMA TSFindVec ==
  ASSUME NEW s, Vecs(s), NEW b, FoundIn(s, b) # {}
  PROVE  TSFind(s, b) \in Vec
<1> DEFINE S == FoundIn(s, b)
<1>1. S \subseteq 1..3 /\ S # {}
  BY DEF FoundIn
<1>2. \A i \in S : b \in DOMAIN Tiers(s)[i]
  BY DEF FoundIn
<1> HIDE DEF S
<1>3. \E i \in S : \A j \in S : i <= j
  <2>1. 1 \in S \/ 2 \in S \/ 3 \in S
    <3>1. \A i \in 1..3 : i = 1 \/ i = 2 \/ i = 3
      OBVIOUS
    <3> QED
      BY <1>1, <3>1
  <2>2. CASE 1 \in S
    BY <1>1, <2>2
  <2>3. CASE 1 \notin S /\ 2 \in S
    BY <1>1, <2>3
  <2>4. CASE 1 \notin S /\ 2 \notin S /\ 3 \in S
    BY <1>1, <2>4
  <2> QED
    BY <2>1, <2>2, <2>3, <2>4
<1>4. Min(S) \in S
  BY <1>3 DEF Min
<1>5. \A i \in 1..3 : VecRecords(Tiers(s)[i])
  BY DEF Vecs, Tiers
<1>6. Tiers(s)[Min(S)][b] \in Vec
  BY <1>1, <1>2, <1>4, <1>5 DEF VecRecords
<1> QED
  BY <1>6 DEF TSFind, S

LEMMA CarryRecords == ASSUME SolverInv, RecordInv, CarryBack PROVE RecordInv'
<1> DEFINE from(e) == board[IF e.pass THEN level ELSE level + 1]
<1>1. PICK e \in NextEdge(left) :
        /\ pc = "back" /\ boardArena' = boardArena
        /\ \/ UNCHANGED board
           \/ FoundIn(from(e), e.to) # {} /\ TSInsert(level, e.from, Swapped(e, TSFind(from(e), e.to)))
  BY DEF CarryBack
<1>2. e \in left
  BY DEF NextEdge, First
<1>3. level \in Levels /\ e \in Edges /\ LevelOf[e.from] = level /\ level \in boardArena
  BY <1>1, <1>2 DEF SolverInv, LevelOK, CarryOK, EdgesOf, ArenasOK
<1>4. Vecs(from(e))
  BY <1>3, Steps DEF RecordInv
<1> HIDE DEF from
<1>5. CASE UNCHANGED board
  BY <1>1, <1>5, SameStores
<1>6. CASE FoundIn(from(e), e.to) # {} /\ TSInsert(level, e.from, Swapped(e, TSFind(from(e), e.to)))
  <2>1. Swapped(e, TSFind(from(e), e.to)) \in Vec
    BY <1>4, <1>6, TSFindVec, SwappedVec
  <2> QED
    BY <1>1, <1>3, <1>6, <2>1, InsertRecords
<1> QED
  BY <1>1, <1>5, <1>6

LEMMA SlideRecords == ASSUME SolverInv, RecordInv, BackPropLevelComplete PROVE RecordInv'
<1>1. /\ level \in Levels /\ level \in Nat /\ maxLevel \in Nat /\ Quiet(level)
      /\ \A l \in Levels : BoardStore(board[l], l) /\ l \in Nat
      /\ boardArena = {level, level + 1} \cap Levels
  BY GameAssumption DEF SolverInv, BackPropLevelComplete, LevelOK, StoresOK, ArenasOK, Levels
<1>2. /\ board'[level] = IF level > 0 THEN Checkpointed(board[level])
                         ELSE ClosedBoards(Checkpointed(board[level]))
      /\ level + 1 \in Levels => board'[level + 1] = ClosedBoards(board[level + 1])
      /\ level > 0 => board'[level - 1] = OpenedBoards(board[level - 1])
      /\ \A l \in Levels : l # level /\ l # level + 1 /\ l # level - 1 => board'[l] = board[l]
      /\ level > 0 => boardArena' = {level} \cup {level - 1}
      /\ level = 0 => boardArena' = {}
  <2>1. level > 0 => level - 1 \in Levels
    BY <1>1 DEF Levels
  <2> QED
    BY <1>1, <2>1, WindowSlides
<1>3. Vecs(Checkpointed(board[level])) /\ BoardStore(Checkpointed(board[level]), level)
  BY <1>1, EmptyDomain, CheckpointedRecords, CheckpointedKeeps DEF RecordInv, Quiet
<1>4. Vecs(ClosedBoards(Checkpointed(board[level]))) /\ Shut(ClosedBoards(Checkpointed(board[level])))
  BY <1>3, ClosedRecords DEF Shut
<1>5. \A l \in Levels : Vecs(ClosedBoards(board[l])) /\ Shut(ClosedBoards(board[l]))
  BY <1>1, ClosedRecords DEF RecordInv, Shut
<1>6. level > 0 => level - 1 \in Levels /\ Vecs(OpenedBoards(board[level - 1]))
  <2> SUFFICES ASSUME level > 0 PROVE level - 1 \in Levels /\ Vecs(OpenedBoards(board[level - 1]))
    OBVIOUS
  <2>1. level - 1 \in Levels /\ level - 1 \notin boardArena
    BY <1>1 DEF Levels
  <2> QED
    BY <1>1, <2>1, OpenedRecords DEF RecordInv, Shut
<1>7. \A l \in Levels : Vecs(board'[l])
  BY <1>1, <1>2, <1>3, <1>4, <1>5, <1>6 DEF RecordInv
<1>8. \A l \in Levels : l \notin boardArena' => Shut(board'[l])
  BY <1>1, <1>2, <1>4, <1>5 DEF RecordInv
<1> QED
  BY <1>7, <1>8 DEF RecordInv, Levels

LEMMA RecordStep == ASSUME SolverInv, PlayInv, RecordInv, [Next]_vars PROVE RecordInv'
<1>1. CASE doStartProcess \/ doRestartProcess \/ Crash
  BY <1>1, StartRecords, RestartRecords, CrashRecords
<1>2. CASE StartLevel \/ CheckpointBoards \/ EndLevel
  BY <1>2, StartLevelRecords, CheckpointRecords, EndLevelRecords
<1>3. CASE StartBackPropagation \/ CarryBack \/ BackPropLevelComplete
  BY <1>3, OpenRecords, CarryRecords, SlideRecords
<1>4. CASE \E w \in Workers : WorkerProcessBatch(w)
  BY <1>4, WorkerRecords
<1>5. CASE \E l \in Levels : TriggerBgFlush(l) \/ MergeEnds(l)
  BY <1>5, FlushRecords
<1>6. CASE \/ AlreadyComplete \/ Drain \/ CheckpointMoves \/ WriteBackpropSentinel \/ Report
           \/ \E w \in Workers : Dispatch(w) \/ Counted(w) \/ ReturnContext(w)
           \/ UNCHANGED vars
  <2>1. UNCHANGED <<board, boardArena>>
    BY <1>6 DEF AlreadyComplete, Drain, CheckpointMoves, WriteBackpropSentinel, Report, Dispatch,
                Counted, ReturnContext, vars, stores
  <2> QED
    BY <2>1, SameStores
<1> QED
  BY <1>1, <1>2, <1>3, <1>4, <1>5, <1>6 DEF Next, Main, Job, Pool

-----------------------------------------------------------------------------
\* The wins of a board without moves are inserted once: it is read once, no pass
\* leads to it, and it is in one job at most.
Ends(op, b) == op.kind = "terminal" /\ op.board = b
InJob(b) == \E w \in Workers : \E op \in worker[w].ops : Ends(op, b)
Once(b) ==
  /\ ~InSeq(b, passQueue)
  /\ \A i, j \in DOMAIN toRead : toRead[i] = b /\ toRead[j] = b => i = j
  /\ InSeq(b, toRead) => ~InJob(b)
  /\ \A w, x \in Workers : \A p \in worker[w].ops, q \in worker[x].ops : Ends(p, b) /\ Ends(q, b) => w = x /\ p = q
OnceInv == pc = "sweep" => \A b \in Boards : Terminal(b) => Once(b)

LEMMA OnceSame ==
  ASSUME OnceInv, pc' = "sweep" => /\ pc = "sweep" /\ UNCHANGED <<toRead, passQueue>>
                                   /\ \A w \in Workers : worker'[w].ops = worker[w].ops
  PROVE  OnceInv'
BY DEF OnceInv, Once, InSeq, InJob, Ends, Terminal, Out

LEMMA OnceStartLevel == ASSUME SolverInv, StartLevel PROVE OnceInv'
<1> DEFINE held == DOMAIN Contents(board[level])
<1>1. /\ pc = "level" /\ passQueue' = << >> /\ worker' = worker /\ toRead' \in Ascending(held)
  BY LevelStarts DEF StartLevel, SolverInv, ReadOK
<1>2. \A w \in Workers : worker'[w].ops = {}
  BY <1>1 DEF SolverInv, JobsOK
<1>3. held \subseteq Nat /\ IsFiniteSet(held)
  <2>1. held \subseteq OfLevel(level)
    BY ContentsDomain DEF SolverInv, LevelOK, StoresOK
  <2>2. Boards \subseteq Nat /\ IsFiniteSet(Boards)
    BY GameAssumption
  <2>3. held \subseteq Boards
    BY <2>1 DEF OfLevel
  <2> QED
    BY <2>2, <2>3, FS_Subset
<1> HIDE DEF held
<1>4. \A i, j \in DOMAIN toRead' : toRead'[i] = toRead'[j] => i = j
  <2>1. Cardinality(held) \in Nat
    BY <1>3, FS_CardinalityType
  <2>2. /\ toRead' \in [1..Cardinality(held) -> held]
        /\ \A i, j \in DOMAIN toRead' : i < j => toRead'[i] < toRead'[j]
    BY <1>1 DEF Ascending
  <2>3. \A i \in DOMAIN toRead' : i \in Nat /\ toRead'[i] \in Nat
    <3> DEFINE n == Cardinality(held)
    <3>1. n \in Nat /\ toRead' \in [1..n -> held]
      BY <2>1, <2>2
    <3> HIDE DEF n
    <3>2. DOMAIN toRead' = 1..n /\ \A i \in 1..n : toRead'[i] \in held /\ i \in Nat
      BY <3>1
    <3> QED
      BY <1>3, <3>2
  <2> QED
    <3> SUFFICES ASSUME NEW i \in DOMAIN toRead', NEW j \in DOMAIN toRead', toRead'[i] = toRead'[j] PROVE i = j
      OBVIOUS
    <3>1. i \in Nat /\ j \in Nat /\ toRead'[i] \in Nat
      BY <2>3
    <3>2. ~(i < j) /\ ~(j < i)
      BY <2>2, <3>1
    <3> QED
      BY <3>1, <3>2
<1> QED
  BY <1>1, <1>2, <1>4 DEF OnceInv, Once, InSeq, InJob

\* A job inserts the wins of the boards of its batch, those without moves.
LEMMA BatchEnds ==
  ASSUME NEW batch, NEW op \in Inserts(batch), NEW b, Ends(op, b)
  PROVE  \E n \in DOMAIN batch : batch[n] = b /\ op = [kind |-> "terminal", n |-> n, board |-> b]
<1>1. CASE op \in Terminals(batch)
  BY <1>1 DEF Terminals, Ends
<1>2. CASE \E n \in DOMAIN batch : op \in EdgeOps(batch, n)
  BY <1>2 DEF EdgeOps, Ends
<1> QED
  BY <1>1, <1>2 DEF Inserts

LEMMA BatchHasEnds ==
  ASSUME NEW batch, NEW n \in DOMAIN batch, Terminal(batch[n])
  PROVE  \E op \in Inserts(batch) : Ends(op, batch[n])
<1> DEFINE op == [kind |-> "terminal", n |-> n, board |-> batch[n]]
<1>1. op \in Terminals(batch)
  BY DEF Terminals
<1> QED
  BY <1>1 DEF Inserts, Ends

\* What a dispatch does to the boards to be read.
LEMMA Dispatched ==
  ASSUME SolverInv, PlayInv, NEW w \in Workers, Dispatch(w)
  PROVE  \E got, batch :
           /\ got \in Nat /\ got \in 0..Len(toRead) /\ toRead \in Seq(OfLevel(level)) /\ Len(toRead) \in Nat
           /\ DOMAIN batch = 1..got /\ \A n \in 1..got : batch[n] = toRead[n]
           /\ DOMAIN toRead' = 1..(Len(toRead) - got)
           /\ \A n \in 1..(Len(toRead) - got) : toRead'[n] = toRead[got + n]
           /\ worker[w].ops = {} /\ worker'[w].ops = Inserts(batch)
           /\ \A v \in Workers : v # w => worker'[v] = worker[v]
           /\ pc = "sweep" /\ UNCHANGED <<board, moves, boardArena, pc, level, passQueue, left, result, redone, split, lost>>
<1> DEFINE got == IF Len(toRead) < batchSize THEN Len(toRead) ELSE batchSize
           batch == SubSeq(toRead, 1, got)
           ops == Inserts(batch)
<1>1. /\ pc = "sweep" /\ toRead \in Seq(OfLevel(level)) /\ ~worker[w].ctx
      /\ worker' = [worker EXCEPT ![w] = [ctx |-> TRUE, counted |-> TRUE, ops |-> ops]]
      /\ toRead' = SubSeq(toRead, got + 1, Len(toRead))
      /\ UNCHANGED <<board, moves, boardArena, pc, level, passQueue, left, result, redone, split, lost>>
  BY DEF SolverInv, Dispatch, ReadOK, stores, history
<1>2. Len(toRead) \in Nat /\ got \in 0..Len(toRead) /\ got \in Nat
  BY <1>1, SolverAssumption
<1>3. worker[w].ops = {} /\ DOMAIN worker = Workers
  BY <1>1 DEF SolverInv, JobsOK, PlayInv, BatchesOK
<1> HIDE DEF got
<1>4. DOMAIN batch = 1..got /\ \A n \in 1..got : batch[n] = toRead[n]
  BY <1>1, <1>2
<1>5. /\ DOMAIN toRead' = 1..(Len(toRead) - got)
      /\ \A n \in 1..(Len(toRead) - got) : toRead'[n] = toRead[got + n]
  BY <1>1, <1>2
<1> HIDE DEF ops
<1>6. worker'[w].ops = ops /\ \A v \in Workers : v # w => worker'[v] = worker[v]
  BY <1>1, <1>3
<1>7. worker'[w].ops = Inserts(batch)
  BY <1>6 DEF ops
<1> HIDE DEF batch
<1>8. worker[w].ops = {} /\ worker'[w].ops = Inserts(batch) /\ \A v \in Workers : v # w => worker'[v] = worker[v]
  BY <1>3, <1>6, <1>7
<1> WITNESS got, batch
<1> QED
  BY <1>1, <1>2, <1>4, <1>5, <1>8

LEMMA OnceDispatch ==
  ASSUME SolverInv, PlayInv, OnceInv, NEW w \in Workers, Dispatch(w)
  PROVE  OnceInv' /\ \A b \in Boards : Terminal(b) => (InSeq(b, toRead') \/ InJob(b)' <=> InSeq(b, toRead) \/ InJob(b))
<1>1. PICK got, batch :
        /\ got \in Nat /\ got \in 0..Len(toRead) /\ toRead \in Seq(OfLevel(level)) /\ Len(toRead) \in Nat
        /\ DOMAIN batch = 1..got /\ \A n \in 1..got : batch[n] = toRead[n]
        /\ DOMAIN toRead' = 1..(Len(toRead) - got)
        /\ \A n \in 1..(Len(toRead) - got) : toRead'[n] = toRead[got + n]
        /\ worker[w].ops = {} /\ worker'[w].ops = Inserts(batch)
        /\ \A v \in Workers : v # w => worker'[v] = worker[v]
        /\ pc = "sweep" /\ UNCHANGED <<board, moves, boardArena, pc, level, passQueue, left, result, redone, split, lost>>
  BY Dispatched
<1> DEFINE ops == Inserts(batch)
<1>2. DOMAIN toRead = 1..Len(toRead)
  BY <1>1
<1>3. \A op \in ops : \A b : Ends(op, b) =>
        \E n \in 1..got : toRead[n] = b /\ op = [kind |-> "terminal", n |-> n, board |-> b]
  BY <1>1, BatchEnds
<1>4. \A n \in 1..got : Terminal(toRead[n]) => \E op \in ops : Ends(op, toRead[n])
  BY <1>1, BatchHasEnds
<1>5. worker'[w].ops = ops /\ worker[w].ops = {} /\ \A v \in Workers : v # w => worker'[v] = worker[v]
  BY <1>1
<1> HIDE DEF ops
<1>6. /\ \A n \in 1..got : n \in 1..Len(toRead)
      /\ \A n \in 1..(Len(toRead) - got) : got + n \in 1..Len(toRead) /\ got + n \notin 1..got
      /\ \A n \in 1..Len(toRead) : n \in 1..got \/ (n - got \in 1..(Len(toRead) - got) /\ got + (n - got) = n)
  BY <1>1
<1>7. ASSUME NEW b \in Boards, Terminal(b)
      PROVE  Once(b)' /\ (InSeq(b, toRead') \/ InJob(b)' <=> InSeq(b, toRead) \/ InJob(b))
  <2>1. Once(b)
    BY <1>1, <1>7 DEF OnceInv
  <2>2. InSeq(b, toRead') => InSeq(b, toRead)
    <3> SUFFICES ASSUME NEW n \in 1..(Len(toRead) - got), toRead'[n] = b PROVE InSeq(b, toRead)
      BY <1>1 DEF InSeq
    <3>1. got + n \in DOMAIN toRead /\ toRead[got + n] = b
      BY <1>1, <1>2, <1>6
    <3> QED
      BY <3>1 DEF InSeq
  <2>3. InJob(b)' <=> InJob(b) \/ \E op \in ops : Ends(op, b)
    <3>1. InJob(b)' => InJob(b) \/ \E op \in ops : Ends(op, b)
      BY <1>5 DEF InJob, Ends
    <3>2. InJob(b) => InJob(b)'
      BY <1>5 DEF InJob, Ends
    <3>3. ASSUME NEW op \in ops, Ends(op, b) PROVE InJob(b)'
      BY <1>5, <3>3 DEF InJob, Ends
    <3> QED
      BY <3>1, <3>2, <3>3
  <2>4. (\E op \in ops : Ends(op, b)) => InSeq(b, toRead) /\ ~InSeq(b, toRead')
    <3> SUFFICES ASSUME NEW op \in ops, Ends(op, b) PROVE InSeq(b, toRead) /\ ~InSeq(b, toRead')
      OBVIOUS
    <3>1. PICK n \in 1..got : toRead[n] = b
      BY <1>3
    <3>2. \A k \in 1..(Len(toRead) - got) : toRead'[k] # b
      <4> SUFFICES ASSUME NEW k \in 1..(Len(toRead) - got), toRead'[k] = b PROVE FALSE
        OBVIOUS
      <4>1. toRead[got + k] = b /\ got + k \in DOMAIN toRead /\ n \in DOMAIN toRead
        BY <1>1, <1>2, <1>6
      <4>2. got + k = n
        BY <2>1, <3>1, <4>1 DEF Once
      <4> QED
        BY <1>6, <4>2
    <3> QED
      BY <1>1, <1>2, <1>6, <3>1, <3>2 DEF InSeq
  <2>5. InSeq(b, toRead) => InSeq(b, toRead') \/ \E op \in ops : Ends(op, b)
    <3> SUFFICES ASSUME NEW n \in 1..Len(toRead), toRead[n] = b
                 PROVE  InSeq(b, toRead') \/ \E op \in ops : Ends(op, b)
      BY <1>2 DEF InSeq
    <3>1. CASE n \in 1..got
      BY <1>4, <1>7, <3>1
    <3>2. CASE n - got \in 1..(Len(toRead) - got) /\ got + (n - got) = n
      BY <1>1, <3>2 DEF InSeq
    <3> QED
      BY <1>6, <3>1, <3>2
  <2>6. \A i, j \in DOMAIN toRead' : toRead'[i] = b /\ toRead'[j] = b => i = j
    <3> SUFFICES ASSUME NEW i \in 1..(Len(toRead) - got), NEW j \in 1..(Len(toRead) - got), toRead'[i] = b, toRead'[j] = b
                 PROVE  i = j
      BY <1>1
    <3>1. got + i \in DOMAIN toRead /\ got + j \in DOMAIN toRead /\ toRead[got + i] = b /\ toRead[got + j] = b
      BY <1>1, <1>2, <1>6
    <3>2. got + i = got + j
      BY <2>1, <3>1 DEF Once
    <3> QED
      BY <1>1, <3>2
  <2>7. InSeq(b, toRead') => ~InJob(b)'
    BY <2>1, <2>2, <2>3, <2>4 DEF Once
  <2>8. ASSUME NEW v \in Workers, NEW x \in Workers, NEW p \in worker'[v].ops, NEW q \in worker'[x].ops,
               Ends(p, b), Ends(q, b)
        PROVE  v = x /\ p = q
    <3>1. CASE v = w /\ x = w
      <4>1. PICK m \in 1..got : toRead[m] = b /\ p = [kind |-> "terminal", n |-> m, board |-> b]
        BY <1>3, <1>5, <2>8, <3>1
      <4>2. PICK n \in 1..got : toRead[n] = b /\ q = [kind |-> "terminal", n |-> n, board |-> b]
        BY <1>3, <1>5, <2>8, <3>1
      <4>3. m = n
        BY <1>2, <1>6, <2>1, <4>1, <4>2 DEF Once
      <4> QED
        BY <3>1, <4>1, <4>2, <4>3
    <3>2. CASE v # w /\ x # w
      BY <1>5, <2>1, <2>8, <3>2 DEF Once
    <3>3. CASE (v = w /\ x # w) \/ (v # w /\ x = w)
      <4>1. (\E op \in ops : Ends(op, b)) /\ InJob(b)
        BY <1>5, <2>8, <3>3 DEF InJob
      <4> QED
        BY <2>1, <2>4, <4>1 DEF Once
    <3> QED
      BY <3>1, <3>2, <3>3
  <2>9. ~InSeq(b, passQueue')
    BY <1>1, <2>1 DEF Once
  <2>10. Once(b)'
    BY <2>6, <2>7, <2>8, <2>9 DEF Once, InSeq, Ends
  <2> QED
    BY <2>2, <2>3, <2>4, <2>5, <2>10
<1> QED
  BY <1>7 DEF OnceInv, Terminal, Out

LEMMA OnceDrain == ASSUME SolverInv, OnceInv, Drain PROVE OnceInv'
<1>1. pc = "sweep" /\ toRead' = passQueue /\ passQueue' = << >> /\ worker' = worker
  BY DEF Drain, Passes, Emptied
<1>2. \A w \in Workers : worker[w].ops = {}
  BY DEF Drain, NoneActive, SolverInv, JobsOK
<1>3. \A b \in Boards : Terminal(b) => ~InSeq(b, passQueue)
  BY <1>1 DEF OnceInv, Once
<1> QED
  BY <1>1, <1>2, <1>3 DEF OnceInv, Once, InSeq, InJob, Terminal, Out

\* What a pass leads to is no end of the game.
LEMMA PassGoesOn ==
  ASSUME NEW e \in Edges, e.pass
  PROVE  ~Terminal(e.to) /\ \A d \in Out(e.to) : ~d.pass
BY OutcomeAssumption DEF Terminal, Out

LEMMA OnceWorker ==
  ASSUME SolverInv, OnceInv, NEW w \in Workers, NEW op \in worker[w].ops,
         worker' = [worker EXCEPT ![w].ops = worker[w].ops \ {op}], UNCHANGED <<pc, toRead>>,
         \/ passQueue' = passQueue
         \/ \E e \in Edges : e.pass /\ passQueue' = Append(passQueue, e.to)
  PROVE  /\ OnceInv'
         /\ pc = "sweep" => \A b \in Boards : Terminal(b) =>
              (InSeq(b, toRead') \/ InJob(b)' <=> (InSeq(b, toRead) \/ InJob(b)) /\ ~Ends(op, b))
<1>1. DOMAIN worker = Workers /\ \A v \in Workers : DOMAIN worker[v] = {"ctx", "counted", "ops"}
  BY DEF SolverInv, JobsOK
<1>2. worker'[w].ops = worker[w].ops \ {op} /\ \A v \in Workers : v # w => worker'[v].ops = worker[v].ops
  BY <1>1
<1>3. ASSUME NEW b \in Boards, Terminal(b), pc = "sweep"
      PROVE  Once(b)' /\ (InSeq(b, toRead') \/ InJob(b)' <=> (InSeq(b, toRead) \/ InJob(b)) /\ ~Ends(op, b))
  <2>1. Once(b)
    BY <1>3 DEF OnceInv
  <2>2. ~InSeq(b, passQueue')
    <3>1. CASE passQueue' = passQueue
      BY <2>1, <3>1 DEF Once
    <3>2. CASE \E e \in Edges : e.pass /\ passQueue' = Append(passQueue, e.to)
      <4>1. PICK e \in Edges : e.pass /\ passQueue' = Append(passQueue, e.to)
        BY <3>2
      <4>2. b # e.to
        BY <1>3, <4>1, PassGoesOn
      <4>3. passQueue \in Seq(OfLevel(level))
        BY <1>3 DEF SolverInv, ReadOK
      <4>4. \A i \in DOMAIN passQueue : passQueue[i] # b
        BY <2>1 DEF Once, InSeq
      <4> QED
        BY <4>1, <4>2, <4>3, <4>4 DEF InSeq
    <3> QED
      BY <3>1, <3>2
  <2>3. InJob(b)' => InJob(b) /\ ~Ends(op, b)
    <3> SUFFICES ASSUME NEW v \in Workers, NEW p \in worker'[v].ops, Ends(p, b) PROVE InJob(b) /\ ~Ends(op, b)
      BY DEF InJob, Ends
    <3>1. p \in worker[v].ops /\ (v = w => p # op)
      BY <1>2
    <3> QED
      BY <2>1, <3>1 DEF InJob, Once
  <2>4. InJob(b) /\ ~Ends(op, b) => InJob(b)'
    <3> SUFFICES ASSUME NEW v \in Workers, NEW p \in worker[v].ops, Ends(p, b), ~Ends(op, b) PROVE InJob(b)'
      BY DEF InJob
    <3>1. p \in worker'[v].ops
      BY <1>2
    <3> QED
      BY <3>1 DEF InJob, Ends
  <2>5. Ends(op, b) => InJob(b) /\ ~InSeq(b, toRead)
    BY <2>1 DEF InJob, Once
  <2>6. \A v \in Workers : worker'[v].ops \subseteq worker[v].ops
    BY <1>2
  <2>7. Once(b)'
    BY <2>1, <2>2, <2>3, <2>6 DEF Once, InSeq, Ends
  <2>8. InSeq(b, toRead') <=> InSeq(b, toRead)
    BY DEF InSeq
  <2> QED
    BY <2>3, <2>4, <2>5, <2>7, <2>8
<1> QED
  BY <1>3 DEF OnceInv, Terminal, Out

-----------------------------------------------------------------------------
\* What the records count so far: a board without moves its own end, another the
\* moves whose wins were carried back.  A run that was resumed may have counted
\* some twice, but has left none out.
Start(b) == IF Terminal(b) THEN Outcome[b] ELSE Zero
AtLeast(v, w) == \A i \in 1..3 : v[i] >= w[i]
Counts(again, v, w) == AtLeast(v, w) /\ (~again => v = w)
Due(b) == InSeq(b, toRead) \/ InJob(b)
Want(b) ==
  CASE pc = "level" -> Zero
    [] pc = "sweep" -> IF Due(b) THEN Zero ELSE Start(b)
    [] pc = "back" -> Add(Start(b), Sum(Wins, Out(b) \ left))
    [] OTHER -> Start(b)
Below(b) == IF pc = "back" THEN Wins[b] ELSE Zero
LevelCounts ==
  /\ pc \in {"level", "back"} \cup InLevel =>
       \A b \in Keys(board[level]) : Counts(redone, Record(board[level], b), Want(b))
  /\ pc \in {"back"} \cup InLevel /\ level < maxLevel =>
       \A b \in Keys(board[level + 1]) : Counts(redone, Record(board[level + 1], b), Below(b))

\* What the manifests name: the levels not yet completed have what they began with.
Unturned(l) == ~redone /\ (pc \in {"level", "open"} \cup InLevel \/ (pc = "back" /\ l <= level))
SavedCounts ==
  /\ \A l \in Levels : moves[l].named => \A b \in OfLevel(l) :
       /\ AtLeast(board[l].saved[b], Start(b))
       /\ Unturned(l) => board[l].saved[b] = Start(b)
  /\ pc = "moves" => \A b \in OfLevel(level) : Counts(redone, board[level].saved[b], Start(b))
RootCounts ==
  pc \in {"sentinel", "report"} =>
    /\ Root \in DOMAIN board[0].saved /\ ~board[0].worn
    /\ Counts(redone, board[0].saved[Root], Wins[Root])

Counting == LevelCounts /\ SavedCounts /\ RootCounts
CountInv == ~lost /\ ~split => Counting
ResultInv == result # None => pc = "done" /\ (~lost /\ ~split => Counts(redone, result, Wins[Root]))
-----------------------------------------------------------------------------
LEMMA CountsSelf ==
  ASSUME NEW again, NEW v \in Vec PROVE Counts(again, v, v) /\ AtLeast(v, v) /\ AtLeast(v, Zero)
BY ZeroVec DEF Counts, AtLeast, Vec

LEMMA AddCounts ==
  ASSUME NEW again, NEW u \in Vec, NEW v \in Vec, NEW w \in Vec, NEW x \in Vec,
         Counts(again, u, v), Counts(again, w, x)
  PROVE  Counts(again, Add(u, w), Add(v, x))
<1>1. \A i \in 1..3 : /\ Add(u, w)[i] = u[i] + w[i] /\ Add(v, x)[i] = v[i] + x[i]
                      /\ u[i] \in Nat /\ v[i] \in Nat /\ w[i] \in Nat /\ x[i] \in Nat
                      /\ u[i] >= v[i] /\ w[i] >= x[i]
  BY DEF Add, Vec, Counts, AtLeast
<1>2. AtLeast(Add(u, w), Add(v, x))
  <2> SUFFICES ASSUME NEW i \in 1..3 PROVE Add(u, w)[i] >= Add(v, x)[i]
    BY DEF AtLeast
  <2> QED
    BY <1>1
<1>3. ~again => u = v /\ w = x
  BY DEF Counts
<1> QED
  BY <1>2, <1>3 DEF Counts

LEMMA SwappedCounts ==
  ASSUME NEW again, NEW v \in Vec, NEW w \in Vec, Counts(again, v, w), NEW e
  PROVE  Counts(again, Swapped(e, v), Swapped(e, w))
<1>1. v[1] >= w[1] /\ v[2] >= w[2] /\ v[3] >= w[3] /\ (~again => v = w)
  BY DEF Counts, AtLeast
<1> DEFINE x == <<v[2], v[1], v[3]>>  y == <<w[2], w[1], w[3]>>
<1>2. AtLeast(x, y)
  BY <1>1 DEF AtLeast
<1>3. ~again => x = y
  BY <1>1
<1>4. Counts(again, x, y)
  BY <1>2, <1>3 DEF Counts
<1> HIDE DEF x, y
<1>5. Swapped(e, v) = (IF e.flip THEN x ELSE v) /\ Swapped(e, w) = (IF e.flip THEN y ELSE w)
  BY DEF Swapped, x, y
<1> QED
  BY <1>4, <1>5

LEMMA StartVec == ASSUME NEW b \in Boards PROVE Start(b) \in Vec
BY WinsAre, WinsVec, ZeroVec DEF Start

LEMMA SumOf ==
  ASSUME NEW S \in SUBSET Edges
  PROVE  /\ Sum(Wins, S) \in Vec /\ Sum(Wins, {}) = Zero
         /\ \A e \in S : Brought(Wins, e) \in Vec /\ Sum(Wins, S) = Add(Sum(Wins, S \ {e}), Brought(Wins, e))
<1>1. IsFiniteSet(S)
  BY FS_Subset, OutcomeAssumption
<1>2. \A e \in S : Brought(Wins, e) \in Vec
  BY Steps, WinsVec, SwappedVec DEF Brought
<1>3. Sum(Wins, {}) = Zero
  BY <1>1, SumSteps
<1> QED
  BY <1>1, <1>2, <1>3, SumVec, SumTakes

\* The wins of a board are its own end and what its moves bring.
LEMMA WinsFrom == ASSUME NEW b \in Boards PROVE Wins[b] = Add(Start(b), Sum(Wins, Out(b)))
<1>1. Out(b) \in SUBSET Edges
  BY DEF Out
<1>2. CASE Terminal(b)
  <2>1. Sum(Wins, Out(b)) = Zero /\ Wins[b] = Outcome[b] /\ Outcome[b] \in Vec
    BY <1>1, <1>2, SumOf, WinsAre, WinsVec DEF Terminal
  <2> QED
    BY <1>2, <2>1, AddZero DEF Start
<1>3. CASE ~Terminal(b)
  BY <1>1, <1>3, SumOf, WinsAre, AddZero DEF Start
<1> QED
  BY <1>2, <1>3

LEMMA WinsAtLeast == ASSUME NEW b \in Boards PROVE AtLeast(Wins[b], Start(b))
<1>1. Wins[b] \in Vec
  BY WinsVec
<1> QED
  BY <1>1, CountsSelf, WinsAre DEF Start

LEMMA AtLeastAll ==
  ASSUME NEW u \in Vec, NEW v \in Vec, NEW w \in Vec, AtLeast(u, v), AtLeast(v, w) PROVE AtLeast(u, w)
BY DEF AtLeast, Vec
-----------------------------------------------------------------------------
LEMMA SavedCountsStay ==
  ASSUME SavedCounts, pc' # "moves",
         \A l \in Levels : moves'[l].named => /\ moves[l].named /\ board'[l].saved = board[l].saved
                                              /\ Unturned(l)' => Unturned(l)
  PROVE  SavedCounts'
BY DEF SavedCounts, Start, Terminal, Out, OfLevel, Levels

\* The steps that keep what the records count.
LEMMA SameCounting ==
  ASSUME SolverInv, PlayInv, Counting, UNCHANGED <<pc, level, left, redone>>,
         pc = "sweep" => \A b \in Boards : Terminal(b) => (Due(b)' <=> Due(b)),
         pc \in {"sentinel", "report"} => board' = board,
         \A l \in Levels : /\ moves'[l].named = moves[l].named /\ board'[l].saved = board[l].saved
                           /\ Keys(board'[l]) = Keys(board[l])
                           /\ \A b \in Keys(board[l]) : Record(board'[l], b) = Record(board[l], b)
  PROVE  Counting'
<1>1. level \in Levels /\ level \in Nat /\ maxLevel \in Nat
  BY GameAssumption DEF SolverInv, LevelOK, Levels
<1>2. level < maxLevel => level + 1 \in Levels
  BY <1>1 DEF Levels
<1>3. \A b \in Keys(board[level]) : b \in Boards
  BY <1>1, KeysOfLevel DEF SolverInv, StoresOK, OfLevel
<1>4. \A b \in Boards : Want(b)' = Want(b)
  BY DEF Want, Start, Terminal, Out
<1>5. \A b : Below(b)' = Below(b)
  BY DEF Below
<1>6. LevelCounts'
  BY <1>1, <1>2, <1>3, <1>4, <1>5 DEF Counting, LevelCounts, InLevel
<1>7. \A l : Unturned(l)' <=> Unturned(l)
  BY DEF Unturned, InLevel
<1>8. SavedCounts'
  BY <1>1, <1>7 DEF Counting, SavedCounts, Start, Terminal, Out, OfLevel, Levels
<1>9. RootCounts'
  BY DEF Counting, RootCounts, Root
<1> QED
  BY <1>6, <1>8, <1>9 DEF Counting

-----------------------------------------------------------------------------
\* A run begins, anew or again, or dies.
LEMMA StartCounts == ASSUME SolverInv, RecordInv, doStartProcess PROVE Counting'
<1> DEFINE m == Put(Empty, Root, Zero)  first == [CreatedBoards EXCEPT !.mem = m]
<1>1. DOMAIN m = {Root} /\ m[Root] = Zero
  <2>1. DOMAIN m = DOMAIN Empty \cup {Root}
    BY PutDomain
  <2> QED
    BY <2>1, EmptyDomain DEF Put
<1>2. /\ first.mem = m /\ DOMAIN first.bg = {} /\ DOMAIN first.files = {}
  BY EmptyDomain DEF CreatedBoards, NoBoards
<1> HIDE DEF m
<1> HIDE DEF first
<1>3. /\ board'[0] = first /\ 0 \in Levels /\ level' = 0 /\ pc' = "level"
      /\ moves' = [l \in Levels |-> NoMoves]
  BY FirstBoard DEF doStartProcess, first, m
<1>4. Vecs(first)
  BY <1>3, StartRecords DEF RecordInv
<1>5. Keys(first) = {Root}
  BY <1>1, <1>2 DEF Keys
<1>6. Record(first, Root) = Zero
  <2>1. In(first.mem, Root) = Zero /\ In(first.bg, Root) = Zero /\ In(first.files, Root) = Zero
    BY <1>1, <1>2 DEF In
  <2>2. Record(first, Root) = Add(Zero, Add(Zero, Zero))
    BY <1>4, <1>5, <2>1, ContentsIs
  <2> QED
    BY <2>2, ZeroVec, AddZero
<1>7. \A again : Counts(again, Zero, Zero)
  BY ZeroVec, CountsSelf
<1>8. LevelCounts'
  BY <1>3, <1>5, <1>6, <1>7 DEF LevelCounts, Want, InLevel, doStartProcess
<1>9. SavedCounts' /\ RootCounts'
  BY <1>3, CreatedKeys DEF SavedCounts, RootCounts
<1> QED
  BY <1>8, <1>9 DEF Counting

LEMMA RestartCounts ==
  ASSUME SolverInv, PlayInv, RecordInv, Counting, doRestartProcess PROVE Counting'
<1>1. PICK k \in Levels : /\ board' = [board EXCEPT ![k] = OpenedBoards(board[k])]
                          /\ pc' = "level" /\ level' = k /\ redone' = TRUE /\ moves' = moves
  BY DEF doRestartProcess
<1>2. DOMAIN board = Levels /\ \A l \in Levels : BoardStore(board[l], l)
  BY DEF SolverInv, StoresOK
<1>3. \A l \in Levels : board'[l].saved = board[l].saved
  <2>1. \A l \in Levels : board'[l] = IF l = k THEN OpenedBoards(board[l]) ELSE board[l]
    BY <1>1, <1>2
  <2> QED
    BY <1>2, <2>1, OpenedKeys
<1>4. \A b \in Keys(board'[k]) : Record(board'[k], b) \in Vec
  BY RestartRecords, ContentsIs DEF RecordInv
<1>5. LevelCounts'
  BY <1>1, <1>4, CountsSelf DEF LevelCounts, Want, InLevel, Counts
<1>6. SavedCounts'
  BY <1>1, <1>3, SavedCountsStay DEF Counting, Unturned
<1> QED
  BY <1>1, <1>5, <1>6 DEF Counting, RootCounts

LEMMA CrashCounts == ASSUME SolverInv, Counting, Crash PROVE Counting'
<1>1. /\ board' = [l \in Levels |-> ClosedBoards(board[l])]
      /\ moves' = [l \in Levels |-> ClosedMoves(moves[l])] /\ pc' = "down"
  BY DEF Crash
<1>2. \A l \in Levels : board'[l].saved = board[l].saved /\ moves'[l].named = moves[l].named
  BY <1>1, ClosedKeys, NamesOfMoves DEF SolverInv, StoresOK
<1>3. SavedCounts'
  BY <1>1, <1>2, SavedCountsStay DEF Counting, Unturned, InLevel
<1> QED
  BY <1>1, <1>3 DEF Counting, LevelCounts, RootCounts, InLevel

LEMMA MergeCounts ==
  ASSUME SolverInv, PlayInv, RecordInv, Counting, NEW k \in Levels, TriggerBgFlush(k) \/ MergeEnds(k)
  PROVE  Counting'
<1> DEFINE t == IF TriggerBgFlush(k) THEN Filled(board[k]) ELSE Merged(board[k])
<1>1. BoardStore(board[k], k) /\ DOMAIN board = Levels /\ Vecs(board[k]) /\ k \in boardArena
  BY DEF SolverInv, StoresOK, RecordInv, Shut, TriggerBgFlush, MergeEnds
<1>2. /\ Keys(t) = Keys(board[k]) /\ t.saved = board[k].saved
      /\ \A b \in Keys(board[k]) : Record(t, b) = Record(board[k], b)
  <2>1. CASE TriggerBgFlush(k)
    BY <1>1, <2>1, FilledKeys, FilledRecords, EmptyDomain DEF TriggerBgFlush, Quiet
  <2>2. CASE ~TriggerBgFlush(k)
    BY <1>1, <2>2, MergedKeys, MergedRecords
  <2> QED
    BY <2>1, <2>2
<1>3. board' = [board EXCEPT ![k] = t] /\ UNCHANGED <<moves, pc, level, sweep, left, redone>>
  BY DEF TriggerBgFlush, MergeEnds, history
<1> HIDE DEF t
<1>4. \A l \in Levels : board'[l] = IF l = k THEN t ELSE board[l]
  BY <1>1, <1>3
<1>5. \A l \in Levels : /\ Keys(board'[l]) = Keys(board[l]) /\ board'[l].saved = board[l].saved
                        /\ \A b \in Keys(board[l]) : Record(board'[l], b) = Record(board[l], b)
  BY <1>2, <1>4
<1>6. pc \notin {"sentinel", "report"}
  BY <1>1 DEF SolverInv, ArenasOK
<1>7. \A b : Due(b)' <=> Due(b)
  BY <1>3 DEF Due, InSeq, InJob, Ends, sweep
<1> QED
  BY <1>3, <1>5, <1>6, <1>7, SameCounting

\* The ends of a run.
LEMMA EndCounts ==
  ASSUME SolverInv, Counting, WriteBackpropSentinel \/ AlreadyComplete \/ Report PROVE Counting'
<1>1. /\ UNCHANGED <<board, moves, redone>>
      /\ \/ pc = "sentinel" /\ pc' = "report"
         \/ pc' = "done"
  <2>1. pc = "report" => boardArena = {}
    BY DEF SolverInv, ArenasOK
  <2>2. FreeArena({})
    BY FreeFor
  <2> QED
    BY <2>1, <2>2 DEF WriteBackpropSentinel, AlreadyComplete, Report, stores, history
<1>2. SavedCounts'
  BY <1>1, SavedCountsStay DEF Counting, Unturned, InLevel
<1>3. LevelCounts' /\ RootCounts'
  BY <1>1 DEF Counting, LevelCounts, RootCounts, InLevel, Root
<1> QED
  BY <1>2, <1>3 DEF Counting
-----------------------------------------------------------------------------
\* The sweep.
LEMMA StartLevelCounts ==
  ASSUME SolverInv, PlayInv, RecordInv, Counting, StartLevel PROVE Counting'
<1>1. /\ pc = "level" /\ level \in Levels /\ level \in Nat /\ maxLevel \in Nat /\ Quiet(level)
      /\ BoardStore(board[level], level) /\ Vecs(board[level]) /\ DOMAIN moves = Levels
  BY GameAssumption DEF SolverInv, StartLevel, LevelOK, StoresOK, RecordInv, Levels
<1>2. /\ pc' = "sweep" /\ level' = level /\ redone' = redone
      /\ moves' = [moves EXCEPT ![level] = CreatedMoves]
      /\ board' = [l \in Levels |-> IF l = level THEN Flushed(board[l])
                                    ELSE IF l = level + 1 THEN CreatedBoards ELSE board[l]]
      /\ toRead' \in Ascending(DOMAIN Contents(board[level]))
  BY LevelStarts DEF StartLevel, history
<1>3. board'[level] = Flushed(board[level]) /\ (level < maxLevel => board'[level + 1] = CreatedBoards)
  BY <1>1, <1>2 DEF Levels
<1>4. /\ Keys(board'[level]) = Keys(board[level])
      /\ \A b \in Keys(board[level]) : Record(board'[level], b) = Record(board[level], b)
  BY <1>1, <1>3, FlushedKeys, FlushedRecords, EmptyDomain DEF Quiet
<1>5. \A b \in Keys(board[level]) : InSeq(b, toRead')
  <2>1. Keys(board[level]) \subseteq Boards
    BY <1>1, KeysOfLevel DEF OfLevel
  <2>2. Keys(board[level]) \subseteq Nat /\ IsFiniteSet(Keys(board[level]))
    BY <2>1, GameAssumption, FS_Subset
  <2> QED
    BY <1>2, <2>2, AscendingAll, ContentsKeys
<1>6. \A b \in Keys(board[level]) : Want(b)' = Zero
  BY <1>2, <1>5 DEF Want, Due, InSeq
<1>7. \A b \in Keys(board[level]) : Counts(redone, Record(board[level], b), Zero)
  BY <1>1 DEF Counting, LevelCounts, Want
<1>8. LevelCounts'
  BY <1>2, <1>3, <1>4, <1>6, <1>7, CreatedRecords DEF LevelCounts, InLevel
<1>9. SavedCounts'
  <2>1. \A l \in Levels : moves'[l].named => l < level /\ moves[l].named
    <3>1. moves'[level].named = FALSE /\ \A l \in Levels : l # level => moves'[l] = moves[l]
      BY <1>1, <1>2, CreatedKeys
    <3> QED
      BY <1>1, <3>1 DEF PlayInv, NamesOK, Levels
  <2>2. \A l \in Levels : l < level => board'[l] = board[l]
    BY <1>1, <1>2 DEF Levels
  <2> QED
    BY <1>1, <1>2, <2>1, <2>2, SavedCountsStay DEF Counting, Unturned, InLevel
<1> QED
  BY <1>2, <1>8, <1>9 DEF Counting, RootCounts

LEMMA DispatchCounts ==
  ASSUME SolverInv, PlayInv, OnceInv, Counting, NEW w \in Workers, Dispatch(w) PROVE Counting'
<1>1. UNCHANGED <<board, moves, pc, level, left, redone>> /\ pc = "sweep"
  BY DEF Dispatch, stores, history
<1>2. \A b \in Boards : Terminal(b) => (Due(b)' <=> Due(b))
  BY OnceDispatch DEF Due
<1> QED
  BY <1>1, <1>2, SameCounting

LEMMA JobEndCounts ==
  ASSUME SolverInv, PlayInv, Counting, NEW w \in Workers, Counted(w) \/ ReturnContext(w) PROVE Counting'
<1>1. /\ UNCHANGED <<board, moves, pc, level, toRead, left, redone>>
      /\ \A v \in Workers : worker'[v].ops = worker[v].ops
  <2>1. DOMAIN worker = Workers /\ \A v \in Workers : DOMAIN worker[v] = {"ctx", "counted", "ops"}
    BY DEF SolverInv, JobsOK
  <2> QED
    BY <2>1 DEF Counted, ReturnContext, stores, history
<1>2. \A b : Due(b)' <=> Due(b)
  BY <1>1 DEF Due, InSeq, InJob, Ends
<1> QED
  BY <1>1, <1>2, SameCounting

LEMMA DrainCounts == ASSUME SolverInv, PlayInv, OnceInv, Counting, Drain PROVE Counting'
<1>1. /\ pc = "sweep" /\ toRead = << >> /\ toRead' = passQueue
      /\ pc' = (IF passQueue = << >> THEN "board" ELSE "sweep")
      /\ UNCHANGED <<board, moves, level, worker, redone>>
      /\ level \in Levels /\ BoardStore(board[level], level)
  BY DEF Drain, Passes, stores, history, SolverInv, LevelOK, StoresOK
<1>2. \A w \in Workers : worker[w].ops = {}
  BY DEF Drain, NoneActive, SolverInv, JobsOK
<1>3. ASSUME NEW b \in Keys(board[level]) PROVE Want(b)' = Want(b)
  <2>1. b \in Boards
    BY <1>1, KeysOfLevel DEF OfLevel
  <2>2. ~InJob(b) /\ ~InJob(b)' /\ ~InSeq(b, toRead)
    BY <1>1, <1>2 DEF InJob, InSeq
  <2>3. Want(b) = Start(b)
    BY <1>1, <2>2 DEF Want, Due
  <2>4. CASE Terminal(b)
    <3>1. ~Due(b)'
      BY <1>1, <2>1, <2>2, <2>4 DEF OnceInv, Once, Due, InSeq
    <3> QED
      BY <1>1, <2>3, <3>1 DEF Want, Start, Terminal, Out
  <2>5. CASE ~Terminal(b)
    <3>1. Start(b) = Zero /\ Start(b)' = Zero
      BY <2>5 DEF Start, Terminal, Out
    <3> QED
      BY <1>1, <2>3, <3>1 DEF Want
  <2> QED
    BY <2>4, <2>5
<1>4. LevelCounts'
  BY <1>1, <1>3 DEF Counting, LevelCounts, Below, InLevel
<1>5. SavedCounts'
  BY <1>1, SavedCountsStay DEF Counting, Unturned, InLevel
<1> QED
  BY <1>1, <1>4, <1>5 DEF Counting, RootCounts

-----------------------------------------------------------------------------
\* An insert adds to the record of its board and to no other.
LEMMA OneInserted ==
  ASSUME SolverInv, RecordInv, NEW l \in Levels, NEW b, NEW delta \in Vec, TSInsert(l, b, delta)
  PROVE  /\ \A i \in Levels : i # l => board'[i] = board[i]
         /\ \A i \in Levels : board'[i].saved = board[i].saved
         /\ Keys(board'[l]) = Keys(board[l]) \cup {b}
         /\ \A c \in Keys(board[l]) \ {b} : Record(board'[l], c) = Record(board[l], c)
         /\ Record(board'[l], b) = IF b \in Keys(board[l]) THEN Add(Record(board[l], b), delta) ELSE delta
<1> DEFINE t == Inserted(board[l], b, delta)
<1>1. BoardStore(board[l], l) /\ Vecs(board[l]) /\ DOMAIN board = Levels
  BY DEF SolverInv, StoresOK, RecordInv
<1>2. /\ Keys(t) = Keys(board[l]) \cup {b} /\ t.saved = board[l].saved
      /\ \A c \in Keys(board[l]) \ {b} : Record(t, c) = Record(board[l], c)
      /\ Record(t, b) = IF b \in Keys(board[l]) THEN Add(Record(board[l], b), delta) ELSE delta
  BY <1>1, InsertedKeys, InsertedRecords
<1>3. board' = [board EXCEPT ![l] = t]
  BY DEF TSInsert
<1> HIDE DEF t
<1>4. board'[l] = t /\ \A i \in Levels : i # l => board'[i] = board[i]
  BY <1>1, <1>3
<1> QED
  BY <1>2, <1>4

LEMMA WorkerCounts ==
  ASSUME SolverInv, PlayInv, RecordInv, OnceInv, Counting, NEW w \in Workers, WorkerProcessBatch(w)
  PROVE  OnceInv' /\ Counting'
<1>1. PICK op \in worker[w].ops :
        /\ worker' = [worker EXCEPT ![w].ops = worker[w].ops \ {op}]
        /\ \/ /\ op.kind = "terminal"
              /\ TSInsert(level, op.board, Outcome[op.board])
              /\ UNCHANGED <<moves, passQueue>>
           \/ /\ op.kind = "board"
              /\ TSInsert(IF op.edge.pass THEN level ELSE level + 1, op.edge.to, Zero)
              /\ passQueue' = IF op.edge.pass THEN Append(passQueue, op.edge.to) ELSE passQueue
              /\ UNCHANGED moves
           \/ /\ op.kind = "move"
              /\ moves' = [moves EXCEPT ![level] = Recorded(moves[level], op.edge)]
              /\ UNCHANGED <<board, passQueue>>
        /\ UNCHANGED <<pc, level, toRead, left, redone>>
  BY DEF WorkerProcessBatch, history
<1>2. /\ pc = "sweep" /\ level \in Levels /\ level \in Nat /\ maxLevel \in Nat /\ JobOp(op, level)
      /\ BoardStore(board[level], level) /\ BoardStore(board'[level], level)
  BY <1>1, WorkerProcessBatchKeeps, GameAssumption DEF SolverInv, JobsOK, LevelOK, StoresOK, Levels
<1>3. op.kind = "board" => op.edge \in Edges /\ op.edge.from \in Boards /\ LevelOf[op.edge.from] = level
  BY <1>2, Steps DEF JobOp, EdgesOf
<1>4. /\ OnceInv'
      /\ \A b \in Boards : Terminal(b) => (Due(b)' <=> Due(b) /\ ~Ends(op, b))
  <2>1. \/ passQueue' = passQueue
        \/ \E e \in Edges : e.pass /\ passQueue' = Append(passQueue, e.to)
    BY <1>1, <1>3
  <2> QED
    BY <1>1, <1>2, <2>1, OnceWorker DEF Due
<1>5. ASSUME NEW b \in Boards, ~Ends(op, b) PROVE Want(b)' = Want(b)
  <2>1. CASE Terminal(b)
    BY <1>1, <1>2, <1>4, <1>5, <2>1 DEF Want, Start, Terminal, Out
  <2>2. CASE ~Terminal(b)
    <3>1. Start(b) = Zero /\ Start(b)' = Zero
      BY <2>2 DEF Start, Terminal, Out
    <3> QED
      BY <1>1, <1>2, <3>1 DEF Want
  <2> QED
    BY <2>1, <2>2
<1>6. /\ \A b \in Keys(board[level]) : b \in Boards /\ Counts(redone, Record(board[level], b), Want(b))
      /\ level < maxLevel => \A b \in Keys(board[level + 1]) : Counts(redone, Record(board[level + 1], b), Zero)
  BY <1>2, KeysOfLevel DEF Counting, LevelCounts, InLevel, Below, OfLevel
<1>7. ASSUME /\ \A b \in Keys(board'[level]) : Counts(redone, Record(board'[level], b), Want(b)')
             /\ level < maxLevel => \A b \in Keys(board'[level + 1]) : Counts(redone, Record(board'[level + 1], b), Zero)
             /\ \A l \in Levels : board'[l].saved = board[l].saved /\ moves'[l].named = moves[l].named
      PROVE  Counting'
  <2>1. LevelCounts'
    BY <1>1, <1>2, <1>7 DEF LevelCounts, Below
  <2>2. SavedCounts'
    BY <1>1, <1>2, <1>7, SavedCountsStay DEF Counting, Unturned, InLevel
  <2> QED
    BY <1>1, <1>2, <2>1, <2>2 DEF Counting, RootCounts
<1>8. \A v \in Vec : Counts(redone, v, v)
  BY CountsSelf
<1>9. CASE op.kind = "terminal"
  <2> DEFINE t == op.board
  <2>1. t \in Boards /\ Terminal(t) /\ Ends(op, t)
    BY <1>1, <1>2, <1>9 DEF JobOp, OfLevel, PlayInv, BatchesOK, Ends
  <2>2. Outcome[t] \in Vec /\ Start(t) = Outcome[t] /\ Start(t)' = Outcome[t]
    BY <2>1, StartVec DEF Start, Terminal, Out
  <2>3. TSInsert(level, t, Outcome[t]) /\ moves' = moves
    BY <1>1, <1>9
  <2>4. Want(t) = Zero /\ Want(t)' = Outcome[t]
    <3>1. Due(t) /\ ~Due(t)'
      BY <1>1, <1>4, <2>1 DEF Due, InJob
    <3> QED
      BY <1>1, <1>2, <2>2, <3>1 DEF Want
  <2>5. \A b : b # t => ~Ends(op, b)
    BY DEF Ends
  <2> HIDE DEF t
  <2>6. ASSUME NEW b \in Keys(board'[level]) PROVE Counts(redone, Record(board'[level], b), Want(b)')
    <3>1. CASE b # t
      <4>1. b \in Keys(board[level]) /\ Record(board'[level], b) = Record(board[level], b)
        BY <1>2, <2>2, <2>3, <3>1, OneInserted
      <4> QED
        BY <1>5, <1>6, <2>5, <3>1, <4>1
    <3>2. CASE b = t /\ t \notin Keys(board[level])
      <4>1. Record(board'[level], t) = Outcome[t]
        BY <1>2, <2>2, <2>3, <3>2, OneInserted
      <4> QED
        BY <1>8, <2>2, <2>4, <3>2, <4>1
    <3>3. CASE b = t /\ t \in Keys(board[level])
      <4>1. Record(board'[level], t) = Add(Record(board[level], t), Outcome[t])
        BY <1>2, <2>2, <2>3, <3>3, OneInserted
      <4>2. Counts(redone, Record(board[level], t), Zero) /\ Record(board[level], t) \in Vec
        BY <1>2, <1>6, <2>4, <3>3, ContentsIs DEF RecordInv
      <4>3. Add(Zero, Outcome[t]) = Outcome[t]
        BY <2>2, AddZero
      <4>4. Counts(redone, Add(Record(board[level], t), Outcome[t]), Add(Zero, Outcome[t]))
        BY <1>8, <2>2, <4>2, AddCounts, ZeroVec
      <4> QED
        BY <2>4, <3>3, <4>1, <4>3, <4>4
    <3> QED
      BY <3>1, <3>2, <3>3
  <2>7. level < maxLevel => level + 1 \in Levels /\ board'[level + 1] = board[level + 1]
    <3>1. level < maxLevel => level + 1 \in Levels /\ level + 1 # level
      BY <1>2 DEF Levels
    <3> QED
      BY <1>2, <2>2, <2>3, <3>1, OneInserted
  <2>8. \A l \in Levels : board'[l].saved = board[l].saved
    BY <1>2, <2>2, <2>3, OneInserted
  <2> QED
    BY <1>4, <1>6, <1>7, <2>3, <2>6, <2>7, <2>8
<1>10. CASE op.kind = "board"
  <2> DEFINE e == op.edge  to == IF e.pass THEN level ELSE level + 1
  <2>1. e \in Edges /\ e.to \in Boards /\ e.pass \in BOOLEAN /\ to \in Levels
    BY <1>2, <1>3, <1>10, Steps
  <2>2. TSInsert(to, e.to, Zero) /\ moves' = moves
    BY <1>1, <1>10
  <2>3. \A b : ~Ends(op, b)
    BY <1>10 DEF Ends
  <2>4. level < maxLevel => level + 1 \in Levels
    BY <1>2 DEF Levels
  <2>5. e.pass => to = level /\ ~Terminal(e.to)
    BY <2>1, PassGoesOn
  <2>6. ~e.pass => to = level + 1 /\ to # level
    BY <1>2
  <2> HIDE DEF to, e
  <2>7. ASSUME NEW l \in Levels, NEW c \in Keys(board'[l])
        PROVE  \/ c \in Keys(board[l]) /\ Record(board'[l], c) = Record(board[l], c)
               \/ l = to /\ c = e.to /\ Record(board'[l], c) = Zero
    <3>1. CASE l # to
      BY <2>1, <2>2, <2>7, <3>1, ZeroVec, OneInserted
    <3>2. CASE l = to /\ c # e.to
      BY <2>1, <2>2, <2>7, <3>2, ZeroVec, OneInserted
    <3>3. CASE l = to /\ c = e.to
      <4>1. Record(board'[l], c) = IF c \in Keys(board[l]) THEN Add(Record(board[l], c), Zero) ELSE Zero
        BY <2>1, <2>2, <3>3, ZeroVec, OneInserted
      <4>2. c \in Keys(board[l]) => Record(board[l], c) \in Vec
        BY ContentsIs DEF RecordInv
      <4> QED
        BY <3>3, <4>1, <4>2, AddZero
    <3> QED
      BY <3>1, <3>2, <3>3
  <2>8. Counts(redone, Zero, Zero)
    BY ZeroVec DEF Counts, AtLeast
  <2>9. ASSUME NEW c \in Keys(board'[level]) PROVE Counts(redone, Record(board'[level], c), Want(c)')
    <3>1. c \in Boards /\ Want(c)' = Want(c)
      <4>1. c \in Boards
        BY <1>2, KeysOfLevel DEF OfLevel
      <4> QED
        BY <1>5, <2>3, <4>1
    <3>2. CASE c \in Keys(board[level]) /\ Record(board'[level], c) = Record(board[level], c)
      BY <1>6, <3>1, <3>2
    <3>3. CASE level = to /\ c = e.to /\ Record(board'[level], c) = Zero
      <4>1. ~Terminal(c)
        BY <2>1, <2>5, <2>6, <3>3
      <4>2. Want(c) = Zero
        BY <1>2, <4>1 DEF Want, Start
      <4> QED
        BY <2>8, <3>1, <3>3, <4>2
    <3> QED
      BY <1>2, <2>7, <3>2, <3>3
  <2>10. ASSUME level < maxLevel, NEW c \in Keys(board'[level + 1]) PROVE Counts(redone, Record(board'[level + 1], c), Zero)
    BY <1>6, <2>4, <2>7, <2>8, <2>10
  <2>11. \A l \in Levels : board'[l].saved = board[l].saved
    BY <2>1, <2>2, ZeroVec, OneInserted
  <2> QED
    BY <1>4, <1>7, <2>2, <2>9, <2>10, <2>11
<1>11. CASE op.kind = "move"
  <2>1. board' = board /\ \A b : ~Ends(op, b)
    BY <1>1, <1>11 DEF Ends
  <2>2. \A l \in Levels : moves'[l].named = moves[l].named
    <3>1. DOMAIN moves = Levels /\ MoveStore(moves[level], level)
      BY <1>2 DEF SolverInv, StoresOK
    <3>2. Recorded(moves[level], op.edge).named = moves[level].named
      BY <3>1, RecordedNames
    <3>3. moves' = [moves EXCEPT ![level] = Recorded(moves[level], op.edge)]
      BY <1>1, <1>11
    <3> QED
      BY <3>1, <3>2, <3>3
  <2>3. \A b \in Boards : Terminal(b) => (Due(b)' <=> Due(b))
    BY <1>4, <2>1
  <2> QED
    BY <1>1, <1>2, <1>4, <2>1, <2>2, <2>3, SameCounting
<1> QED
  BY <1>1, <1>9, <1>10, <1>11

-----------------------------------------------------------------------------
\* A level ends.
LEMMA CheckpointBoardsCounts ==
  ASSUME SolverInv, PlayInv, RecordInv, Counting, ~lost, CheckpointBoards PROVE Counting'
<1> DEFINE t == Checkpointed(board[level])
<1>1. /\ pc = "board" /\ pc' = "moves" /\ level \in Levels /\ level \in Nat /\ maxLevel \in Nat /\ Quiet(level)
      /\ BoardStore(board[level], level) /\ Vecs(board[level]) /\ DOMAIN board = Levels
      /\ board' = [board EXCEPT ![level] = t] /\ UNCHANGED <<moves, level, redone>>
  BY GameAssumption DEF CheckpointBoards, SolverInv, LevelOK, StoresOK, RecordInv, history, Levels
<1>2. /\ Keys(t) = Keys(board[level])
      /\ \A b \in Keys(board[level]) : Record(t, b) = Record(board[level], b) /\ t.saved[b] = Record(board[level], b)
  BY <1>1, CheckpointedKeys, CheckpointedRecords, EmptyDomain DEF Quiet
<1> HIDE DEF t
<1>3. board'[level] = t /\ \A l \in Levels : l # level => board'[l] = board[l]
  BY <1>1
<1>4. /\ \A b \in Keys(board[level]) : Counts(redone, Record(board[level], b), Start(b))
      /\ level < maxLevel => \A b \in Keys(board[level + 1]) : Counts(redone, Record(board[level + 1], b), Zero)
  BY <1>1 DEF Counting, LevelCounts, InLevel, Want, Below
<1>5. \A b : Want(b)' = Start(b)
  BY <1>1 DEF Want, Start, Terminal, Out
<1>6. level < maxLevel => level + 1 \in Levels /\ level + 1 # level
  BY <1>1 DEF Levels
<1>7. LevelCounts'
  BY <1>1, <1>2, <1>3, <1>4, <1>5, <1>6 DEF LevelCounts, Below
<1>8. SavedCounts'
  <2>1. \A l \in Levels : moves[l].named => board'[l].saved = board[l].saved
    BY <1>1, <1>3 DEF PlayInv, NamesOK
  <2>2. \A b \in OfLevel(level) : Counts(redone, board'[level].saved[b], Start(b))
    BY <1>1, <1>2, <1>3, <1>4 DEF PlayInv, WholeOK, DoneOK
  <2>3. \A l \in Levels : moves'[l].named => \A b \in OfLevel(l) :
          AtLeast(board'[l].saved[b], Start(b)) /\ (Unturned(l)' => board'[l].saved[b] = Start(b))
    BY <1>1, <2>1 DEF Counting, SavedCounts, Unturned, InLevel
  <2> QED
    BY <1>1, <2>2, <2>3 DEF SavedCounts, Start, Terminal, Out, OfLevel, Levels
<1> QED
  BY <1>1, <1>7, <1>8 DEF Counting, RootCounts

LEMMA CheckpointMovesCounts == ASSUME SolverInv, Counting, CheckpointMoves PROVE Counting'
<1>1. /\ pc = "moves" /\ pc' = "next" /\ level \in Levels /\ DOMAIN moves = Levels
      /\ moves' = [moves EXCEPT ![level] = NamedMoves(moves[level])] /\ UNCHANGED <<board, level, redone>>
  BY DEF CheckpointMoves, SolverInv, LevelOK, StoresOK, history
<1>2. \A b : Want(b)' = Want(b) /\ Below(b)' = Below(b)
  BY <1>1 DEF Want, Below, Start, Terminal, Out
<1>3. LevelCounts'
  BY <1>1, <1>2 DEF Counting, LevelCounts, InLevel
<1>4. \A l \in Levels : l # level => moves'[l] = moves[l]
  BY <1>1
<1>5. \A b \in OfLevel(level) : Counts(redone, board[level].saved[b], Start(b))
  BY <1>1 DEF Counting, SavedCounts
<1>6. ASSUME NEW l \in Levels, moves'[l].named, NEW b \in OfLevel(l)
      PROVE  AtLeast(board[l].saved[b], Start(b)) /\ (Unturned(l)' => board[l].saved[b] = Start(b))
  <2>1. Unturned(l)' => ~redone /\ Unturned(l)
    BY <1>1 DEF Unturned, InLevel
  <2>2. CASE l = level
    BY <1>5, <1>6, <2>1, <2>2 DEF Counts
  <2>3. CASE l # level
    BY <1>4, <1>6, <2>1, <2>3 DEF Counting, SavedCounts
  <2> QED
    BY <2>2, <2>3
<1>7. SavedCounts'
  BY <1>1, <1>6 DEF SavedCounts, Start, Terminal, Out, OfLevel, Levels
<1> QED
  BY <1>1, <1>3, <1>7 DEF Counting, RootCounts

LEMMA EndLevelCounts ==
  ASSUME SolverInv, PlayInv, RecordInv, Counting, EndLevel PROVE Counting'
<1> DEFINE last == ~newBoards \/ level = maxLevel
           After(l) == CASE l = level -> ClosedBoards(board[l])
                         [] l = level + 1 -> IF newBoards THEN Checkpointed(board[l])
                                             ELSE ClosedBoards(Checkpointed(board[l]))
                         [] OTHER -> board[l]
<1>1. /\ pc = "next" /\ level \in Levels /\ level \in Nat /\ maxLevel \in Nat /\ DOMAIN moves = Levels
      /\ \A l \in Levels : BoardStore(board[l], l) /\ l \in Nat /\ Vecs(board[l])
      /\ level < maxLevel => Quiet(level + 1)
  BY GameAssumption DEF SolverInv, EndLevel, LevelOK, StoresOK, RecordInv, Levels
<1>2. /\ board' = [l \in Levels |-> After(l)]
      /\ level' = (IF last THEN level ELSE level + 1) /\ pc' = (IF last THEN "open" ELSE "level")
      /\ moves' = [moves EXCEPT ![level] = ClosedMoves(moves[level])] /\ UNCHANGED redone
  BY DEF EndLevel, history
<1>3. \A l \in Levels : moves'[l].named = moves[l].named
  <2>1. \A l \in Levels : moves'[l] = IF l = level THEN ClosedMoves(moves[l]) ELSE moves[l]
    BY <1>1, <1>2
  <2> QED
    BY <2>1, NamesOfMoves
<1>4. /\ board'[level] = ClosedBoards(board[level])
      /\ \A l \in Levels : l # level /\ l # level + 1 => board'[l] = board[l]
      /\ ~last => level + 1 \in Levels /\ board'[level + 1] = Checkpointed(board[level + 1])
  BY <1>1, <1>2 DEF Levels
<1> HIDE DEF After
<1>5. SavedCounts'
  <2>1. \A l \in Levels : moves'[l].named => l # level + 1
    BY <1>1, <1>3 DEF PlayInv, NamesOK, InLevel
  <2>2. \A l \in Levels : moves'[l].named => board'[l].saved = board[l].saved
    BY <1>1, <1>4, <2>1, ClosedKeys
  <2> QED
    BY <1>1, <1>2, <1>3, <2>2, SavedCountsStay DEF Counting, Unturned, InLevel
<1>6. LevelCounts'
  <2>1. CASE last
    BY <1>2, <2>1 DEF LevelCounts, InLevel
  <2>2. CASE ~last
    <3> DEFINE s == board[level + 1]
    <3>1. /\ level + 1 \in Levels /\ level < maxLevel /\ board'[level + 1] = Checkpointed(s)
      BY <1>1, <1>4, <2>2 DEF Levels
    <3>2. /\ Keys(Checkpointed(s)) = Keys(s)
          /\ \A b \in Keys(s) : Record(Checkpointed(s), b) = Record(s, b)
      <4>1. BoardStore(s, level + 1) /\ Vecs(s) /\ DOMAIN s.bg = {}
        BY <1>1, <3>1, EmptyDomain DEF Quiet
      <4> HIDE DEF s
      <4> QED
        BY <4>1, CheckpointedKeys, CheckpointedRecords
    <3>3. \A b \in Keys(s) : Counts(redone, Record(s, b), Zero)
      BY <1>1, <3>1 DEF Counting, LevelCounts, InLevel, Below
    <3> HIDE DEF s
    <3>4. level' = level + 1 /\ pc' = "level"
      BY <1>2, <2>2
    <3>5. \A b : Want(b)' = Zero
      BY <3>4 DEF Want
    <3> QED
      BY <1>2, <3>1, <3>2, <3>3, <3>4, <3>5 DEF LevelCounts, InLevel
  <2> QED
    BY <2>1, <2>2
<1> QED
  BY <1>2, <1>5, <1>6 DEF Counting, RootCounts
-----------------------------------------------------------------------------
\* The wins are carried back.  Before the first move of a level its records are
\* what the manifest names.
LEMMA LevelOpened ==
  ASSUME SolverInv, PlayInv, RecordInv, Counting, ~lost, NEW l \in Levels, l \notin boardArena, ~board[l].worn,
         moves[l].named, Unturned(l) \/ redone
  PROVE  \A b \in Keys(OpenedBoards(board[l])) :
           Counts(redone, Record(OpenedBoards(board[l]), b), Add(Start(b), Sum(Wins, Out(b) \ moves[l].saved)))
<1>1. BoardStore(board[l], l) /\ Vecs(board[l]) /\ DOMAIN board[l].mem = {} /\ DOMAIN board[l].bg = {}
  BY DEF SolverInv, StoresOK, RecordInv, Shut
<1>2. DOMAIN board[l].saved = OfLevel(l) /\ moves[l].saved = EdgesOf(l)
  BY DEF PlayInv, WholeOK, SavedOK, Kept
<1>3. /\ Keys(OpenedBoards(board[l])) = OfLevel(l)
      /\ \A b \in OfLevel(l) : Record(OpenedBoards(board[l]), b) = board[l].saved[b]
  BY <1>1, <1>2, OpenedRecords
<1>4. ASSUME NEW b \in OfLevel(l) PROVE Counts(redone, board[l].saved[b], Add(Start(b), Sum(Wins, Out(b) \ moves[l].saved)))
  <2>1. Out(b) \ moves[l].saved = {}
    BY <1>2, <1>4 DEF Out, EdgesOf, OfLevel
  <2>2. Add(Start(b), Sum(Wins, {})) = Start(b)
    BY <1>4, StartVec, SumOf, AddZero DEF OfLevel
  <2>3. Counts(redone, board[l].saved[b], Start(b))
    BY <1>4 DEF Counting, SavedCounts, Counts
  <2> QED
    BY <2>1, <2>2, <2>3
<1> QED
  BY <1>3, <1>4

LEMMA OpenCounts ==
  ASSUME SolverInv, PlayInv, RecordInv, Counting, ~lost', StartBackPropagation PROVE Counting'
<1> DEFINE opened == {deepestLevel, deepestLevel + 1} \cap Levels
<1>1. /\ pc = "open" /\ deepestLevel \in Levels /\ DOMAIN moves = Levels /\ maxLevel \in Nat
      /\ \A l \in Levels : BoardStore(board[l], l) /\ l \in Nat
      /\ boardArena = {} /\ moves[deepestLevel].named
  BY GameAssumption DEF SolverInv, StartBackPropagation, LevelOK, StoresOK, Levels, ArenasOK, PlayInv, NamesOK
<1>2. /\ pc' = "back" /\ level' = deepestLevel /\ redone' = redone
      /\ board' = [l \in Levels |-> IF l \in opened THEN OpenedBoards(board[l]) ELSE board[l]]
      /\ moves' = [moves EXCEPT ![deepestLevel] = OpenedMoves(moves[deepestLevel])]
      /\ lost' = (lost \/ \E l \in opened : board[l].worn)
      /\ left' = moves[deepestLevel].saved
  BY WindowOpens DEF StartBackPropagation
<1>3. ~lost /\ \A l \in opened : ~board[l].worn
  BY <1>2
<1>4. \A l \in Levels : moves'[l].named = moves[l].named /\ board'[l].saved = board[l].saved
  <2>1. \A l \in Levels : moves'[l] = IF l = deepestLevel THEN OpenedMoves(moves[l]) ELSE moves[l]
    BY <1>1, <1>2
  <2>2. \A l \in Levels : board'[l] = IF l \in opened THEN OpenedBoards(board[l]) ELSE board[l]
    BY <1>2
  <2> QED
    BY <1>1, <2>1, <2>2, NamesOfMoves, OpenedKeys
<1>5. \A l \in Levels : Unturned(l)' => Unturned(l)
  BY <1>1, <1>2 DEF Unturned
<1>6. SavedCounts'
  BY <1>2, <1>4, <1>5, SavedCountsStay DEF Counting
<1>7. board'[deepestLevel] = OpenedBoards(board[deepestLevel])
  BY <1>1, <1>2
<1>8. \A b \in Keys(board'[deepestLevel]) : Counts(redone, Record(board'[deepestLevel], b), Want(b)')
  <2>1. Unturned(deepestLevel) \/ redone
    BY <1>1 DEF Unturned
  <2>2. \A b \in Keys(board'[deepestLevel]) :
          Counts(redone, Record(board'[deepestLevel], b), Add(Start(b), Sum(Wins, Out(b) \ moves[deepestLevel].saved)))
    BY <1>1, <1>3, <1>7, <2>1, LevelOpened
  <2>3. \A b : Want(b)' = Add(Start(b), Sum(Wins, Out(b) \ moves[deepestLevel].saved))
    BY <1>2 DEF Want, Start, Terminal, Out
  <2> QED
    BY <2>2, <2>3
<1>9. ASSUME deepestLevel < maxLevel PROVE Keys(board'[deepestLevel + 1]) = {}
  <2>1. deepestLevel + 1 \in Levels
    BY <1>1, <1>9 DEF Levels
  <2>2. \A b \in Boards : LevelOf[b] <= deepestLevel
    BY <1>1, <1>3 DEF PlayInv, WholeOK, BackOK
  <2>3. OfLevel(deepestLevel + 1) = {}
    BY <1>1, <2>2, LevelType DEF OfLevel
  <2>4. Keys(board'[deepestLevel + 1]) \subseteq OfLevel(deepestLevel + 1)
    BY <1>1, <1>2, <2>1, OpenedKeeps, KeysOfLevel
  <2> QED
    BY <2>3, <2>4
<1>10. LevelCounts'
  BY <1>2, <1>8, <1>9 DEF LevelCounts, InLevel
<1> QED
  BY <1>2, <1>6, <1>10 DEF Counting, RootCounts

\* A move takes the wins of the board it leads to, which are all there: the boards
\* of the next level were completed before, and those a pass leads to once no move
\* but a pass is left.
LEMMA CarryCounts ==
  ASSUME SolverInv, PlayInv, RecordInv, Counting, ~lost, ~split', CarryBack PROVE Counting'
<1> DEFINE from(e) == board[IF e.pass THEN level ELSE level + 1]
<1>1. PICK e \in NextEdge(left) :
        /\ pc = "back"
        /\ \/ FoundIn(from(e), e.to) = {} /\ pc' = "failed"
           \/ /\ TSInsert(level, e.from, Swapped(e, TSFind(from(e), e.to)))
              /\ split' = (split \/ TSFind(from(e), e.to) # Contents(from(e))[e.to])
              /\ left' = left \ {e} /\ pc' = pc
        /\ UNCHANGED <<moves, level, redone, lost>>
  BY DEF CarryBack
<1>2. pc' # "failed"
  BY <1>1, CarryBackPlays DEF PlayInv, WholeOK
<1> DEFINE to == e.to  s == from(e)
<1>3. /\ TSInsert(level, e.from, Swapped(e, Record(s, to))) /\ left' = left \ {e} /\ pc' = pc
  BY <1>1, <1>2 DEF Record
<1>4. e \in left /\ (e.pass => \A d \in left : d.pass)
  BY DEF NextEdge, First
<1>5. /\ level \in Levels /\ level \in Nat /\ maxLevel \in Nat /\ left \subseteq EdgesOf(level) /\ e \in Edges
      /\ LevelOf[e.from] = level /\ e.from \in Boards /\ to \in Boards /\ e.pass \in BOOLEAN
      /\ LevelOf[to] \in Levels /\ LevelOf[to] = IF e.pass THEN level ELSE level + 1
  BY <1>1, <1>4, GameAssumption, Steps DEF SolverInv, LevelOK, CarryOK, EdgesOf, Levels
<1>6. /\ Keys(board[level]) = OfLevel(level)
      /\ level < maxLevel => Keys(board[level + 1]) = OfLevel(level + 1)
      /\ \A b \in OfLevel(level) : Counts(redone, Record(board[level], b), Add(Start(b), Sum(Wins, Out(b) \ left)))
      /\ level < maxLevel => \A b \in OfLevel(level + 1) : Counts(redone, Record(board[level + 1], b), Wins[b])
  BY <1>1 DEF PlayInv, WholeOK, BackOK, Counting, LevelCounts, Want, Below
<1>7. Counts(redone, Record(s, to), Wins[to]) /\ Record(s, to) \in Vec
  <2>1. CASE ~e.pass
    <3>1. level < maxLevel /\ to \in OfLevel(level + 1) /\ level + 1 \in Levels
      BY <1>5, <2>1 DEF OfLevel, Levels
    <3> QED
      BY <1>6, <2>1, <3>1, ContentsIs DEF RecordInv
  <2>2. CASE e.pass
    <3>1. to \in OfLevel(level)
      BY <1>5, <2>2 DEF OfLevel
    <3>2. Out(to) \ left = Out(to)
      <4>1. ~Terminal(to) /\ \A d \in Out(to) : ~d.pass /\ d.pass \in BOOLEAN
        BY <1>5, <2>2, PassGoesOn, Steps DEF Out
      <4> QED
        BY <1>4, <2>2, <4>1
    <3>3. Add(Start(to), Sum(Wins, Out(to) \ left)) = Wins[to]
      BY <1>5, <3>2, WinsFrom
    <3> QED
      BY <1>5, <1>6, <2>2, <3>1, <3>3, ContentsIs DEF RecordInv
  <2> QED
    BY <1>5, <2>1, <2>2
<1> DEFINE v == Swapped(e, Record(s, to))  b == e.from  done == Out(b) \ left
<1>8. /\ v \in Vec /\ Brought(Wins, e) \in Vec /\ Counts(redone, v, Brought(Wins, e))
  BY <1>5, <1>7, SwappedVec, SwappedCounts, WinsVec DEF Brought
<1>9. /\ \A i \in Levels : i # level => board'[i] = board[i]
      /\ \A i \in Levels : board'[i].saved = board[i].saved
      /\ Keys(board'[level]) = Keys(board[level])
      /\ \A c \in Keys(board[level]) \ {b} : Record(board'[level], c) = Record(board[level], c)
      /\ Record(board'[level], b) = Add(Record(board[level], b), v) /\ b \in OfLevel(level)
  <2>1. b \in OfLevel(level)
    BY <1>5 DEF OfLevel
  <2>2. TSInsert(level, b, v)
    BY <1>3
  <2>3. level \in Levels /\ v \in Vec /\ b \in Keys(board[level])
    BY <1>5, <1>6, <1>8, <2>1
  <2>4. Keys(board[level]) \cup {b} = Keys(board[level])
    BY <2>3
  <2> HIDE DEF v, b
  <2>5. /\ \A i \in Levels : i # level => board'[i] = board[i]
        /\ \A i \in Levels : board'[i].saved = board[i].saved
        /\ Keys(board'[level]) = Keys(board[level]) \cup {b}
        /\ \A c \in Keys(board[level]) \ {b} : Record(board'[level], c) = Record(board[level], c)
        /\ Record(board'[level], b) = IF b \in Keys(board[level]) THEN Add(Record(board[level], b), v) ELSE v
    BY <2>2, <2>3, OneInserted
  <2> QED
    BY <2>1, <2>3, <2>4, <2>5
<1> HIDE DEF v, s, to, from
<1>10. Counts(redone, Record(board'[level], b), Add(Start(b), Sum(Wins, Out(b) \ left')))
  <2>1. /\ Out(b) \ left' = done \cup {e} /\ done \cup {e} \in SUBSET Edges /\ (done \cup {e}) \ {e} = done
        /\ done \in SUBSET Edges
    BY <1>3, <1>4, <1>5 DEF Out
  <2>2. Sum(Wins, done \cup {e}) = Add(Sum(Wins, done), Brought(Wins, e)) /\ Sum(Wins, done) \in Vec
    BY <2>1, SumOf
  <2>3. Counts(redone, Record(board[level], b), Add(Start(b), Sum(Wins, done))) /\ Record(board[level], b) \in Vec
    BY <1>5, <1>6, <1>9, ContentsIs DEF RecordInv
  <2>4. Start(b) \in Vec /\ Add(Start(b), Sum(Wins, done)) \in Vec
    BY <1>5, <2>2, StartVec, AddVec
  <2> HIDE DEF done, b
  <2>5. Counts(redone, Add(Record(board[level], b), v), Add(Add(Start(b), Sum(Wins, done)), Brought(Wins, e)))
    BY <1>8, <2>3, <2>4, AddCounts
  <2>6. Add(Add(Start(b), Sum(Wins, done)), Brought(Wins, e)) = Add(Start(b), Add(Sum(Wins, done), Brought(Wins, e)))
    BY <1>8, <2>2, <2>4, AddSwap
  <2> QED
    BY <1>9, <2>1, <2>2, <2>5, <2>6
<1>11. ASSUME NEW c \in OfLevel(level), c # b
       PROVE  Counts(redone, Record(board'[level], c), Add(Start(c), Sum(Wins, Out(c) \ left')))
  <2>1. Out(c) \ left' = Out(c) \ left
    BY <1>3, <1>11 DEF Out
  <2> QED
    BY <1>6, <1>9, <1>11, <2>1
<1>12. \A c : Want(c)' = Add(Start(c), Sum(Wins, Out(c) \ left')) /\ Below(c)' = Wins[c]
  BY <1>1, <1>3 DEF Want, Below, Start, Terminal, Out
<1>13. level < maxLevel => board'[level + 1] = board[level + 1]
  BY <1>5, <1>9 DEF Levels
<1> HIDE DEF b, done
<1>14. LevelCounts'
  BY <1>1, <1>3, <1>6, <1>9, <1>10, <1>11, <1>12, <1>13 DEF LevelCounts
<1>15. SavedCounts'
  BY <1>1, <1>3, <1>9, SavedCountsStay DEF Counting, Unturned, InLevel
<1> QED
  BY <1>1, <1>3, <1>14, <1>15 DEF Counting, RootCounts

-----------------------------------------------------------------------------
\* A level completed counts all the games of its boards.
LEMMA SlideCounts ==
  ASSUME SolverInv, PlayInv, RecordInv, Counting, ~lost', BackPropLevelComplete PROVE Counting'
<1> DEFINE s == board[level]  t == Checkpointed(s)
<1>1. /\ pc = "back" /\ left = {} /\ level \in Levels /\ level \in Nat /\ maxLevel \in Nat /\ deepestLevel \in Nat
      /\ \A l \in Levels : BoardStore(board[l], l) /\ l \in Nat
      /\ DOMAIN moves = Levels /\ Vecs(s) /\ DOMAIN s.bg = {} /\ boardArena = {level, level + 1} \cap Levels
  BY GameAssumption, EmptyDomain
  DEF SolverInv, BackPropLevelComplete, LevelOK, StoresOK, ArenasOK, RecordInv, Quiet, Levels
<1>2. /\ board'[level] = IF level > 0 THEN t ELSE ClosedBoards(t)
      /\ level + 1 \in Levels => board'[level + 1] = ClosedBoards(board[level + 1])
      /\ level > 0 => board'[level - 1] = OpenedBoards(board[level - 1])
      /\ \A l \in Levels : l # level /\ l # level + 1 /\ l # level - 1 => board'[l] = board[l]
      /\ redone' = redone
      /\ level > 0 => /\ moves' = [moves EXCEPT ![level] = ClosedMoves(moves[level]),
                                                ![level - 1] = OpenedMoves(moves[level - 1])]
                      /\ left' = moves[level - 1].saved /\ level' = level - 1 /\ pc' = pc
                      /\ lost' = (lost \/ board[level - 1].worn)
      /\ level = 0 => /\ moves' = [moves EXCEPT ![0] = ClosedMoves(moves[0])]
                      /\ pc' = "sentinel" /\ lost' = lost
  <2>1. level > 0 => level - 1 \in Levels
    BY <1>1 DEF Levels
  <2> QED
    BY <1>1, <2>1, WindowSlides DEF BackPropLevelComplete
<1>3. ~lost /\ (level > 0 => ~board[level - 1].worn)
  <2>1. CASE level > 0
    <3>1. lost' = (lost \/ board[level - 1].worn)
      BY <1>2, <2>1
    <3> QED
      BY <3>1
  <2>2. CASE level = 0
    BY <1>2, <2>2
  <2> QED
    BY <1>1, <2>1, <2>2
<1>4. Keys(s) = OfLevel(level) /\ \A b \in OfLevel(level) : Counts(redone, Record(s, b), Wins[b])
  <2>1. Keys(s) = OfLevel(level) /\ \A b \in Keys(s) : Counts(redone, Record(s, b), Want(b))
    BY <1>1, <1>3 DEF PlayInv, WholeOK, BackOK, Counting, LevelCounts
  <2>2. ASSUME NEW b \in OfLevel(level) PROVE Want(b) = Wins[b]
    <3>1. Out(b) \ left = Out(b) /\ b \in Boards
      BY <1>1 DEF OfLevel
    <3> QED
      BY <1>1, <3>1, WinsFrom DEF Want
  <2> QED
    BY <2>1, <2>2
<1>5. /\ BoardStore(t, level) /\ Keys(t) = OfLevel(level) /\ DOMAIN t.saved = OfLevel(level) /\ ~t.worn /\ Vecs(t)
      /\ \A b \in OfLevel(level) : Record(t, b) = Record(s, b) /\ t.saved[b] = Record(s, b)
  <2>1. BoardStore(s, level) /\ Vecs(s) /\ DOMAIN s.bg = {}
    BY <1>1
  <2> HIDE DEF s
  <2> QED
    BY <1>4, <2>1, CheckpointedKeeps, CheckpointedKeys, CheckpointedRecords
<1> HIDE DEF t
<1>6. board'[level].saved = t.saved /\ board'[level].worn = t.worn
  <2>1. ClosedBoards(t).saved = t.saved /\ ClosedBoards(t).worn = t.worn
    BY <1>5, ClosedRecords
  <2> QED
    BY <1>2, <2>1
<1>7. \A l \in Levels : moves'[l].named = moves[l].named
  <2>1. level > 0 => level - 1 \in Levels /\ level - 1 # level
    BY <1>1 DEF Levels
  <2>2. \A l \in Levels : moves'[l] \in {moves[l], ClosedMoves(moves[l]), OpenedMoves(moves[l])}
    BY <1>1, <1>2, <2>1
  <2> QED
    BY <2>2, NamesOfMoves
<1>8. \A l \in Levels : l # level => board'[l].saved = board[l].saved
  <2> SUFFICES ASSUME NEW l \in Levels, l # level PROVE board'[l].saved = board[l].saved
    OBVIOUS
  <2>1. board'[l] \in {ClosedBoards(board[l]), OpenedBoards(board[l]), board[l]}
    BY <1>1, <1>2
  <2> QED
    BY <1>1, <2>1, ClosedKeys, OpenedKeys
<1>9. ASSUME NEW l \in Levels, Unturned(l)' PROVE l # level /\ Unturned(l)
  BY <1>1, <1>2, <1>9 DEF Unturned, InLevel
<1>10. pc' # "moves" /\ pc' # "report"
  BY <1>1, <1>2
<1>11. SavedCounts'
  <2>1. ASSUME NEW l \in Levels, moves'[l].named, NEW b \in OfLevel(l)
        PROVE  AtLeast(board'[l].saved[b], Start(b)) /\ (Unturned(l)' => board'[l].saved[b] = Start(b))
    <3>1. CASE l = level
      <4>1. Counts(redone, board'[l].saved[b], Wins[b]) /\ board'[l].saved[b] \in Vec /\ b \in Boards
        BY <1>1, <1>4, <1>5, <1>6, <2>1, <3>1, ContentsIs DEF OfLevel
      <4>2. AtLeast(board'[l].saved[b], Wins[b])
        BY <4>1 DEF Counts
      <4>3. AtLeast(board'[l].saved[b], Start(b))
        BY <4>1, <4>2, WinsAtLeast, WinsVec, StartVec, AtLeastAll
      <4> QED
        BY <1>9, <3>1, <4>3
    <3>2. CASE l # level
      BY <1>7, <1>8, <1>9, <2>1, <3>2 DEF Counting, SavedCounts
    <3> QED
      BY <3>1, <3>2
  <2> QED
    BY <1>10, <2>1 DEF SavedCounts, Start, Terminal, Out, OfLevel, Levels
<1>12. CASE level > 0
  <2> DEFINE k == level - 1
  <2>1. /\ k \in Levels /\ k \in Nat /\ k \notin boardArena /\ k < deepestLevel /\ k + 1 = level
        /\ moves[deepestLevel].named /\ deepestLevel \in Levels
    BY <1>1, <1>12 DEF PlayInv, NamesOK, Levels, SolverInv, LevelOK
  <2>2. moves[k].named
    BY <2>1 DEF PlayInv, NamesOK
  <2>3. Unturned(k) \/ redone
    BY <1>1 DEF Unturned
  <2>4. /\ board'[k] = OpenedBoards(board[k]) /\ ~board[k].worn /\ left' = moves[k].saved
        /\ level' = k /\ pc' = "back" /\ board'[level] = t
    BY <1>1, <1>2, <1>3, <1>12
  <2> HIDE DEF k
  <2>5. \A b \in Keys(board'[k]) : Counts(redone, Record(board'[k], b), Add(Start(b), Sum(Wins, Out(b) \ moves[k].saved)))
    BY <1>3, <2>1, <2>2, <2>3, <2>4, LevelOpened
  <2>6. \A b : Want(b)' = Add(Start(b), Sum(Wins, Out(b) \ moves[k].saved)) /\ Below(b)' = Wins[b]
    BY <2>4 DEF Want, Below, Start, Terminal, Out
  <2>7. \A b \in Keys(board'[level]) : Counts(redone, Record(board'[level], b), Wins[b])
    BY <1>4, <1>5, <2>4
  <2>8. level' + 1 = level
    BY <2>1, <2>4
  <2>9. LevelCounts'
    BY <1>2, <2>4, <2>5, <2>6, <2>7, <2>8 DEF LevelCounts
  <2> QED
    BY <1>11, <2>4, <2>9 DEF Counting, RootCounts
<1>13. CASE level = 0
  <2>1. pc' = "sentinel" /\ Root \in OfLevel(0)
    BY <1>2, <1>13, FirstBoard
  <2>2. /\ Root \in DOMAIN board'[0].saved /\ ~board'[0].worn
        /\ Counts(redone, board'[0].saved[Root], Wins[Root])
    BY <1>4, <1>5, <1>6, <1>13, <2>1
  <2>3. RootCounts'
    BY <1>2, <2>2 DEF RootCounts, Root
  <2> QED
    BY <1>11, <2>1, <2>3 DEF Counting, LevelCounts, InLevel
<1> QED
  BY <1>1, <1>12, <1>13
-----------------------------------------------------------------------------
\* All the steps.  What a run has found in parts or opened worn stays so to its end.
LEMMA HistoryStays ==
  ASSUME [Next]_vars PROVE doStartProcess \/ ((lost => lost') /\ (split => split'))
BY DEF Next, Main, Job, Pool, doRestartProcess, AlreadyComplete, StartLevel, Dispatch, Drain, CheckpointBoards,
   CheckpointMoves, EndLevel, StartBackPropagation, CarryBack, BackPropLevelComplete, WriteBackpropSentinel, Report,
   WorkerProcessBatch, Counted, ReturnContext, MergeEnds, TriggerBgFlush, Crash, vars, history

LEMMA OnceStep == ASSUME SolverInv, PlayInv, OnceInv, [Next]_vars PROVE OnceInv'
<1>1. CASE StartLevel \/ Drain \/ \E w \in Workers : Dispatch(w)
  BY <1>1, OnceStartLevel, OnceDrain, OnceDispatch
<1>2. CASE \E w \in Workers : WorkerProcessBatch(w)
  <2>1. PICK w \in Workers : WorkerProcessBatch(w)
    BY <1>2
  <2>2. PICK op \in worker[w].ops :
          /\ worker' = [worker EXCEPT ![w].ops = worker[w].ops \ {op}] /\ UNCHANGED <<pc, toRead>>
          /\ \/ passQueue' = passQueue
             \/ /\ op.kind = "board"
                /\ passQueue' = IF op.edge.pass THEN Append(passQueue, op.edge.to) ELSE passQueue
    BY <2>1 DEF WorkerProcessBatch
  <2>3. JobOp(op, level)
    BY <2>2 DEF SolverInv, JobsOK
  <2>4. \/ passQueue' = passQueue
        \/ \E e \in Edges : e.pass /\ passQueue' = Append(passQueue, e.to)
    BY <2>2, <2>3 DEF JobOp, EdgesOf
  <2> QED
    BY <2>2, <2>4, OnceWorker
<1>3. CASE \E w \in Workers : Counted(w) \/ ReturnContext(w)
  <2>1. DOMAIN worker = Workers /\ \A v \in Workers : DOMAIN worker[v] = {"ctx", "counted", "ops"}
    BY DEF SolverInv, JobsOK
  <2>2. UNCHANGED <<pc, toRead, passQueue>> /\ \A v \in Workers : worker'[v].ops = worker[v].ops
    BY <1>3, <2>1 DEF Counted, ReturnContext
  <2> QED
    BY <2>2, OnceSame
<1>4. CASE UNCHANGED vars \/ \E l \in Levels : TriggerBgFlush(l) \/ MergeEnds(l)
  BY <1>4, OnceSame DEF vars, sweep, TriggerBgFlush, MergeEnds
<1>5. CASE \/ doStartProcess \/ doRestartProcess \/ AlreadyComplete \/ CheckpointBoards \/ CheckpointMoves
           \/ EndLevel \/ StartBackPropagation \/ CarryBack \/ BackPropLevelComplete \/ WriteBackpropSentinel
           \/ Report \/ Crash
  <2>1. pc' # "sweep"
    BY <1>5 DEF doStartProcess, doRestartProcess, AlreadyComplete, CheckpointBoards, CheckpointMoves, EndLevel,
       StartBackPropagation, CarryBack, BackPropLevelComplete, WriteBackpropSentinel, Report, Crash
  <2> QED
    BY <2>1, OnceSame
<1> QED
  BY <1>1, <1>2, <1>3, <1>4, <1>5 DEF Next, Main, Job, Pool

LEMMA CountStep == ASSUME SolverInv, PlayInv, RecordInv, OnceInv, CountInv, [Next]_vars PROVE CountInv'
<1> SUFFICES ASSUME ~lost', ~split' PROVE Counting'
  BY DEF CountInv
<1>1. CASE doStartProcess
  BY <1>1, StartCounts
<1>2. CASE ~doStartProcess
  <2>1. ~lost /\ Counting
    BY <1>2, HistoryStays DEF CountInv
  <2>2. CASE doRestartProcess \/ Crash \/ WriteBackpropSentinel \/ AlreadyComplete \/ Report
    BY <2>1, <2>2, RestartCounts, CrashCounts, EndCounts
  <2>3. CASE StartLevel \/ Drain \/ CheckpointBoards \/ CheckpointMoves \/ EndLevel
    BY <2>1, <2>3, StartLevelCounts, DrainCounts, CheckpointBoardsCounts, CheckpointMovesCounts, EndLevelCounts
  <2>4. CASE StartBackPropagation \/ CarryBack \/ BackPropLevelComplete
    BY <2>1, <2>4, OpenCounts, CarryCounts, SlideCounts
  <2>5. CASE \E w \in Workers : Dispatch(w) \/ WorkerProcessBatch(w) \/ Counted(w) \/ ReturnContext(w)
    BY <2>1, <2>5, DispatchCounts, WorkerCounts, JobEndCounts
  <2>6. CASE \E l \in Levels : TriggerBgFlush(l) \/ MergeEnds(l)
    BY <2>1, <2>6, MergeCounts
  <2>7. CASE UNCHANGED vars
    <3>1. UNCHANGED <<board, moves, pc, level, left, redone>> /\ \A b : Due(b)' <=> Due(b)
      BY <2>7 DEF vars, stores, history, sweep, Due, InSeq, InJob, Ends
    <3> QED
      BY <2>1, <3>1, SameCounting
  <2> QED
    BY <1>2, <2>2, <2>3, <2>4, <2>5, <2>6, <2>7 DEF Next, Main, Job, Pool
<1> QED
  BY <1>1, <1>2

LEMMA ResultStep == ASSUME SolverInv, RecordInv, CountInv, ResultInv, [Next]_vars PROVE ResultInv'
<1>1. CASE Report
  <2>1. /\ pc = "report" /\ boardArena = {} /\ pc' = "done" /\ UNCHANGED <<board, redone, split, lost>>
        /\ result' = IF Root \in DOMAIN OpenedBoards(board[0]).files THEN OpenedBoards(board[0]).files[Root] ELSE Zero
    <3>1. pc = "report" => boardArena = {}
      BY DEF SolverInv, ArenasOK
    <3>2. FreeArena({})
      BY FreeFor
    <3> QED
      BY <1>1, <3>1, <3>2 DEF Report, stores, history
  <2>2. BoardStore(board[0], 0)
    BY FirstBoard DEF SolverInv, StoresOK
  <2>3. ~board[0].worn => OpenedBoards(board[0]).files = board[0].saved
    BY <2>2 DEF OpenedBoards, BoardStore
  <2>4. ~lost /\ ~split => /\ Root \in DOMAIN board[0].saved /\ ~board[0].worn
                           /\ Counts(redone, board[0].saved[Root], Wins[Root])
    BY <2>1 DEF CountInv, Counting, RootCounts
  <2>5. ~lost /\ ~split => Counts(redone, result', Wins[Root])
    BY <2>1, <2>3, <2>4
  <2> QED
    BY <2>1, <2>5 DEF ResultInv, Root
<1>2. CASE ~Report
  <2>1. result' = result
    BY <1>2 DEF Next, Main, Job, Pool, doStartProcess, doRestartProcess, AlreadyComplete, StartLevel, Dispatch, Drain,
       CheckpointBoards, CheckpointMoves, EndLevel, StartBackPropagation, CarryBack, BackPropLevelComplete,
       WriteBackpropSentinel, WorkerProcessBatch, Counted, ReturnContext, MergeEnds, TriggerBgFlush, Crash, vars
  <2>2. pc = "done" => pc' = "done" /\ UNCHANGED <<redone, split, lost>>
    <3> SUFFICES ASSUME pc = "done" PROVE pc' = "done" /\ UNCHANGED <<redone, split, lost>>
      OBVIOUS
    <3>1. \A w \in Workers : ~worker[w].counted /\ worker[w].ops = {}
      BY DEF SolverInv, JobsOK
    <3>2. /\ \A w \in Workers : ~WorkerProcessBatch(w) /\ ~Counted(w)
          /\ ~doStartProcess /\ ~doRestartProcess /\ ~AlreadyComplete /\ ~StartLevel /\ ~Drain /\ ~CheckpointBoards
          /\ ~CheckpointMoves /\ ~EndLevel /\ ~StartBackPropagation /\ ~CarryBack /\ ~BackPropLevelComplete
          /\ ~WriteBackpropSentinel /\ ~Crash /\ \A w \in Workers : ~Dispatch(w)
      BY <3>1 DEF WorkerProcessBatch, Counted, doStartProcess, doRestartProcess, AlreadyComplete, StartLevel, Drain,
         CheckpointBoards, CheckpointMoves, EndLevel, StartBackPropagation, CarryBack, BackPropLevelComplete,
         WriteBackpropSentinel, Crash, Dispatch
    <3>3. \/ UNCHANGED vars \/ \E w \in Workers : ReturnContext(w)
          \/ \E l \in Levels : TriggerBgFlush(l) \/ MergeEnds(l)
      BY <1>2, <3>2 DEF Next, Main, Job, Pool
    <3> QED
      BY <3>3 DEF vars, history, ReturnContext, TriggerBgFlush, MergeEnds
  <2> QED
    BY <2>1, <2>2 DEF ResultInv, Root
<1> QED
  BY <1>1, <1>2

LEMMA CountInit == Init => OnceInv /\ CountInv /\ ResultInv
BY CreatedKeys DEF Init, OnceInv, CountInv, Counting, LevelCounts, SavedCounts, RootCounts, ResultInv, InLevel

LEMMA CountAlways == Spec => [](SolverInv /\ PlayInv /\ RecordInv /\ OnceInv /\ CountInv /\ ResultInv)
<1>1. Init => SolverInv /\ PlayInv /\ RecordInv /\ OnceInv /\ CountInv /\ ResultInv
  BY SolverInit, PlayInit, RecordInit, CountInit
<1>2. /\ SolverInv /\ PlayInv /\ RecordInv /\ OnceInv /\ CountInv /\ ResultInv /\ [Next]_vars
      => (SolverInv /\ PlayInv /\ RecordInv /\ OnceInv /\ CountInv /\ ResultInv)'
  BY SolverStep, PlayStep, RecordStep, OnceStep, CountStep, ResultStep
<1> QED
  BY <1>1, <1>2, PTL DEF Spec

(* Whatever the game, the order of the threads and of the merges, and       *)
(* however often the process dies and is resumed, the result reported is    *)
(* the number of games that end each way, counted by the rules: a run never *)
(* resumed reports it exactly and a resumed one no less, unless a pass      *)
(* child's record was read in parts or a store was opened whose files a     *)
(* merge had replaced (OthelloSolverCommandLine.cpp, WorkerProcessBatch and *)
(* the back-propagation).                                                   *)
THEOREM ResultAlwaysExact == Spec => []ResultExact
<1>1. ResultInv => ResultExact
  BY DEF ResultInv, ResultExact, Counts, AtLeast
<1> QED
  BY <1>1, CountAlways, PTL
=============================================================================
