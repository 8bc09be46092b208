------------------------- MODULE CommandLineSolver -------------------------
(***************************************************************************)
(* The command-line solver: a breadth-first sweep over the levels of the    *)
(* game with worker threads, one board store and one move store per level,  *)
(* then the wins are carried back from the last level to the first board.   *)
(* Stores are opened in a sliding window on a pool of arenas, checkpointed  *)
(* level by level, and a restart resumes at the last checkpointed level.    *)
(*                                                                         *)
(* A board is a number, its place in the order of the keys; the game is     *)
(* given by its edges.  A board store is kept as the solver sees it: the    *)
(* tree in memory, the tree being merged, the files, and what the manifest  *)
(* names.  A record of wins is <<black, white, ties>>.                      *)
(***************************************************************************)
EXTENDS Naturals, Sequences, FiniteSets, FiniteSetsExt

CONSTANTS maxLevel,       \* the last level a board of this size can have
          Boards,         \* numbers
          LevelOf,        \* the pieces on a board, less those of the first
          Edges,          \* [from, idx, to, pass, flip]: a move of the kernel
          Outcome,        \* the wins of a board on which nobody can move
          Workers, batchSize, arenaPoolSize,
          MaxCrashes,     \* bound: how often the process dies
          MaxFlushes      \* bound: how often a tree fills up

Root == CHOOSE b \in Boards : LevelOf[b] = 0

(* Every move but a pass leads to a board with a piece more, and every board *)
(* is reached in play from the first one.                                   *)
ASSUME GameAssumption ==
  /\ IsFiniteSet(Boards) /\ Boards \subseteq Nat /\ maxLevel \in Nat
  /\ LevelOf \in [Boards -> 0..maxLevel] /\ \E b \in Boards : LevelOf[b] = 0
  /\ \A e \in Edges : /\ e.from \in Boards /\ e.to \in Boards /\ e.pass \in BOOLEAN
                      /\ LevelOf[e.to] = LevelOf[e.from] + (IF e.pass THEN 0 ELSE 1)
ASSUME PlayAssumption ==
  \A played \in SUBSET Boards :
    Root \in played /\ (\A e \in Edges : e.from \in played => e.to \in played) => played = Boards
(* A pass leads to a board that has moves; where nobody can move, the board *)
(* counts for the player who won it.                                        *)
ASSUME OutcomeAssumption ==
  /\ IsFiniteSet(Edges)
  /\ \A e \in Edges : e.flip \in BOOLEAN
  /\ \A e \in Edges : e.pass => /\ \E d \in Edges : d.from = e.to
                                /\ \A d \in Edges : d.from = e.to => ~d.pass
  /\ \A b \in Boards : (\A e \in Edges : e.from # b) => Outcome[b] \in [1..3 -> Nat]
ASSUME SolverAssumption == batchSize \in Nat \ {0} /\ arenaPoolSize \in Nat /\ arenaPoolSize >= 3

VARIABLES board,          \* g_tieredBoardStores and their directories
          moves,          \* g_tieredMoveStores and their directories
          boardArena,     \* the levels that hold an arena of the pool
          moveArena,
          pc, level, deepestLevel,
          toRead,         \* boards still to dispatch, of the iterator or of the passes
          newBoards,      \* whether the level has written a child
          passQueue,
          worker,         \* what the job of each thread still inserts
          left,           \* edges the iterators of the back-propagation have not returned
          sentinel,       \* backprop.done exists
          result,         \* the root's wins as reported
          crashes, flushes,
          redone,         \* history: a restart has resumed this run
          split,          \* history: a pass child was found in parts
          lost            \* history: a store was opened whose files a merge had replaced

stores == <<board, moves, boardArena, moveArena>>
sweep == <<toRead, newBoards, passQueue, worker>>
history == <<crashes, flushes, redone, split, lost>>
vars == <<stores, pc, level, deepestLevel, sweep, left, sentinel, result, history>>

Levels == 0..maxLevel
Out(b) == {e \in Edges : e.from = b}
Terminal(b) == Out(b) = {}
Zero == <<0, 0, 0>>
None == << >>
Empty == [b \in {} |-> Zero]
Add(v, w) == [i \in 1..3 |-> v[i] + w[i]]

Put(records, b, delta) ==
  [c \in DOMAIN records \cup {b} |->
     IF c # b THEN records[c] ELSE IF b \in DOMAIN records THEN Add(records[b], delta) ELSE delta]
(* BoardWinsMergeFn: records of one board in the tree and in a file. *)
Merge(tree, files) ==
  [c \in DOMAIN tree \cup DOMAIN files |->
     IF c \notin DOMAIN tree THEN files[c] ELSE IF c \in DOMAIN files THEN Add(files[c], tree[c]) ELSE tree[c]]

NoBoards == [open |-> FALSE, mem |-> Empty, bg |-> Empty, files |-> Empty,
             saved |-> Empty, named |-> FALSE, worn |-> FALSE]
NoMoves == [open |-> FALSE, edges |-> {}, saved |-> {}, named |-> FALSE]
Contents(s) == Merge(s.mem, Merge(s.bg, s.files))
Idle == [ctx |-> FALSE, counted |-> FALSE, ops |-> {}]
-----------------------------------------------------------------------------
(* The stores.  An arena is free while no level holds it. *)
FreeArena(held) == Cardinality(held) < arenaPoolSize

CreatedBoards == [NoBoards EXCEPT !.open = TRUE]
CreatedMoves == [NoMoves EXCEPT !.open = TRUE]
(* TSOpen reads the manifest; a file that a merge has replaced since is gone. *)
OpenedBoards(s) == [s EXCEPT !.open = TRUE, !.files = IF s.worn THEN Empty ELSE s.saved]
OpenedMoves(s) == [s EXCEPT !.open = TRUE, !.edges = s.saved]
ClosedBoards(s) == [s EXCEPT !.open = FALSE, !.mem = Empty, !.bg = Empty, !.files = Empty]
ClosedMoves(s) == [s EXCEPT !.open = FALSE, !.edges = {}]

(* Flush what is in memory; a tree that is being merged was waited for. *)
Flushed(s) == [s EXCEPT !.files = Contents(s), !.mem = Empty,
                        !.worn = s.named /\ (s.worn \/ DOMAIN s.mem # {})]
Checkpointed(s) == [Flushed(s) EXCEPT !.saved = Contents(s), !.named = TRUE, !.worn = FALSE]
Recorded(s, e) == [s EXCEPT !.edges = @ \cup {e}]
NamedMoves(s) == [s EXCEPT !.saved = s.edges, !.named = TRUE]
Quiet(l) == board[l].bg = Empty

(* A slip: the arena stays with the level. *)
Release_Forgotten(held, l) == held
Release(held, l) == held \ {l}

Inserted(s, b, delta) == [s EXCEPT !.mem = Put(@, b, delta)]
TSInsert(l, b, delta) == board' = [board EXCEPT ![l] = Inserted(@, b, delta)]

(* TSFind returns the record of the first tier that has one. *)
Tiers(s) == <<s.mem, s.bg, s.files>>
FoundIn(s, b) == {i \in 1..3 : b \in DOMAIN Tiers(s)[i]}
TSFind(s, b) == Tiers(s)[Min(FoundIn(s, b))][b]

(* A tree fills up: the next insert hands it to the background merge. *)
Filled(s) == [s EXCEPT !.bg = s.mem, !.mem = Empty]
Merged(s) == [s EXCEPT !.files = Merge(s.bg, @), !.bg = Empty, !.worn = s.named]
TriggerBgFlush(l) ==
  /\ flushes < MaxFlushes /\ board[l].open /\ DOMAIN board[l].mem # {} /\ Quiet(l)
  /\ board' = [board EXCEPT ![l] = Filled(@)]
  /\ flushes' = flushes + 1
  /\ UNCHANGED <<moves, boardArena, moveArena, pc, level, deepestLevel, sweep, left, sentinel,
                 result, crashes, redone, split, lost>>
MergeEnds(l) ==
  /\ board[l].open /\ ~Quiet(l)
  /\ board' = [board EXCEPT ![l] = Merged(@)]
  /\ UNCHANGED <<moves, boardArena, moveArena, pc, level, deepestLevel, sweep, left, sentinel,
                 result, history>>
-----------------------------------------------------------------------------
Reset ==
  /\ toRead' = << >> /\ newBoards' = FALSE /\ passQueue' = << >> /\ left' = {}
  /\ worker' = [w \in Workers |-> Idle]

Init ==
  /\ board = [l \in Levels |-> NoBoards] /\ moves = [l \in Levels |-> NoMoves]
  /\ boardArena = {} /\ moveArena = {}
  /\ pc = "down" /\ level = 0 /\ deepestLevel = 0
  /\ toRead = << >> /\ newBoards = FALSE /\ passQueue = << >> /\ left = {}
  /\ worker = [w \in Workers |-> Idle]
  /\ sentinel = FALSE /\ result = None
  /\ crashes = 0 /\ flushes = 0 /\ redone = FALSE /\ split = FALSE /\ lost = FALSE

(* doRestartProcess: the last level up to which both manifests exist. *)
Whole(l) == \A i \in 0..l : board[i].named /\ moves[i].named
LastWhole(l) == Whole(l) /\ (l < maxLevel => ~Whole(l + 1))

(* A new run, or a restart that finds no checkpointed level: a directory of *)
(* its own, and the first board in the store of level 0.                    *)
doStartProcess ==
  /\ pc = "down" /\ ~sentinel /\ ~Whole(0)
  /\ board' = [[l \in Levels |-> NoBoards] EXCEPT ![0] = [CreatedBoards EXCEPT !.mem = Put(Empty, Root, Zero)]]
  /\ moves' = [l \in Levels |-> NoMoves]
  /\ boardArena' = {0} /\ moveArena' = {}
  /\ pc' = "level" /\ level' = 0 /\ deepestLevel' = 0
  /\ redone' = FALSE /\ lost' = FALSE /\ split' = FALSE
  /\ Reset
  /\ UNCHANGED <<sentinel, result, crashes, flushes>>

doRestartProcess == \E resumeFromLevel \in Levels :
  /\ pc = "down" /\ ~sentinel /\ LastWhole(resumeFromLevel)
  /\ board' = [board EXCEPT ![resumeFromLevel] = OpenedBoards(@)]
  /\ boardArena' = {resumeFromLevel}
  /\ pc' = "level" /\ level' = resumeFromLevel /\ deepestLevel' = resumeFromLevel
  /\ redone' = TRUE /\ lost' = (lost \/ board[resumeFromLevel].worn)
  /\ UNCHANGED <<moves, moveArena, sweep, left, sentinel, result, crashes, flushes, split>>

AlreadyComplete ==
  /\ pc = "down" /\ sentinel
  /\ pc' = "done"
  /\ UNCHANGED <<stores, level, deepestLevel, sweep, left, sentinel, result, history>>
-----------------------------------------------------------------------------
(* The boards in the order of the keys: a set with one element. *)
Ascending(boards) ==
  {s \in [1..Cardinality(boards) -> boards] : \A i, j \in DOMAIN s : i < j => s[i] < s[j]}

(* A level begins: the stores it writes are created anew, and the iterator  *)
(* over its boards is opened.                                               *)
StartLevel ==
  /\ pc = "level" /\ Quiet(level)
  /\ IF ~FreeArena(moveArena) \/ (level < maxLevel /\ ~FreeArena(boardArena))
       THEN pc' = "failed" /\ UNCHANGED <<stores, level, deepestLevel, sweep>>
       ELSE /\ pc' = "sweep" /\ deepestLevel' = level
            /\ moves' = [moves EXCEPT ![level] = CreatedMoves]
            /\ moveArena' = moveArena \cup {level}
            /\ board' = [l \in Levels |-> IF l = level THEN Flushed(board[l])
                                          ELSE IF l = level + 1 THEN CreatedBoards ELSE board[l]]
            /\ boardArena' = boardArena \cup ({level + 1} \cap Levels)
            /\ toRead' \in Ascending(DOMAIN Contents(board[level]))
            /\ newBoards' = FALSE
            /\ UNCHANGED <<level, passQueue, worker>>
  /\ UNCHANGED <<left, sentinel, result, history>>

(* What WorkerProcessBatch inserts for a batch; n is the place of the board  *)
(* in it.  First come the wins of the terminal boards; then, board by board *)
(* and move by move, the child and after it the move.                       *)
Terminals(batch) ==
  {[kind |-> "terminal", n |-> n, board |-> batch[n]] : n \in {i \in DOMAIN batch : Terminal(batch[i])}}
EdgeOps(batch, n) == [kind : {"board", "move"}, n : {n}, edge : Out(batch[n])]
Inserts(batch) == Terminals(batch) \cup UNION {EdgeOps(batch, n) : n \in DOMAIN batch}
Before(p, q) ==
  IF p.kind = "terminal" \/ q.kind = "terminal"
    THEN p.kind = "terminal" /\ (q.kind = "terminal" => p.n < q.n)
    ELSE \/ p.n < q.n
         \/ p.n = q.n /\ p.edge.idx < q.edge.idx
         \/ p.n = q.n /\ p.edge = q.edge /\ p.kind = "board" /\ q.kind = "move"

(* The next batch of the iterator, or of the passes, to a free context. *)
Dispatch(w) ==
  /\ pc = "sweep" /\ toRead # << >> /\ ~worker[w].ctx
  /\ LET got == IF Len(toRead) < batchSize THEN Len(toRead) ELSE batchSize
     IN  /\ worker' = [worker EXCEPT ![w] =
                         [ctx |-> TRUE, counted |-> TRUE, ops |-> Inserts(SubSeq(toRead, 1, got))]]
         /\ toRead' = SubSeq(toRead, got + 1, Len(toRead))
  /\ UNCHANGED <<stores, pc, level, deepestLevel, newBoards, passQueue, left, sentinel, result, history>>

(* One insert of a job. *)
WorkerProcessBatch(w) == \E op \in worker[w].ops :
  /\ \A other \in worker[w].ops \ {op} : Before(op, other)
  /\ worker' = [worker EXCEPT ![w].ops = @ \ {op}]
  /\ \/ /\ op.kind = "terminal"
        /\ TSInsert(level, op.board, Outcome[op.board])
        /\ UNCHANGED <<moves, newBoards, passQueue>>
     \/ /\ op.kind = "board"
        /\ TSInsert(IF op.edge.pass THEN level ELSE level + 1, op.edge.to, Zero)
        /\ newBoards' = (newBoards \/ ~op.edge.pass)
        /\ passQueue' = IF op.edge.pass THEN Append(passQueue, op.edge.to) ELSE passQueue
        /\ UNCHANGED moves
     \/ /\ op.kind = "move"
        /\ moves' = [moves EXCEPT ![level] = Recorded(@, op.edge)]
        /\ UNCHANGED <<board, newBoards, passQueue>>
  /\ UNCHANGED <<boardArena, moveArena, pc, level, deepestLevel, toRead, left, sentinel, result, history>>
(* The count goes down at the end of the job, the context returns after it. *)
Counted(w) ==
  /\ worker[w].counted /\ worker[w].ops = {}
  /\ worker' = [worker EXCEPT ![w].counted = FALSE]
  /\ UNCHANGED <<stores, pc, level, deepestLevel, toRead, newBoards, passQueue, left, sentinel, result, history>>
ReturnContext(w) ==
  /\ worker[w].ctx /\ ~worker[w].counted
  /\ worker' = [worker EXCEPT ![w].ctx = FALSE]
  /\ UNCHANGED <<stores, pc, level, deepestLevel, toRead, newBoards, passQueue, left, sentinel, result, history>>

(* A slip: the level is taken for finished once it is read. *)
NoneActive_Read == toRead = << >>
NoneActive == \A w \in Workers : ~worker[w].counted
(* A slip: the passes are not expanded. *)
Passes_None == << >>
(* A slip: the queue is copied, not swapped. *)
Emptied_Kept == passQueue
Passes == passQueue
Emptied == << >>

(* All jobs are done: expand the passes they found, or end the level. *)
Drain ==
  /\ pc = "sweep" /\ toRead = << >> /\ NoneActive
  /\ toRead' = Passes /\ passQueue' = Emptied
  /\ pc' = IF Passes = << >> THEN "board" ELSE "sweep"
  /\ UNCHANGED <<stores, level, deepestLevel, newBoards, worker, left, sentinel, result, history>>

(* The checkpoints of a level, one after the other. *)
CheckpointBoards ==
  /\ pc = "board" /\ Quiet(level)
  /\ board' = [board EXCEPT ![level] = Checkpointed(@)]
  /\ pc' = "moves"
  /\ UNCHANGED <<moves, boardArena, moveArena, level, deepestLevel, sweep, left, sentinel, result, history>>
CheckpointMoves ==
  /\ pc = "moves"
  /\ moves' = [moves EXCEPT ![level] = NamedMoves(@)]
  /\ pc' = "next"
  /\ UNCHANGED <<board, boardArena, moveArena, level, deepestLevel, sweep, left, sentinel, result, history>>

(* The next level's store is checkpointed, this level's are closed; without *)
(* a new board the next level's is closed as well and the sweep ends.       *)
EndLevel ==
  /\ pc = "next" /\ (level < maxLevel => Quiet(level + 1))
  /\ LET last == ~newBoards \/ level = maxLevel
         After(l) == CASE l = level -> ClosedBoards(board[l])
                       [] l = level + 1 -> IF newBoards THEN Checkpointed(board[l])
                                           ELSE ClosedBoards(Checkpointed(board[l]))
                       [] OTHER -> board[l]
     IN  /\ board' = [l \in Levels |-> After(l)]
         /\ boardArena' = IF newBoards THEN Release(boardArena, level)
                          ELSE Release(Release(boardArena, level), level + 1)
         /\ level' = IF last THEN level ELSE level + 1
         /\ pc' = IF last THEN "open" ELSE "level"
  /\ moves' = [moves EXCEPT ![level] = ClosedMoves(@)]
  /\ moveArena' = Release(moveArena, level)
  /\ UNCHANGED <<deepestLevel, sweep, left, sentinel, result, history>>
-----------------------------------------------------------------------------
(* Back-propagation, from deepestLevel to 0. *)
OpenMoves(l) ==
  /\ moves' = [moves EXCEPT ![l] = OpenedMoves(@)]
  /\ moveArena' = moveArena \cup {l}
  /\ left' = moves[l].saved

StartBackPropagation ==
  /\ pc = "open"
  /\ LET opened == {deepestLevel, deepestLevel + 1} \cap Levels
     IN  IF Cardinality(boardArena \cup opened) > arenaPoolSize \/ ~FreeArena(moveArena)
           THEN pc' = "failed" /\ UNCHANGED <<stores, left, lost>>
           ELSE /\ lost' = (lost \/ \E l \in opened : board[l].worn)
                /\ board' = [l \in Levels |-> IF l \in opened THEN OpenedBoards(board[l]) ELSE board[l]]
                /\ boardArena' = boardArena \cup opened
                /\ OpenMoves(deepestLevel)
                /\ pc' = "back"
  /\ level' = deepestLevel
  /\ UNCHANGED <<deepestLevel, sweep, sentinel, result, crashes, flushes, redone, split>>

KeyLess(d, e) == d.from < e.from \/ (d.from = e.from /\ d.idx < e.idx)
First(edges) == {e \in edges : \A d \in edges \ {e} : KeyLess(e, d)}
(* A slip: one pass over the edges, in the order of their keys. *)
NextEdge_OnePass(edges) == First(edges)
(* The first pass takes the moves, the second the passes. *)
NextEdge(edges) ==
  LET placed == {e \in edges : ~e.pass} IN First(IF placed # {} THEN placed ELSE edges)

Swapped(e, wins) == IF e.flip THEN <<wins[2], wins[1], wins[3]>> ELSE wins

CarryBack == \E e \in NextEdge(left) :
  /\ pc = "back"
  /\ LET from == board[IF e.pass THEN level ELSE level + 1]
     IN  IF FoundIn(from, e.to) = {}
           THEN pc' = "failed" /\ UNCHANGED <<board, left, split>>
           ELSE /\ TSInsert(level, e.from, Swapped(e, TSFind(from, e.to)))
                /\ split' = (split \/ TSFind(from, e.to) # Contents(from)[e.to])
                /\ left' = left \ {e}
                /\ UNCHANGED pc
  /\ UNCHANGED <<moves, boardArena, moveArena, level, deepestLevel, sweep, sentinel, result,
                 crashes, flushes, redone, lost>>

(* The level is complete: it is checkpointed, the window slides down. *)
BackPropLevelComplete ==
  /\ pc = "back" /\ left = {} /\ Quiet(level)
  /\ LET held == IF level < maxLevel THEN Release(boardArena, level + 1) ELSE boardArena
         After(l) == CASE l = level -> IF level > 0 THEN Checkpointed(board[l])
                                       ELSE ClosedBoards(Checkpointed(board[l]))
                       [] l = level + 1 -> ClosedBoards(board[l])
                       [] l = level - 1 -> OpenedBoards(board[l])
                       [] OTHER -> board[l]
     IN  IF level > 0
           THEN IF FreeArena(held) /\ FreeArena(Release(moveArena, level))
                  THEN /\ board' = [l \in Levels |-> After(l)]
                       /\ lost' = (lost \/ board[level - 1].worn)
                       /\ boardArena' = held \cup {level - 1}
                       /\ moves' = [moves EXCEPT ![level] = ClosedMoves(@), ![level - 1] = OpenedMoves(@)]
                       /\ moveArena' = Release(moveArena, level) \cup {level - 1}
                       /\ left' = moves[level - 1].saved
                       /\ level' = level - 1 /\ UNCHANGED pc
                  ELSE pc' = "failed" /\ UNCHANGED <<stores, left, level, lost>>
           ELSE /\ board' = [l \in Levels |-> After(l)]
                /\ boardArena' = Release(held, 0)
                /\ moves' = [moves EXCEPT ![0] = ClosedMoves(@)]
                /\ moveArena' = Release(moveArena, 0)
                /\ pc' = "sentinel" /\ UNCHANGED <<left, level, lost>>
  /\ UNCHANGED <<deepestLevel, sweep, sentinel, result, crashes, flushes, redone, split>>

WriteBackpropSentinel ==
  /\ pc = "sentinel"
  /\ sentinel' = TRUE /\ pc' = "report"
  /\ UNCHANGED <<stores, level, deepestLevel, sweep, left, result, history>>

(* The first board's store is opened for a moment and read. *)
Report ==
  /\ pc = "report"
  /\ IF FreeArena(boardArena)
       THEN /\ result' = IF Root \in DOMAIN OpenedBoards(board[0]).files
                           THEN OpenedBoards(board[0]).files[Root] ELSE Zero
            /\ pc' = "done"
       ELSE pc' = "failed" /\ UNCHANGED result
  /\ UNCHANGED <<stores, level, deepestLevel, sweep, left, sentinel, history>>

(* The process dies: what is in memory is gone. *)
Crash ==
  /\ crashes < MaxCrashes /\ pc \notin {"down", "done", "failed"}
  /\ board' = [l \in Levels |-> ClosedBoards(board[l])]
  /\ moves' = [l \in Levels |-> ClosedMoves(moves[l])]
  /\ boardArena' = {} /\ moveArena' = {}
  /\ Reset
  /\ pc' = "down" /\ crashes' = crashes + 1
  /\ UNCHANGED <<level, deepestLevel, sentinel, result, flushes, redone, split, lost>>
-----------------------------------------------------------------------------
Main ==
  \/ doStartProcess \/ doRestartProcess \/ AlreadyComplete
  \/ StartLevel \/ (\E w \in Workers : Dispatch(w)) \/ Drain
  \/ CheckpointBoards \/ CheckpointMoves \/ EndLevel
  \/ StartBackPropagation \/ CarryBack \/ BackPropLevelComplete
  \/ WriteBackpropSentinel \/ Report
Job(w) == WorkerProcessBatch(w) \/ Counted(w) \/ ReturnContext(w)
Pool == \E l \in Levels : MergeEnds(l)

Next ==
  \/ Main \/ (\E w \in Workers : Job(w)) \/ Pool
  \/ (\E l \in Levels : TriggerBgFlush(l)) \/ Crash

(* The threads run; nobody owes a full tree or a crash. *)
Spec ==
  /\ Init /\ [][Next]_vars
  /\ WF_vars(Main) /\ (\A w \in Workers : WF_vars(Job(w))) /\ WF_vars(Pool)
=============================================================================
