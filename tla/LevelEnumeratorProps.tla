------------------------ MODULE LevelEnumeratorProps ------------------------
(* What OthelloLevelEnumerator owes whoever reads its merged levels. *)
EXTENDS LevelEnumerator

\* The boards of level n.
Reach[n \in Nat] == IF n = 0 THEN {Root} ELSE UNION {Kids[b] : b \in Reach[n - 1]}

\* A level whose registry is saved holds every board of the next level and no
\* other, whatever merges failed and whatever restarts came before, unless a process
\* ended while files held a part of a level.
LevelExact ==
  ~unsafe => \A l \in DOMAIN meta : Boards(meta[l]) = Reach[l + 1]

\* The boards the merge phase will get: files in the registries, and what a
\* merge or a migration has in its hands.
Held ==
  Boards(solveReg \cup runReg \cup flush.temps \cup flush.left
         \cup (IF flush.stage \in {"del", "record"} THEN {flush.out} ELSE {})
         \cup (IF move.stage = "delete" THEN {move.to} ELSE {}))
  \cup pipe.acc \cup (IF job = NoJob THEN {} ELSE job.boards)

\* No board that was expanded is lost on its way to the merge, and when the
\* merge begins every file that it is to read exists: after stops that left no part
\* of a level, and as long as no merge failed that had deleted sources already.
NothingLost ==
  ~unsafe /\ ~cut =>
    /\ ~shutdown /\ main.pc \in {"solve", "drain", "merge"}
         => UNION {Kids[b] : b \in Boards(main.current) \ pipe.todo} \subseteq Held
    /\ At("merge") => Sources \subseteq DOMAIN disk

\* The files a level is read from stay, so that an interrupted level can be
\* solved anew, and so do those a saved registry names: the merge, the flushes
\* and the migration remove only what the level has written itself.
InputsKept ==
  /\ Running => main.current \subseteq DOMAIN disk
  /\ \A l \in DOMAIN meta : meta[l] \subseteq DOMAIN disk

\* A restart finds the registry of the level the config file names.
RestartFindsLevel == config >= 0 => config \in DOMAIN meta

\* A run comes to an end: no thread waits for another for ever.
RunEnds == Running ~> ~Running

=============================================================================
