--------------------------- MODULE BPlusTreeProps ---------------------------
(***************************************************************************)
(* What the B+ tree must keep while its threads interleave.                *)
(***************************************************************************)
EXTENDS BPlusTree, BPIntegrity

Keys == UNION {ToSet(node[n].data) : n \in {m \in DOMAIN node : node[m].leaf}}

-----------------------------------------------------------------------------
(* The abstract specification.                                             *)

NoAnswer == [kind |-> "none", key |-> 0, rc |-> "none", found |-> 0]

Answers ==
  [t \in Thread |->
     IF op[t].pc # "done" THEN NoAnswer
     ELSE [kind |-> op[t].kind, key |-> op[t].key, rc |-> op[t].rc, found |-> op[t].found]]

Set == INSTANCE OrderedSet WITH set <- Keys, ans <- Answers

\* Calls of several threads, each of which walks the tree latch by latch, give
\* the answers of an ordered set whose calls take effect one at a time: no
\* insert is lost in a split, no search misses a key that moved to a sibling.
ImplementsSet == [][Set!Next]_<<Keys, Answers>>

\* No node but the root is left below the minimum, none goes beyond the
\* maximum, and a merge frees exactly the node it unlinks: splitting full nodes
\* and repairing poor ones on the way down never has to go back up.
Balanced ==
  LET levels == Levels(node, root) IN
  /\ DOMAIN node = UNION {ToSet(levels[i]) : i \in DOMAIN levels}
  /\ \A n \in DOMAIN node :
       /\ Len(node[n].data) <= MaxKeys
       /\ n # root => Len(node[n].data) >= MinKeys
       /\ ~node[n].leaf => Len(node[n].child) = Len(node[n].data) + 1

\* The library's own check of the tree (BPIntegrityCheck) succeeds whenever no
\* restructuring is half done: links both ways, order, depth, parents, and
\* every separator is a key of a leaf, so that no key node points to a record
\* that a delete has freed.  And every node is filled as it must be.
IntegrityHolds == BPIntegrityCheck(node, root, depth) /\ Balanced

Uncounted(t) == op[t].pc = "done" /\ op[t].kind = "delete" /\ op[t].rc = "Success"

\* The three calls of Fatal are never reached: stDataCnt is the number of keys
\* and of deletes that are not counted yet, so it is not decremented at 0; a
\* split finds no key equal to its separator in the parent; and a merge leaves
\* no key node empty but a root whose tree's latch the thread holds.
NeverFatal ==
  /\ count = Cardinality(Keys) + Cardinality({t \in Thread : Uncounted(t)})
  /\ \A t \in Thread :
       /\ op[t].pc = "split" => ~Holds(node, op[t].at, PushedUp(node, Next1(t)))
       /\ op[t].pc = "repair" /\ Repaired(node, op[t].at, Slot1(t))[op[t].at].data = <<>>
            => op[t].at = root /\ t \in latch[Tree].w

Held(t) == {l \in DOMAIN latch : t \in latch[l].w \cup latch[l].r}

\* Between two calls, before a retry and with the answer in hand a thread has
\* no node; the tree's latch it has while it waits for the root or, after a
\* delete from a root that is a leaf, until it returns.
OffTree(t) == op[t].pc \in {"idle", "retry", "root", "done"}

\* The latches such a thread has nevertheless: what a delete gave up too early.
Kept == {l \in DOMAIN latch : l # Tree /\ \E t \in Thread : OffTree(t) /\ l \in Held(t)}

\* A thread that is not in the tree holds nothing but, after a delete that gave
\* up, the write latch of a key node: every other way out of every call, the
\* early returns included, gives back all the latches it took on its way.
OnlyKeyNodesKept ==
  /\ \A l \in Kept : ~node[l].leaf /\ latch[l].w # {}
  /\ \A t \in Thread : op[t].pc \in {"idle", "retry"} => Tree \notin Held(t)

\* That holds, and while no latch was kept that way, some call in progress can take a step:
\* latches taken downwards and to the right, and those against that order only
\* tried, never wait in a circle.
NoStuck ==
  /\ OnlyKeyNodesKept
  /\ \/ Kept # {}
     \/ \A t \in Thread : op[t].pc = "idle"
     \/ \E t \in Thread : op[t].pc # "idle" /\ ENABLED Step(t)

\* The keys an iterator has still to give: those beyond the last it gave or,
\* before the first, from its start key on; but a key put in the leaf that
\* BPIterateStartFrom stepped over is behind it.
Ahead(t) ==
  LET l == node[op[t].at].left IN
  IF op[t].found # 0 THEN {k \in Keys : k > op[t].found}
  ELSE {k \in Keys : k >= op[t].key /\ (l # Nil => ~Holds(node, l, k))}

\* An iterator steps to the least key of the tree that it has not passed, and
\* ends, or is done when it is started, only if there is none, whatever other
\* threads did behind and before it.
ScanExact ==
  [][\A t \in Thread :
       op[t].kind = "scan" /\ op'[t] # op[t]
         => /\ op'[t].pc = "done" => Ahead(t) = {}
            /\ op[t].pc = "open" /\ op'[t].pc = "open"
                 => op'[t].found = Set!Least(Ahead(t))]_vars

\* The start keys of a level are keys of the tree in order, none of them the
\* least, and fewer than the jobs asked for: no slice that a flush writes
\* between two of them is empty, and none is one too many.
LevelCutsSound ==
  \A target \in 1..4 :
    LET s == BPGetLevelStartKeys(node, root, target) IN
    /\ Increasing(s)
    /\ ToSet(s) \subseteq Keys \ {Set!Least(Keys)}
    /\ Len(s) < target
=============================================================================
