----------------------------- MODULE BPlusTree ------------------------------
(***************************************************************************)
(* The B+ tree (BPlusTreeHybrid) used by several threads.  A call descends *)
(* from the root hand over hand: it holds a latch on a node until it has   *)
(* the next one's.  An action is the work between two latches it waits     *)
(* for, so that calls interleave wherever the code may block.              *)
(*                                                                         *)
(* rwIdxLock guards root, depth and count for single statements and is not *)
(* modelled.  Malloc mode: MaxData is stMaxDataCnt.  Allocation succeeds.  *)
(***************************************************************************)
EXTENDS BPNodes, TLC

CONSTANTS
  Thread,
  MaxKey,          \* keys are 1..MaxKey
  MaxData,
  MaxRetries,      \* MAX_RETRIES of BPDeleteDataItem and BPFindLessThanKey
  Call             \* the calls a thread may make

VARIABLES
  node,            \* allocated nodes
  root, depth, count,
  latch,           \* latch[n]: the threads that hold it to write and to read
  op               \* what each thread is doing

vars == <<node, root, depth, count, latch, op>>

Tree == 0          \* rwTreeLock, beside the nodes' latches

Kind == {"insert", "delete", "find", "update", "gt", "ge", "lt", "le", "scan"}

ASSUME BPlusTreeAssumption ==
  /\ MaxKey \in Nat /\ MaxData \in Nat /\ MaxRetries \in Nat \ {0}
  /\ \A t \in Thread : Call[t] \subseteq [kind : Kind, key : 0..(MaxKey + 1)]

\* An idle thread; a call's fields: its node, the key node found on the way,
\* the retries left, the position of a scan and the answer.
Idle == [pc |-> "idle", kind |-> "none", key |-> 0, at |-> Nil, top |-> Nil,
         tries |-> 0, pos |-> 0, rc |-> "none", found |-> 0]

Open == [w |-> {}, r |-> {}]

Writes(kind)  == kind \in {"insert", "delete"}
Available(l)  == latch[l].w = {} /\ latch[l].r = {}
Readable(l)   == latch[l].w = {}
CanLatch(write, l) == IF write THEN Available(l) ELSE Readable(l)

\* The latches L after thread t takes l, or gives up those in S.
Taken(L, t, write, l) ==
  [L EXCEPT ![l] = IF write THEN [@ EXCEPT !.w = {t}] ELSE [@ EXCEPT !.r = @ \cup {t}]]
Dropped(L, t, S) ==
  [l \in DOMAIN L |-> IF l \in S THEN [w |-> L[l].w \ {t}, r |-> L[l].r \ {t}] ELSE L[l]]

\* The latches of the nodes N: a new node's is open, a freed one's is gone.
For(L, N) == [l \in {Tree} \cup DOMAIN N |-> IF l \in DOMAIN L THEN L[l] ELSE Open]

Goto(t, pc)  == op' = [op EXCEPT ![t].pc = pc]
Visit(t, n, pc) == op' = [op EXCEPT ![t].pc = pc, ![t].at = n]
Answered(t, rc, k) == op' = [op EXCEPT ![t].pc = "done", ![t].rc = rc, ![t].found = k,
                                       ![t].at = Nil, ![t].top = Nil, ![t].tries = 0]

OpIs(t, pc, kinds) == op[t].pc = pc /\ op[t].kind \in kinds

\* A node whose latch t has: a leaf ends the descent.
Landed(n, ifLeaf, ifKey) == IF node[n].leaf THEN ifLeaf ELSE ifKey

-----------------------------------------------------------------------------
(* Entering the tree.                                                      *)

\* BPUpdate is the one call that writes a leaf and only reads key nodes.
WritesNode(kind, n) == Writes(kind) \/ (kind = "update" /\ node[n].leaf)

LockTree(t) ==
  /\ \/ /\ op[t].pc = "idle"
        /\ \E c \in Call[t] :
             /\ CanLatch(Writes(c.kind), Tree)
             /\ op' = [op EXCEPT ![t] = [Idle EXCEPT !.pc = "root", !.kind = c.kind,
                                         !.key = c.key, !.tries = MaxRetries]]
             /\ latch' = Taken(latch, t, Writes(c.kind), Tree)
     \/ /\ op[t].pc = "retry"
        /\ CanLatch(Writes(op[t].kind), Tree)
        /\ Goto(t, "root")
        /\ latch' = Taken(latch, t, Writes(op[t].kind), Tree)
  /\ UNCHANGED <<node, root, depth, count>>

\* A reader lets the tree go, an insert unless the root must be split first,
\* a delete only when the root is a key node that was dealt with.
LockRoot(t) ==
  LET w == WritesNode(op[t].kind, root)
      full == op[t].kind = "insert" /\ Len(node[root].data) = MaxKeys
  IN  /\ op[t].pc = "root"
      /\ CanLatch(w, root)
      /\ latch' = Dropped(Taken(latch, t, w, root), t,
                          IF full \/ op[t].kind = "delete" THEN {} ELSE {Tree})
      /\ Visit(t, root, CASE full                   -> "splitRoot"
                          [] op[t].kind = "delete"  -> Landed(root, "leaf", "left")
                          [] OTHER                  -> Landed(root, "leaf", "descend"))
      /\ UNCHANGED <<node, root, depth, count>>

\* The children that move are latched one by one to change their parent.
InsertSplitRoot(t) ==
  LET N == SplitRoot(node, root)
      r == CHOOSE n \in DOMAIN N : N[n].child # <<>> /\ N[n].child[1] = root
  IN  /\ op[t].pc = "splitRoot"
      /\ \A g \in ToSet(Moving(node, root)) : Available(g)
      /\ node' = N /\ root' = r /\ depth' = depth + 1
      /\ latch' = Taken(Dropped(For(latch, N), t, {root, Tree}), t, TRUE, r)
      /\ Visit(t, r, "descend")
      /\ UNCHANGED count

-----------------------------------------------------------------------------
(* Descent of an insert and of the calls that read.                        *)

Next1(t) == node[op[t].at].child[Child(node, op[t].at, op[t].key)]

\* A full child is split before the insert enters it.
Descend(t) ==
  LET c == Next1(t)
      w == WritesNode(op[t].kind, c)
      full == op[t].kind = "insert" /\ Len(node[c].data) = MaxKeys
  IN  /\ op[t].pc = "descend"
      /\ CanLatch(w, c)
      /\ latch' = Dropped(Taken(latch, t, w, c), t, IF full THEN {} ELSE {op[t].at})
      /\ IF full THEN Goto(t, "split") ELSE Visit(t, c, Landed(c, "leaf", "descend"))
      /\ UNCHANGED <<node, root, depth, count>>

InsertSplit(t) ==
  LET p == op[t].at
      c == Next1(t)
      N == SplitChild(node, p, c)
      e == IF op[t].key >= PushedUp(node, c) THEN Fresh(node) ELSE c
  IN  /\ op[t].pc = "split"
      /\ \A g \in ToSet(Moving(node, c)) \cup ({node[c].right} \ {Nil}) : Available(g)
      /\ node' = N
      /\ latch' = Taken(Dropped(For(latch, N), t, {p, c}), t, TRUE, e)
      /\ Visit(t, e, IF node[c].leaf THEN "leaf" ELSE "descend")
      /\ UNCHANGED <<root, depth, count>>

InsertLeaf(t) ==
  LET n == op[t].at
      k == op[t].key
  IN  /\ OpIs(t, "leaf", {"insert"})
      /\ latch' = Dropped(latch, t, {n})
      /\ \/ /\ Holds(node, n, k)
            /\ Answered(t, "Duplicate_Found", 0)
            /\ UNCHANGED <<node, count>>
         \/ /\ ~Holds(node, n, k) /\ count >= MaxData
            /\ Answered(t, "Tree_Full", 0)
            /\ UNCHANGED <<node, count>>
         \/ /\ ~Holds(node, n, k) /\ count < MaxData
            /\ node' = [node EXCEPT ![n].data = InsertAt(@, Slot(node, n, k), k)]
            /\ count' = count + 1
            /\ Answered(t, "Success", 0)
      /\ UNCHANGED <<root, depth>>

\* BPFindEqualKey and BPUpdate.
LookupLeaf(t) ==
  /\ OpIs(t, "leaf", {"find", "update"})
  /\ latch' = Dropped(latch, t, {op[t].at})
  /\ Answered(t, IF Holds(node, op[t].at, op[t].key) THEN "Success" ELSE "Not_Found", 0)
  /\ UNCHANGED <<node, root, depth, count>>

\* Where in its leaf a search or a scan begins; a search for keys below
\* counts down from there.
First(t) ==
  LET n == op[t].at IN
  CASE op[t].kind \in {"ge", "scan", "lt"} -> Slot(node, n, op[t].key)
    [] op[t].kind \in {"gt", "le"}         -> Child(node, n, op[t].key)

GreaterInLeaf(t) ==
  LET d == node[op[t].at].data IN
  /\ OpIs(t, "leaf", {"gt", "ge"})
  /\ latch' = Dropped(latch, t, {op[t].at})
  /\ IF First(t) > Len(d) THEN Answered(t, "Not_Found", 0) ELSE Answered(t, "Success", d[First(t)])
  /\ UNCHANGED <<node, root, depth, count>>

\* BPFindGreaterThanKey: behind the leaf's end the answer heads the next leaf.
GreaterLeaf(t) ==
  LET n == op[t].at
      d == node[n].data
  IN  /\ OpIs(t, "leaf", {"gt", "ge"})
      /\ IF First(t) > Len(d) /\ node[n].right # Nil /\ d # <<>>
         THEN Goto(t, "right") /\ UNCHANGED latch
         ELSE /\ latch' = Dropped(latch, t, {n})
              /\ IF First(t) > Len(d) THEN Answered(t, "Not_Found", 0)
                 ELSE Answered(t, "Success", d[First(t)])
      /\ UNCHANGED <<node, root, depth, count>>

GreaterRight(t) ==
  LET r == node[op[t].at].right IN
  /\ OpIs(t, "right", {"gt", "ge"})
  /\ Readable(r)
  /\ latch' = Dropped(latch, t, {op[t].at})
  /\ Answered(t, "Success", node[r].data[1])
  /\ UNCHANGED <<node, root, depth, count>>

\* BPFindLessThanKeyOnce: before the leaf's head the answer ends the leaf on
\* the left.  Its latch is against the order and only tried.
LessLeaf(t) ==
  LET n == op[t].at
      d == node[n].data
  IN  /\ OpIs(t, "leaf", {"lt", "le"})
      /\ IF d # <<>> /\ First(t) = 1 /\ node[n].left # Nil
         THEN Goto(t, "left") /\ UNCHANGED latch
         ELSE /\ latch' = Dropped(latch, t, {n})
              /\ IF d = <<>> \/ First(t) = 1 THEN Answered(t, "Not_Found", 0)
                 ELSE Answered(t, "Success", d[First(t) - 1])
      /\ UNCHANGED <<node, root, depth, count>>

LessLeft(t) ==
  LET l == node[op[t].at].left IN
  /\ OpIs(t, "left", {"lt", "le"})
  /\ Readable(l)
  /\ latch' = Dropped(latch, t, {op[t].at})
  /\ Answered(t, "Success", Last(node[l].data))
  /\ UNCHANGED <<node, root, depth, count>>

\* The holder kept the latch through all attempts of the try lock.
Again(t) ==
  IF op[t].tries > 1
  THEN op' = [op EXCEPT ![t] = [Idle EXCEPT !.pc = "retry", !.kind = op[t].kind,
                                !.key = op[t].key, !.tries = op[t].tries - 1]]
  ELSE Answered(t, "Deadlock_Prevention", 0)

LessGivesUp(t) ==
  /\ OpIs(t, "left", {"lt", "le"})
  /\ ~Readable(node[op[t].at].left)
  /\ latch' = Dropped(latch, t, {op[t].at})
  /\ Again(t)
  /\ UNCHANGED <<node, root, depth, count>>

-----------------------------------------------------------------------------
(* Iterators: BPIterateStart (key 0), BPIterateStartFrom, BPIterate and    *)
(* BPIterateStop.  The iterator keeps a latch on its leaf between calls.   *)

\* BPIterateStart on an empty tree and BPIterateStartFrom behind the last key
\* let their leaf go and leave an iterator that is done.
ScanLeaf(t) ==
  LET n == op[t].at
      past == First(t) > Len(node[n].data)
      next == op[t].key # 0 /\ node[n].right # Nil
  IN  /\ OpIs(t, "leaf", {"scan"})
      /\ \/ /\ ~past
            /\ op' = [op EXCEPT ![t].pc = "open", ![t].pos = First(t)]
            /\ UNCHANGED latch
         \/ /\ past /\ next
            /\ Goto(t, "right") /\ UNCHANGED latch
         \/ /\ past /\ ~next
            /\ latch' = Dropped(latch, t, {n})
            /\ Answered(t, "Success", 0)
      /\ UNCHANGED <<node, root, depth, count>>

ScanRight(t) ==
  LET r == node[op[t].at].right IN
  /\ OpIs(t, "right", {"scan"})
  /\ Readable(r)
  /\ latch' = Dropped(Taken(latch, t, FALSE, r), t, {op[t].at})
  /\ op' = [op EXCEPT ![t].pc = "open", ![t].at = r, ![t].pos = 1]
  /\ UNCHANGED <<node, root, depth, count>>

ScanNext(t) ==
  LET n == op[t].at
      r == node[n].right
  IN  /\ OpIs(t, "open", {"scan"})
      /\ \/ /\ op[t].pos <= Len(node[n].data)
            /\ op' = [op EXCEPT ![t].pos = @ + 1, ![t].found = node[n].data[op[t].pos]]
            /\ UNCHANGED latch
         \/ /\ op[t].pos > Len(node[n].data) /\ r # Nil
            /\ Readable(r)
            /\ latch' = Dropped(Taken(latch, t, FALSE, r), t, {n})
            /\ op' = [op EXCEPT ![t].at = r, ![t].pos = 2, ![t].found = node[r].data[1]]
         \/ /\ op[t].pos > Len(node[n].data) /\ r = Nil
            /\ latch' = Dropped(latch, t, {n})
            /\ Answered(t, "Success", 0)
      /\ UNCHANGED <<node, root, depth, count>>

ScanStop(t) ==
  /\ OpIs(t, "open", {"scan"})
  /\ latch' = Dropped(latch, t, {op[t].at})
  /\ op' = [op EXCEPT ![t] = Idle]
  /\ UNCHANGED <<node, root, depth, count>>

-----------------------------------------------------------------------------
(* BPDeleteProactiveRebalance: the child and its neighbours are latched    *)
(* from left to right, the child is repaired and entered.                  *)

Slot1(t) == Child(node, op[t].at, op[t].key)

DeleteLatchChild(t) ==
  LET n == node[op[t].at].child[Slot1(t)] IN
  /\ op[t].kind = "delete" /\ op[t].pc \in {"left", "child", "right"}
  /\ op[t].pc = "child" => Available(n)
  /\ latch' = IF op[t].pc = "child" THEN Taken(latch, t, TRUE, n) ELSE latch
  /\ Goto(t, CASE op[t].pc = "left"  -> "child"
               [] op[t].pc = "child" -> "right"
               [] OTHER              -> "repair")
  /\ UNCHANGED <<node, root, depth, count>>

DeleteLatch(t) ==
  LET p == op[t].at
      c == Slot1(t)
      l == CASE op[t].pc = "left"  -> c - 1
             [] op[t].pc = "child" -> c
             [] OTHER              -> c + 1
  IN  /\ op[t].kind = "delete" /\ op[t].pc \in {"left", "child", "right"}
      /\ \/ /\ l \in DOMAIN node[p].child
            /\ Available(node[p].child[l])
            /\ latch' = Taken(latch, t, TRUE, node[p].child[l])
         \/ /\ l \notin DOMAIN node[p].child
            /\ UNCHANGED latch
      /\ Goto(t, CASE op[t].pc = "left"  -> "child"
                   [] op[t].pc = "child" -> "right"
                   [] OTHER              -> "repair")
      /\ UNCHANGED <<node, root, depth, count>>

\* The children of p that t has latched.
Family(p, c) == {node[p].child[i] : i \in {c - 1, c, c + 1} \cap DOMAIN node[p].child}

DeleteRepair(t) ==
  LET p == op[t].at
      c == Slot1(t)
      k == op[t].key
      e == Entered(node, p, c)
      N == Repaired(node, p, c)
      top  == IF Holds(node, p, k) THEN p ELSE op[t].top
      kept == IF top = p /\ ~Holds(N, p, k) THEN Nil ELSE top
      gone == N[p].data = <<>>
      M == IF ~gone THEN N
           ELSE [n \in DOMAIN N \ {p} |-> IF n = e THEN [N[n] EXCEPT !.parent = Nil] ELSE N[n]]
  IN  /\ OpIs(t, "repair", {"delete"})
      /\ \A g \in Across(node, p, c) \cup Reparented(node, p, c) : Available(g)
      /\ node' = M
      /\ IF gone THEN root' = e /\ depth' = depth - 1 ELSE UNCHANGED <<root, depth>>
      /\ latch' = For(Dropped(latch, t, (Family(p, c) \ {e}) \cup {Tree}
                                          \cup (IF kept = p THEN {} ELSE {p})), M)
      /\ op' = [op EXCEPT ![t].at = e, ![t].top = kept,
                          ![t].pc = IF node[e].leaf THEN "leaf" ELSE "left"]
      /\ UNCHANGED count

DeleteWaits(t) == FALSE

\* The sibling under another parent is not to be had: every latch is given
\* back but that of a key node found further up.
DeleteGivesUp(t) ==
  LET p == op[t].at
      c == Slot1(t)
  IN  /\ OpIs(t, "repair", {"delete"})
      /\ \E g \in Across(node, p, c) : ~Available(g)
      /\ latch' = Dropped(latch, t, Family(p, c) \cup {Tree, p})
      /\ Again(t)
      /\ UNCHANGED <<node, root, depth, count>>

\* A delete from a root that is a leaf still holds the tree's latch.
DeleteLeaf(t) ==
  LET n == op[t].at
      k == op[t].key
      head == Holds(node, n, k) /\ Slot(node, n, k) = 1
  IN  /\ OpIs(t, "leaf", {"delete"})
      /\ latch' = Dropped(latch, t, {n} \cup (IF head THEN {op[t].top} ELSE {}))
      /\ node' = IF Holds(node, n, k) THEN RemoveKey(node, n, k, op[t].top) ELSE node
      /\ Answered(t, IF Holds(node, n, k) THEN "Success" ELSE "Not_Found", 0)
      /\ UNCHANGED <<root, depth, count>>

ReturnCounts(t) ==
  /\ op[t].pc = "done"
  /\ count' = IF op[t].kind = "delete" THEN count - 1 ELSE count
  /\ latch' = IF op[t].kind = "delete" THEN Dropped(latch, t, {Tree}) ELSE latch
  /\ op' = [op EXCEPT ![t] = Idle]
  /\ UNCHANGED <<node, root, depth>>

\* A delete is counted after its leaf was let go.
Return(t) ==
  /\ op[t].pc = "done"
  /\ count' = IF op[t].kind = "delete" /\ op[t].rc = "Success" THEN count - 1 ELSE count
  /\ latch' = IF op[t].kind = "delete" THEN Dropped(latch, t, {Tree}) ELSE latch
  /\ op' = [op EXCEPT ![t] = Idle]
  /\ UNCHANGED <<node, root, depth>>

-----------------------------------------------------------------------------

Init ==
  /\ node = (1 :> Leaf)
  /\ root = 1 /\ depth = 1 /\ count = 0
  /\ latch = [l \in {Tree, 1} |-> Open]
  /\ op = [t \in Thread |-> Idle]

Insert(t) == InsertSplitRoot(t) \/ InsertSplit(t) \/ InsertLeaf(t)
Search(t) == LookupLeaf(t) \/ GreaterLeaf(t) \/ GreaterRight(t)
             \/ LessLeaf(t) \/ LessLeft(t) \/ LessGivesUp(t)
Scan(t)   == ScanLeaf(t) \/ ScanRight(t) \/ ScanNext(t) \/ ScanStop(t)
Delete(t) == DeleteLatch(t) \/ DeleteRepair(t) \/ DeleteGivesUp(t) \/ DeleteLeaf(t)

Step(t) == LockTree(t) \/ LockRoot(t) \/ Descend(t) \/ Insert(t) \/ Search(t)
           \/ Scan(t) \/ Delete(t) \/ Return(t)

Next == \E t \in Thread : Step(t)

Spec == Init /\ [][Next]_vars
=============================================================================
