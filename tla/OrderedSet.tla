----------------------------- MODULE OrderedSet -----------------------------
(***************************************************************************)
(* What the B+ tree promises its callers (BP.h): a set of unique keys      *)
(* whose calls, made by several threads at once, each take effect and      *)
(* find their answer at one moment.                                        *)
(***************************************************************************)
EXTENDS Integers, FiniteSets

CONSTANTS Thread, MaxKey, MaxData, NoAnswer

VARIABLES set, ans

Init ==
  /\ set = {}
  /\ ans = [t \in Thread |-> NoAnswer]

Answer(kind, k, rc, found) == [kind |-> kind, key |-> k, rc |-> rc, found |-> found]

Least(S)    == IF S = {} THEN 0 ELSE CHOOSE x \in S : \A y \in S : x <= y
Greatest(S) == IF S = {} THEN 0 ELSE CHOOSE x \in S : \A y \in S : y <= x

\* The key a search call returns, 0 if there is none.
Sought(kind, k) ==
  CASE kind = "gt" -> Least({x \in set : x > k})
    [] kind = "ge" -> Least({x \in set : x >= k})
    [] kind = "lt" -> Greatest({x \in set : x < k})
    [] kind = "le" -> Greatest({x \in set : x <= k})

\* A full tree is refused while deletes of other threads may not be counted.
Full == Cardinality(set) + Cardinality(Thread) > MaxData

Insert(t, k) ==
  \/ /\ k \notin set
     /\ set' = set \cup {k}
     /\ ans' = [ans EXCEPT ![t] = Answer("insert", k, "Success", 0)]
  \/ /\ k \in set
     /\ ans' = [ans EXCEPT ![t] = Answer("insert", k, "Duplicate_Found", 0)]
     /\ UNCHANGED set
  \/ /\ k \notin set /\ Full
     /\ ans' = [ans EXCEPT ![t] = Answer("insert", k, "Tree_Full", 0)]
     /\ UNCHANGED set

Delete(t, k) ==
  /\ set' = set \ {k}
  /\ ans' = [ans EXCEPT ![t] =
               Answer("delete", k, IF k \in set THEN "Success" ELSE "Not_Found", 0)]

Lookup(t, kind, k) ==
  /\ ans' = [ans EXCEPT ![t] =
               Answer(kind, k, IF k \in set THEN "Success" ELSE "Not_Found", 0)]
  /\ UNCHANGED set

Search(t, kind, k) ==
  /\ ans' = [ans EXCEPT ![t] =
               Answer(kind, k, IF Sought(kind, k) = 0 THEN "Not_Found" ELSE "Success",
                      Sought(kind, k))]
  /\ UNCHANGED set

\* A call that met another thread's latch too often, and the end of a scan.
Other(t, k) ==
  /\ \/ \E kind \in {"delete", "lt", "le"} :
          ans' = [ans EXCEPT ![t] = Answer(kind, k, "Deadlock_Prevention", 0)]
     \/ ans' = [ans EXCEPT ![t] = Answer("scan", k, "Success", 0)]
  /\ UNCHANGED set

Return(t) ==
  /\ ans[t] # NoAnswer
  /\ ans' = [ans EXCEPT ![t] = NoAnswer]
  /\ UNCHANGED set

Next ==
  \E t \in Thread :
    /\ ans'[t] # ans[t]
    /\ \/ Return(t)
       \/ /\ ans[t] = NoAnswer
          /\ \E k \in 0..(MaxKey + 1) :
               \/ Insert(t, k) \/ Delete(t, k) \/ Other(t, k)
               \/ \E kind \in {"find", "update"} : Lookup(t, kind, k)
               \/ \E kind \in {"gt", "ge", "lt", "le"} : Search(t, kind, k)

Spec == Init /\ [][Next]_<<set, ans>>
=============================================================================
