---------------------- MODULE MultithreadedSolverProofs ----------------------
(***************************************************************************)
(* The workers of the multithreaded solver play every board once, forget    *)
(* none but those a stop or a failed read loses, and a run that ends has    *)
(* counted the whole game: for every game, number of workers, size of the   *)
(* files and of the batches, and any order of stops, restarts and closings. *)
(*                                                                         *)
(* The argument follows a board.  From the moment it is in the tree it is   *)
(* at one place: staged with the worker that found it, at a place of a file *)
(* the reader has not come to, in one batch, or being played.  The workers  *)
(* leave when the queue is empty and nobody plays, and what a batch still   *)
(* holds keeps its worker from leaving.                                     *)
(***************************************************************************)
EXTENDS MultithreadedSolverProps, SequenceTheorems, FiniteSetTheorems, WellFoundedInduction, TLAPS

\* A set of numbers has a least one.
LEMMA LeastNumber ==
  ASSUME NEW S \in SUBSET Nat, S # {}
  PROVE  \E x \in S : \A y \in S : x <= y
<1>1. PICK n \in S : n \in Nat
  OBVIOUS
<1> DEFINE T == {y \in S : y <= n}
           Below(x) == {y \in T : y < x}
           B == {Below(x) : x \in T}
<1>2. IsFiniteSet(T)
  <2>1. \A y \in T : y \in 0..n
    BY <1>1
  <2>2. T \in SUBSET (0..n)
    BY <2>1
  <2>3. n \in Int
    BY <1>1
  <2> HIDE DEF T
  <2>4. IsFiniteSet(0..n)
    BY <2>3, FS_Interval
  <2> QED  BY <2>2, <2>4, FS_Subset
<1>3. \A U \in SUBSET T : U \in FiniteSubsetsOf(T)
  BY <1>2, FS_Subset DEF FiniteSubsetsOf
<1>4. n \in T /\ \A x : Below(x) \in SUBSET T
  BY <1>1
<1>5. B \subseteq FiniteSubsetsOf(T) /\ B # {}
  BY <1>3, <1>4
<1>6. PICK b \in B : \A y \in B : ~(<<y, b>> \in StrictSubsetOrdering(T))
  BY <1>2, <1>5, FS_StrictSubsetOrderingWellFounded, WFMin
<1>7. PICK x \in T : b = Below(x)
  OBVIOUS
<1>8. ASSUME NEW y \in T, y < x PROVE FALSE
  <2>1. x \in Nat /\ y \in Nat
    BY <1>7, <1>8
  <2>2. Below(y) \subseteq Below(x) /\ y \in Below(x) /\ y \notin Below(y)
    <3>1. \A z \in T : z \in Nat /\ (z < y => z < x)
      BY <1>8, <2>1
    <3>2. y \in Below(x)
      BY <1>8
    <3>3. y \notin Below(y)
      BY <2>1
    <3> QED  BY <3>1, <3>2, <3>3
  <2>3. <<Below(y), Below(x)>> \in StrictSubsetOrdering(T)
    BY <2>2 DEF StrictSubsetOrdering
  <2> QED  BY <1>6, <1>7, <2>3
<1> QED  BY <1>7, <1>8

\* The files that a writer has filled up to where it stands.
Cursors == [open : BOOLEAN, currFileNumber : Nat, currRecordNumber : Nat]
Filled(files, cursor) ==
  /\ cursor \in Cursors
  /\ DOMAIN files = {n \in Nat : \/ n < cursor.currFileNumber
                                 \/ n = cursor.currFileNumber /\ cursor.open}
  /\ \A n \in DOMAIN files : files[n] \in Seq(Boards) /\ files[n] # << >>

\* A record at a place, the records of all files, and that each is there once.
In(b, files) == \E n \in DOMAIN files : \E i \in DOMAIN files[n] : b = files[n][i]
Once(files) ==
  \A m, n \in DOMAIN files : \A i \in DOMAIN files[m], j \in DOMAIN files[n] :
    files[m][i] = files[n][j] => m = n /\ i = j

\* One record more.
LEMMA AppendedIs ==
  ASSUME NEW q, NEW r \in Boards, Filled(q.file, q.cursor)
  PROVE  LET a == Appended(q, r)
             n == q.cursor.currFileNumber
             i == IF q.cursor.open THEN Len(q.file[n]) + 1 ELSE 1
         IN  /\ Filled(a.file, a.cursor)
             /\ n \in Nat /\ n <= a.cursor.currFileNumber
             /\ DOMAIN a.file = DOMAIN q.file \cup {n}
             /\ \A m \in DOMAIN q.file : m # n => a.file[m] = q.file[m]
             /\ i \in Nat \ {0} /\ DOMAIN a.file[n] = 1..i /\ a.file[n][i] = r
             /\ n \in DOMAIN q.file => DOMAIN q.file[n] = 1..(i - 1)
             /\ n \notin DOMAIN q.file => i = 1
             /\ \A j \in 1..(i - 1) : a.file[n][j] = q.file[n][j]
<1> DEFINE n == q.cursor.currFileNumber
           old == IF q.cursor.open THEN q.file[n] ELSE << >>
           records == Append(old, r)
           a == Appended(q, r)
<1>1. n \in Nat /\ q.cursor.open \in BOOLEAN /\ (n \in DOMAIN q.file <=> q.cursor.open)
  BY DEF Filled, Cursors
<1>2. old \in Seq(Boards)
  <2>1. CASE q.cursor.open
    BY <1>1, <2>1 DEF Filled
  <2>2. CASE ~q.cursor.open
    BY <2>2
  <2> QED  BY <2>1, <2>2
<1> HIDE DEF old
<1>3. records \in Seq(Boards) /\ Len(records) = Len(old) + 1 /\ records[Len(old) + 1] = r
      /\ records # << >> /\ \A j \in 1..Len(old) : records[j] = old[j]
  BY <1>2, AppendProperties DEF records
<1>4. Len(old) \in Nat /\ Len(records) \in Nat /\ DOMAIN records = 1..Len(records)
      /\ DOMAIN old = 1..Len(old)
  BY <1>2, <1>3
<1> HIDE DEF records
<1>5. /\ a.file = [k \in DOMAIN q.file \cup {n} |-> IF k = n THEN records ELSE q.file[k]]
      /\ a.cursor = IF Full(records) THEN At(n + 1)
                    ELSE [open |-> TRUE, currFileNumber |-> n, currRecordNumber |-> Len(records)]
  BY DEF Appended, records, old
<1> HIDE DEF a
<1>6. a.file[n] = records /\ DOMAIN a.file = DOMAIN q.file \cup {n}
      /\ \A m \in DOMAIN q.file : m # n => a.file[m] = q.file[m]
  BY <1>5
<1>7. a.cursor \in Cursors /\ n <= a.cursor.currFileNumber
      /\ \A m \in Nat : \/ m < a.cursor.currFileNumber
                        \/ m = a.cursor.currFileNumber /\ a.cursor.open
                     <=> m <= n
  <2>1. CASE Full(records)
    BY <1>1, <1>5, <2>1 DEF At, Cursors
  <2>2. CASE ~Full(records)
    BY <1>1, <1>4, <1>5, <2>2 DEF Cursors
  <2> QED  BY <2>1, <2>2
<1>8. DOMAIN q.file \cup {n} = {m \in Nat : m <= n}
  BY <1>1 DEF Filled
<1>9. Filled(a.file, a.cursor)
  BY <1>3, <1>6, <1>7, <1>8 DEF Filled
<1>10. CASE q.cursor.open
  BY <1>1, <1>3, <1>4, <1>6, <1>7, <1>9, <1>10 DEF old, a
<1>11. CASE ~q.cursor.open
  <2>1. Len(old) = 0
    BY <1>11 DEF old
  <2> QED  BY <1>1, <1>3, <1>4, <1>6, <1>7, <1>9, <1>11, <2>1 DEF a
<1> QED  BY <1>1, <1>10, <1>11

-----------------------------------------------------------------------------
(* Records written under one hold of the lock.                             *)

\* The function that AddRecordBatch builds, up to record m.
Follows(g, records, m) ==
  /\ g = [k \in 0..m |-> g[k]] /\ g[0] = [file |-> file, cursor |-> writeCursor]
  /\ \A k \in 1..m : g[k] = Appended(g[k - 1], records[k])

LEMMA FollowsExists == ASSUME NEW records, NEW m \in Nat PROVE \E g : Follows(g, records, m)
<1> DEFINE S == {k \in Nat : ~ \E g : Follows(g, records, k)}
<1> SUFFICES ASSUME S # {} PROVE FALSE
  OBVIOUS
<1>1. PICK k \in S : \A y \in S : k <= y
  BY LeastNumber
<1>2. k # 0
  <2> DEFINE g == [i \in 0..0 |-> [file |-> file, cursor |-> writeCursor]]
  <2>1. Follows(g, records, 0)
    BY DEF Follows
  <2> QED  BY <2>1
<1>3. PICK g : Follows(g, records, k - 1)
  BY <1>1, <1>2
<1> DEFINE h == [i \in 0..k |-> IF i = k THEN Appended(g[k - 1], records[k]) ELSE g[i]]
<1>4. Follows(h, records, k)
  <2>1. h = [i \in 0..k |-> h[i]] /\ h[0] = g[0]
    BY <1>2
  <2>2. ASSUME NEW i \in 1..k PROVE h[i] = Appended(h[i - 1], records[i])
    <3>1. h[i - 1] = g[i - 1]
      OBVIOUS
    <3>2. CASE i = k
      BY <3>1, <3>2
    <3>3. CASE i # k
      <4>1. h[i] = g[i] /\ i \in 1..(k - 1)
        BY <3>3
      <4> QED  BY <3>1, <4>1, <1>3 DEF Follows
    <3> QED  BY <3>2, <3>3
  <2> QED  BY <2>1, <2>2, <1>3 DEF Follows
<1> QED  BY <1>4

LEMMA AddRecordBatchIs ==
  ASSUME NEW records \in Seq(Boards), AddRecordBatch(records)
  PROVE  \E g : /\ Follows(g, records, Len(records))
                /\ file' = g[Len(records)].file /\ writeCursor' = g[Len(records)].cursor
<1> DEFINE Body(f) == [k \in 0..Len(records) |->
                        IF k = 0 THEN [file |-> file, cursor |-> writeCursor]
                        ELSE Appended(f[k - 1], records[k])]
           added == CHOOSE f : f = Body(f)
<1>1. Len(records) \in Nat
  OBVIOUS
<1>2. PICK g : Follows(g, records, Len(records))
  BY <1>1, FollowsExists
<1>3. g = Body(g)
  <2>1. \A k \in 0..Len(records) : g[k] = Body(g)[k]
    <3> TAKE k \in 0..Len(records)
    <3>1. k = 0 \/ k \in 1..Len(records)
      BY <1>1
    <3> QED  BY <1>2, <3>1 DEF Follows
  <2> QED  BY <1>2, <2>1 DEF Follows
<1> HIDE DEF Body
<1>4. added = Body(added)
  BY <1>3
<1>5. file' = added[Len(records)].file /\ writeCursor' = added[Len(records)].cursor
  BY DEF AddRecordBatch, Body
<1> HIDE DEF added
<1>6. Follows(added, records, Len(records))
  <2>1. \A k \in 1..Len(records) : added[k] = Appended(added[k - 1], records[k])
    BY <1>1, <1>4 DEF Body
  <2>2. added = [k \in 0..Len(records) |-> added[k]]
    BY <1>4 DEF Body
  <2>3. added[0] = [file |-> file, cursor |-> writeCursor]
    BY <1>1, <1>4 DEF Body
  <2> QED  BY <2>1, <2>2, <2>3 DEF Follows
<1> QED  BY <1>5, <1>6

\* What is there when k records have been written.
Grown(q, records, k) ==
  /\ Filled(q.file, q.cursor) /\ writeCursor.currFileNumber <= q.cursor.currFileNumber
  /\ \A n \in DOMAIN file : /\ n \in DOMAIN q.file
                            /\ n < writeCursor.currFileNumber => q.file[n] = file[n]
                            /\ \A i \in DOMAIN file[n] : i \in DOMAIN q.file[n] /\ q.file[n][i] = file[n][i]
  /\ \A n \in DOMAIN q.file : \A i \in DOMAIN q.file[n] :
       \/ n \in DOMAIN file /\ i \in DOMAIN file[n]
       \/ writeCursor.currFileNumber <= n /\ \E j \in 1..k : q.file[n][i] = records[j]
  /\ \A j \in 1..k : \E n \in DOMAIN q.file : \E i \in DOMAIN q.file[n] :
       writeCursor.currFileNumber <= n /\ q.file[n][i] = records[j]

Fresh(records) ==
  /\ \A i, j \in DOMAIN records : records[i] = records[j] => i = j
  /\ \A i \in DOMAIN records : ~In(records[i], file)

LEMMA GrownStep ==
  ASSUME NEW records \in Seq(Boards), NEW q, NEW k \in 1..Len(records), Grown(q, records, k - 1),
         writeCursor.currFileNumber \in Nat
  PROVE  /\ Grown(Appended(q, records[k]), records, k)
         /\ Fresh(records) /\ Once(q.file) => Once(Appended(q, records[k]).file)
<1> DEFINE r == records[k]
           a == Appended(q, r)
           n == q.cursor.currFileNumber
           i == IF q.cursor.open THEN Len(q.file[n]) + 1 ELSE 1
<1>1. r \in Boards /\ Filled(q.file, q.cursor) /\ k \in Nat
  BY DEF Grown
<1>2. /\ Filled(a.file, a.cursor)
      /\ n \in Nat /\ n <= a.cursor.currFileNumber
      /\ DOMAIN a.file = DOMAIN q.file \cup {n}
      /\ \A m \in DOMAIN q.file : m # n => a.file[m] = q.file[m]
      /\ i \in Nat \ {0} /\ DOMAIN a.file[n] = 1..i /\ a.file[n][i] = r
      /\ n \in DOMAIN q.file => DOMAIN q.file[n] = 1..(i - 1)
      /\ n \notin DOMAIN q.file => i = 1
      /\ \A j \in 1..(i - 1) : a.file[n][j] = q.file[n][j]
  BY <1>1, AppendedIs
<1> HIDE DEF r, a, n, i
<1>3. \A m \in DOMAIN q.file : m \in DOMAIN a.file
        /\ \A j \in DOMAIN q.file[m] : j \in DOMAIN a.file[m] /\ a.file[m][j] = q.file[m][j]
  <2> TAKE m \in DOMAIN q.file
  <2>1. CASE m # n
    BY <1>2, <2>1
  <2>2. CASE m = n
    <3>1. DOMAIN q.file[n] = 1..(i - 1)
      BY <1>2, <2>2
    <3>2. \A j \in 1..(i - 1) : j \in 1..i
      BY <1>2
    <3> QED  BY <1>2, <2>2, <3>1, <3>2
  <2> QED  BY <2>1, <2>2
<1>4. \A m \in DOMAIN a.file : \A j \in DOMAIN a.file[m] :
        \/ m = n /\ j = i
        \/ m \in DOMAIN q.file /\ j \in DOMAIN q.file[m] /\ a.file[m][j] = q.file[m][j]
  <2> TAKE m \in DOMAIN a.file
  <2> TAKE j \in DOMAIN a.file[m]
  <2>1. CASE m # n
    BY <1>2, <2>1
  <2>2. CASE m = n
    <3>1. j = i \/ j \in 1..(i - 1)
      BY <1>2, <2>2
    <3>2. CASE n \in DOMAIN q.file
      BY <1>2, <2>2, <3>1, <3>2
    <3>3. CASE n \notin DOMAIN q.file
      BY <1>2, <2>2, <3>1, <3>3
    <3> QED  BY <3>2, <3>3
  <2> QED  BY <2>1, <2>2
<1>5. writeCursor.currFileNumber <= n
  BY DEF Grown, n
<1>6. n \in DOMAIN a.file /\ i \in DOMAIN a.file[n] /\ a.file[n][i] = r
  BY <1>2
<1>7. Grown(a, records, k)
  <2>1. writeCursor.currFileNumber <= a.cursor.currFileNumber
    <3>1. a.cursor.currFileNumber \in Nat
      BY <1>2 DEF Filled, Cursors
    <3> QED  BY <1>2, <1>5, <3>1
  <2>2. \A m \in DOMAIN file : m \in DOMAIN a.file
         /\ \A j \in DOMAIN file[m] : j \in DOMAIN a.file[m] /\ a.file[m][j] = file[m][j]
    BY <1>3 DEF Grown
  <2>3. \A m \in DOMAIN file : m < writeCursor.currFileNumber => a.file[m] = file[m]
    <3>1. \A m \in DOMAIN file : m \in Nat /\ m \in DOMAIN q.file
      BY DEF Grown, Filled
    <3>2. \A m \in Nat : m < writeCursor.currFileNumber => m # n
      BY <1>2, <1>5
    <3> QED  BY <1>2, <3>1, <3>2 DEF Grown
  <2>4. \A m \in DOMAIN a.file : \A j \in DOMAIN a.file[m] :
          \/ m \in DOMAIN file /\ j \in DOMAIN file[m]
          \/ writeCursor.currFileNumber <= m /\ \E l \in 1..k : a.file[m][j] = records[l]
    <3> TAKE m \in DOMAIN a.file
    <3> TAKE j \in DOMAIN a.file[m]
    <3>1. CASE m = n /\ j = i
      <4>1. a.file[m][j] = records[k] /\ k \in 1..k
        BY <1>1, <1>6, <3>1 DEF r
      <4> QED  BY <1>5, <3>1, <4>1
    <3>2. CASE m \in DOMAIN q.file /\ j \in DOMAIN q.file[m] /\ a.file[m][j] = q.file[m][j]
      <4>1. \A l \in 1..(k - 1) : l \in 1..k
        BY <1>1
      <4> QED  BY <3>2, <4>1 DEF Grown
    <3> QED  BY <1>4, <3>1, <3>2
  <2>5. \A l \in 1..k : \E m \in DOMAIN a.file : \E j \in DOMAIN a.file[m] :
          writeCursor.currFileNumber <= m /\ a.file[m][j] = records[l]
    <3> TAKE l \in 1..k
    <3>1. CASE l = k
      BY <1>5, <1>6, <3>1 DEF r
    <3>2. CASE l # k
      <4>1. l \in 1..(k - 1)
        BY <1>1, <3>2
      <4>2. PICK m \in DOMAIN q.file : \E j \in DOMAIN q.file[m] :
              writeCursor.currFileNumber <= m /\ q.file[m][j] = records[l]
        BY <4>1 DEF Grown
      <4> QED  BY <1>3, <4>2
    <3> QED  BY <3>1, <3>2
  <2> QED  BY <1>2, <2>1, <2>2, <2>3, <2>4, <2>5 DEF Grown
<1>8. ASSUME Fresh(records), Once(q.file) PROVE Once(a.file)
  <2>1. \A m \in DOMAIN q.file : \A j \in DOMAIN q.file[m] : q.file[m][j] # r
    <3> TAKE m \in DOMAIN q.file
    <3> TAKE j \in DOMAIN q.file[m]
    <3>1. k \in DOMAIN records /\ r = records[k]
      BY DEF r
    <3>2. CASE m \in DOMAIN file /\ j \in DOMAIN file[m]
      BY <1>8, <3>1, <3>2 DEF Fresh, In, Grown
    <3>3. CASE \E l \in 1..(k - 1) : q.file[m][j] = records[l]
      <4>1. PICK l \in 1..(k - 1) : q.file[m][j] = records[l]
        BY <3>3
      <4>2. l \in DOMAIN records /\ l # k
        BY <1>1
      <4> QED  BY <1>8, <3>1, <4>1, <4>2 DEF Fresh
    <3> QED  BY <3>2, <3>3 DEF Grown
  <2> SUFFICES ASSUME NEW m \in DOMAIN a.file, NEW p \in DOMAIN a.file,
                      NEW j \in DOMAIN a.file[m], NEW l \in DOMAIN a.file[p],
                      a.file[m][j] = a.file[p][l]
               PROVE  m = p /\ j = l
    BY DEF Once
  <2> QED  BY <1>4, <1>6, <1>8, <2>1 DEF Once
<1> QED  BY <1>7, <1>8 DEF a, r

\* When all were written, the old records are where they were, and the new
\* ones behind the writer.
LEMMA BatchAdded ==
  ASSUME NEW records \in Seq(Boards), AddRecordBatch(records), Filled(file, writeCursor)
  PROVE  /\ Grown([file |-> file', cursor |-> writeCursor'], records, Len(records))
         /\ Fresh(records) /\ Once(file) => Once(file')
<1>1. PICK g : /\ Follows(g, records, Len(records))
               /\ file' = g[Len(records)].file /\ writeCursor' = g[Len(records)].cursor
  BY AddRecordBatchIs
<1> DEFINE Good(k) == Grown(g[k], records, k) /\ (Fresh(records) /\ Once(file) => Once(g[k].file))
           S == {k \in Nat : k <= Len(records) /\ ~Good(k)}
<1>2. Good(0)
  <2>1. g[0].file = file /\ g[0].cursor = writeCursor
    BY <1>1 DEF Follows
  <2>2. writeCursor.currFileNumber \in Nat
    BY DEF Filled, Cursors
  <2> QED  BY <2>1, <2>2 DEF Grown
<1>3. S = {}
  <2> SUFFICES ASSUME S # {} PROVE FALSE
    OBVIOUS
  <2>1. PICK k \in S : \A y \in S : k <= y
    BY LeastNumber
  <2>2. k # 0 /\ k \in 1..Len(records)
    BY <1>2, <2>1
  <2>3. k - 1 \in Nat /\ k - 1 \notin S
    BY <2>1, <2>2
  <2>4. Good(k - 1)
    BY <2>2, <2>3
  <2>5. g[k] = Appended(g[k - 1], records[k])
    BY <1>1, <2>2 DEF Follows
  <2>6. Good(k)
    <3>1. writeCursor.currFileNumber \in Nat
      BY DEF Filled, Cursors
    <3> QED  BY <2>2, <2>4, <2>5, <3>1, GrownStep
  <2> QED  BY <2>6
<1>4. Good(Len(records))
  BY <1>3
<1> QED  BY <1>1, <1>4 DEF Grown
-----------------------------------------------------------------------------
(* What the reader has before it.                                          *)

ReadOK ==
  /\ readCursor \in Cursors
  /\ readCursor.currFileNumber <= writeCursor.currFileNumber
  /\ readCursor.open =>
       /\ readCursor.currFileNumber < writeCursor.currFileNumber
       /\ readCursor.currRecordNumber < Len(file[readCursor.currFileNumber])
  /\ ~readCursor.open => readCursor.currRecordNumber = 0

Ahead(n, i) == \/ n > readCursor.currFileNumber
               \/ n = readCursor.currFileNumber /\ i > readCursor.currRecordNumber

PendingAre ==
  \A b : b \in Pending <=> \E n \in DOMAIN file : \E i \in DOMAIN file[n] : Ahead(n, i) /\ b = file[n][i]
LEMMA PendingHere == PendingAre
<1>1. \A n, i : n \in DOMAIN file /\ i \in DOMAIN file[n] =>
        /\ <<n, i>> \in Places /\ Record(<<n, i>>) = file[n][i]
        /\ Unread(<<n, i>>) <=> Ahead(n, i)
  BY DEF Places, Record, Unread, Ahead
<1>2. \A p \in Places : \E n \in DOMAIN file : \E i \in DOMAIN file[n] : p = <<n, i>>
  BY DEF Places
<1> HIDE DEF Places
<1>3. ASSUME NEW b, b \in Pending
      PROVE  \E n \in DOMAIN file : \E i \in DOMAIN file[n] : Ahead(n, i) /\ b = file[n][i]
  <2>1. PICK p \in Places : Unread(p) /\ b = Record(p)
    BY <1>3 DEF Pending
  <2>2. PICK n \in DOMAIN file : \E i \in DOMAIN file[n] : p = <<n, i>>
    BY <1>2
  <2>3. PICK i \in DOMAIN file[n] : p = <<n, i>>
    BY <2>2
  <2> QED  BY <1>1, <2>1, <2>3
<1>4. ASSUME NEW n \in DOMAIN file, NEW i \in DOMAIN file[n], Ahead(n, i)
      PROVE  file[n][i] \in Pending
  <2>1. <<n, i>> \in Places /\ Record(<<n, i>>) = file[n][i] /\ Unread(<<n, i>>)
    BY <1>1, <1>4
  <2> QED  BY <2>1 DEF Pending
<1> QED  BY <1>3, <1>4 DEF PendingAre

LEMMA PendingIs ==
  /\ \A b : b \in Pending <=> \E n \in DOMAIN file : \E i \in DOMAIN file[n] : Ahead(n, i) /\ b = file[n][i]
  /\ (\A b : b \in Pending <=> \E n \in DOMAIN file : \E i \in DOMAIN file[n] : Ahead(n, i) /\ b = file[n][i])'
<1>1. PendingAre'
  BY PendingHere, PTL
<1> QED  BY <1>1, PendingHere DEF PendingAre

LEMMA ReplayableIs ==
  \A b : b \in Replayable <=> \E n \in DOMAIN file : \E i \in DOMAIN file[n] :
                                n >= readCursor.currFileNumber /\ b = file[n][i]
<1>1. \A n, i : n \in DOMAIN file /\ i \in DOMAIN file[n] =>
        <<n, i>> \in Places /\ Record(<<n, i>>) = file[n][i] /\ <<n, i>>[1] = n
  BY DEF Places, Record
<1>2. \A p \in Places : \E n \in DOMAIN file : \E i \in DOMAIN file[n] : p = <<n, i>>
  BY DEF Places
<1> HIDE DEF Places
<1>3. ASSUME NEW b, b \in Replayable
      PROVE  \E n \in DOMAIN file : \E i \in DOMAIN file[n] :
               n >= readCursor.currFileNumber /\ b = file[n][i]
  <2>1. PICK p \in Places : p[1] >= readCursor.currFileNumber /\ b = Record(p)
    BY <1>3 DEF Replayable
  <2>2. PICK n \in DOMAIN file : \E i \in DOMAIN file[n] : p = <<n, i>>
    BY <1>2
  <2>3. PICK i \in DOMAIN file[n] : p = <<n, i>>
    BY <2>2
  <2> QED  BY <1>1, <2>1, <2>3
<1>4. ASSUME NEW n \in DOMAIN file, NEW i \in DOMAIN file[n], n >= readCursor.currFileNumber
      PROVE  file[n][i] \in Replayable
  <2>1. <<n, i>> \in Places /\ Record(<<n, i>>) = file[n][i]
        /\ <<n, i>>[1] >= readCursor.currFileNumber
    BY <1>1, <1>4
  <2> QED  BY <2>1 DEF Replayable
<1> QED  BY <1>3, <1>4

\* While there are records to read, the file to read them from is there.
LEMMA ReadFileThere ==
  ASSUME Filled(file, writeCursor), ReadOK, ~NoMoreData
  PROVE  LET n == readCursor.currFileNumber
         IN  /\ n \in Nat /\ n \in DOMAIN file /\ file[n] \in Seq(Boards)
             /\ Len(file[n]) \in Nat /\ DOMAIN file[n] = 1..Len(file[n])
             /\ readCursor.currRecordNumber \in Nat
             /\ readCursor.currRecordNumber < Len(file[n])
<1> DEFINE n == readCursor.currFileNumber
<1>1. n \in Nat /\ readCursor.currRecordNumber \in Nat /\ readCursor.open \in BOOLEAN
      /\ writeCursor.currFileNumber \in Nat /\ writeCursor.open \in BOOLEAN
  BY DEF ReadOK, Filled, Cursors
<1>2. n \in DOMAIN file
  <2>1. CASE readCursor.open
    BY <1>1, <2>1 DEF ReadOK, Filled
  <2>2. CASE ~readCursor.open
    BY <1>1, <2>2 DEF ReadOK, Filled, NoMoreData
  <2> QED  BY <1>1, <2>1, <2>2
<1>3. file[n] \in Seq(Boards) /\ file[n] # << >>
  BY <1>2 DEF Filled
<1>4. Len(file[n]) \in Nat /\ Len(file[n]) # 0 /\ DOMAIN file[n] = 1..Len(file[n])
  BY <1>3
<1>5. readCursor.currRecordNumber < Len(file[n])
  BY <1>1, <1>4 DEF ReadOK
<1> QED  BY <1>1, <1>2, <1>3, <1>4, <1>5

\* A reader that catches up with the writer closes the writer's file.
LEMMA ReadFileOpened ==
  ASSUME Filled(file, writeCursor), ReadOK, ~NoMoreData, EnsureReadFileOpen, file' = file
  PROVE  /\ Filled(file', writeCursor')
         /\ writeCursor.currFileNumber <= writeCursor'.currFileNumber
         /\ readCursor.currFileNumber < writeCursor'.currFileNumber
<1>1. readCursor.currFileNumber \in Nat /\ readCursor.open \in BOOLEAN
      /\ writeCursor.currFileNumber \in Nat /\ writeCursor.open \in BOOLEAN
  BY DEF ReadOK, Filled, Cursors
<1>2. CASE CaughtUp
  <2>1. writeCursor' = At(writeCursor.currFileNumber + 1)
    BY <1>2 DEF EnsureReadFileOpen
  <2>2. writeCursor.open
    BY <1>1, <1>2 DEF NoMoreData, CaughtUp
  <2>3. writeCursor' \in Cursors /\ ~writeCursor'.open
        /\ writeCursor'.currFileNumber = writeCursor.currFileNumber + 1
    BY <1>1, <2>1 DEF At, Cursors
  <2>4. DOMAIN file = {n \in Nat : n < writeCursor.currFileNumber + 1}
    BY <1>1, <2>2 DEF Filled
  <2>5. DOMAIN file' = {n \in Nat : \/ n < writeCursor'.currFileNumber
                                    \/ n = writeCursor'.currFileNumber /\ writeCursor'.open}
    BY <2>3, <2>4
  <2>6. readCursor.currFileNumber = writeCursor.currFileNumber
    BY <1>2 DEF CaughtUp
  <2>7. Filled(file', writeCursor')
    BY <2>3, <2>5 DEF Filled
  <2> QED  BY <1>1, <2>3, <2>6, <2>7
<1>3. CASE ~CaughtUp
  <2>1. writeCursor' = writeCursor
    BY <1>3 DEF EnsureReadFileOpen
  <2>2. readCursor.currFileNumber < writeCursor.currFileNumber
    BY <1>1, <1>3 DEF CaughtUp, ReadOK
  <2>3. Filled(file', writeCursor')
    BY <2>1
  <2> QED  BY <1>1, <2>1, <2>2, <2>3
<1> QED  BY <1>2, <1>3

LEMMA RefillIs ==
  ASSUME Filled(file, writeCursor), ReadOK, NEW max \in Nat \ {0}, GetNextRecordBatch(max)
  PROVE  LET got == NextBatch(max)
         IN  /\ Filled(file', writeCursor') /\ ReadOK'
             /\ got \in Seq(Boards) /\ got # << >>
             /\ \A b : b \in Pending <=> b \in Pending' \/ b \in ToSet(got)
             /\ Once(file) => /\ ToSet(got) \cap Pending' = {}
                              /\ \A i, j \in DOMAIN got : got[i] = got[j] => i = j
<1> DEFINE n == readCursor.currFileNumber
           at == readCursor.currRecordNumber
           records == file[n]
           upto == IF at + max < Len(records) THEN at + max ELSE Len(records)
           got == NextBatch(max)
<1>1. ~NoMoreData /\ EnsureReadFileOpen /\ file' = file
  BY DEF GetNextRecordBatch
<1>2. /\ n \in Nat /\ n \in DOMAIN file /\ records \in Seq(Boards)
      /\ Len(records) \in Nat /\ DOMAIN records = 1..Len(records)
      /\ at \in Nat /\ at < Len(records)
  BY <1>1, ReadFileThere
<1>3. /\ Filled(file', writeCursor')
      /\ writeCursor'.currFileNumber \in Nat /\ n < writeCursor'.currFileNumber
  BY <1>1, ReadFileOpened DEF Filled, Cursors
<1>4. got = SubSeq(records, at + 1, upto)
  BY DEF NextBatch
<1>5. upto \in Nat /\ at < upto /\ upto <= Len(records)
  BY <1>2
<1>6. /\ got \in Seq(Boards) /\ Len(got) = upto - at
      /\ \A i \in 1..(upto - at) : got[i] = records[at + i]
  <2>1. \A i \in (at + 1)..upto : records[i] \in Boards
    BY <1>2, <1>5
  <2>2. at + 1 \in Int /\ upto \in Int /\ upto - (at + 1) + 1 = upto - at /\ at + 1 <= upto
        /\ \A i \in 1..(upto - at) : at + 1 + i - 1 = at + i
    BY <1>2, <1>5
  <2> HIDE DEF upto, records, at, got
  <2> QED  BY <1>4, <2>1, <2>2, SubSeqProperties
<1>7. readCursor' = IF upto >= Len(records) THEN At(n + 1)
                    ELSE [open |-> TRUE, currFileNumber |-> n, currRecordNumber |-> upto]
  <2>1. at + Len(got) = upto
    BY <1>2, <1>5, <1>6
  <2> QED  BY <2>1 DEF GetNextRecordBatch
<1> HIDE DEF got, upto, records, at, n
<1>8. ReadOK'
  <2>1. CASE upto >= Len(records)
    BY <1>2, <1>3, <1>7, <2>1 DEF ReadOK, At, Cursors
  <2>2. CASE ~(upto >= Len(records))
    <3>1. upto < Len(file'[n])
      BY <1>1, <1>2, <1>5, <2>2 DEF records
    <3> QED  BY <1>2, <1>3, <1>5, <1>7, <2>2, <3>1 DEF ReadOK, Cursors
  <2> QED  BY <2>1, <2>2
<1>9. ASSUME NEW m \in DOMAIN file, NEW i \in DOMAIN file[m]
      PROVE  /\ Ahead(m, i) <=> Ahead(m, i)' \/ (m = n /\ at < i /\ i <= upto)
             /\ ~(Ahead(m, i)' /\ m = n /\ at < i /\ i <= upto)
  <2>1. m \in Nat /\ i \in Nat
    BY DEF Filled
  <2>2. CASE upto >= Len(records)
    <3>1. Ahead(m, i)' <=> m > n + 1 \/ (m = n + 1 /\ i > 0)
      BY <1>7, <2>2 DEF Ahead, At
    <3>2. i > 0 /\ (m = n => i <= Len(records))
      BY <1>2, <2>1 DEF Filled, records
    <3>3. upto = Len(records)
      <4>1. upto \in Nat /\ Len(records) \in Nat /\ upto <= Len(records)
        BY <1>2, <1>5
      <4> QED  BY <2>2, <4>1
    <3> QED  BY <1>2, <1>5, <2>1, <3>1, <3>2, <3>3 DEF Ahead, n, at
  <2>3. CASE ~(upto >= Len(records))
    <3>1. Ahead(m, i)' <=> m > n \/ (m = n /\ i > upto)
      BY <1>7, <2>3 DEF Ahead
    <3> QED  BY <1>2, <1>5, <2>1, <3>1 DEF Ahead, n, at
  <2> QED  BY <2>2, <2>3
<1>10. \A b : b \in ToSet(got) <=> \E i \in DOMAIN file[n] : at < i /\ i <= upto /\ b = file[n][i]
  <2>1. \A i : i \in DOMAIN got <=> i \in 1..(upto - at)
    BY <1>6
  <2>2. \A i : i \in DOMAIN file[n] <=> i \in 1..Len(records)
    BY <1>2 DEF records
  <2>3. ASSUME NEW i \in DOMAIN file[n], at < i, i <= upto
        PROVE  i - at \in DOMAIN got /\ got[i - at] = file[n][i]
    <3>1. i - at \in 1..(upto - at) /\ at + (i - at) = i
      BY <1>2, <1>5, <2>2, <2>3
    <3> QED  BY <1>6, <2>1, <3>1 DEF records
  <2>4. ASSUME NEW i \in DOMAIN got
        PROVE  at + i \in DOMAIN file[n] /\ at < at + i /\ at + i <= upto /\ got[i] = file[n][at + i]
    <3>1. i \in 1..(upto - at)
      BY <2>1
    <3>2. at + i \in 1..Len(records) /\ at < at + i /\ at + i <= upto
      BY <1>2, <1>5, <3>1
    <3> QED  BY <1>6, <2>2, <3>1, <3>2 DEF records
  <2> QED  BY <2>3, <2>4 DEF ToSet
<1>11. \A b : b \in Pending <=> b \in Pending' \/ b \in ToSet(got)
  <2>1. \A b : b \in Pending' <=> \E m \in DOMAIN file : \E i \in DOMAIN file[m] : Ahead(m, i)' /\ b = file[m][i]
    BY <1>1, PendingIs
  <2> QED  BY <1>2, <1>9, <1>10, <2>1, PendingIs
<1>12. ASSUME Once(file), NEW b, b \in ToSet(got), b \in Pending' PROVE FALSE
  <2>1. PICK i \in DOMAIN file[n] : at < i /\ i <= upto /\ b = file[n][i]
    BY <1>10, <1>12
  <2>2. PICK m \in DOMAIN file : \E j \in DOMAIN file[m] : Ahead(m, j)' /\ b = file[m][j]
    BY <1>1, <1>12, PendingIs
  <2>3. PICK j \in DOMAIN file[m] : Ahead(m, j)' /\ b = file[m][j]
    BY <2>2
  <2>4. file[m][j] = file[n][i] /\ n \in DOMAIN file
    BY <1>2, <2>1, <2>3
  <2>5. m = n /\ j = i
    BY <1>12, <2>4 DEF Once
  <2> QED  BY <1>9, <2>1, <2>3, <2>5
<1>13. ASSUME Once(file), NEW i \in DOMAIN got, NEW j \in DOMAIN got, got[i] = got[j] PROVE i = j
  <2>1. i \in 1..(upto - at) /\ j \in 1..(upto - at)
    BY <1>6
  <2>2. at + i \in 1..Len(records) /\ at + j \in 1..Len(records)
    BY <1>2, <1>5, <2>1
  <2>3. records[at + i] = records[at + j]
    BY <1>6, <1>13, <2>1
  <2>4. at + i = at + j
    BY <1>2, <1>13, <2>2, <2>3 DEF Once, records
  <2> QED  BY <1>2, <1>5, <2>1, <2>4
<1>14. got # << >>
  BY <1>2, <1>5, <1>6
<1> QED  BY <1>3, <1>6, <1>8, <1>11, <1>12, <1>13, <1>14 DEF got

LEMMA NoMoreDataIs ==
  ASSUME Filled(file, writeCursor), ReadOK, NoMoreData
  PROVE  Pending = {}
<1>1. readCursor.currFileNumber \in Nat /\ writeCursor.currFileNumber \in Nat
      /\ writeCursor.open \in BOOLEAN /\ ~readCursor.open
  BY DEF ReadOK, Filled, Cursors, NoMoreData
<1>2. \A n \in DOMAIN file : n \in Nat /\ n < readCursor.currFileNumber
  BY <1>1 DEF Filled, NoMoreData, ReadOK
<1>3. \A n \in DOMAIN file : \A i : ~Ahead(n, i)
  BY <1>1, <1>2 DEF Ahead
<1> QED  BY <1>3, PendingIs

LEMMA OpenFailsIs ==
  ASSUME Filled(file, writeCursor), ReadOK, OpenFails
  PROVE  Filled(file', writeCursor') /\ ReadOK' /\ Pending' = Pending
<1>1. ~NoMoreData /\ EnsureReadFileOpen /\ file' = file /\ readCursor' = readCursor
  BY DEF OpenFails, TakesCheckPoint
<1>2. /\ Filled(file', writeCursor')
      /\ writeCursor'.currFileNumber \in Nat
      /\ readCursor.currFileNumber < writeCursor'.currFileNumber
  BY <1>1, ReadFileOpened DEF Filled, Cursors
<1>3. ReadOK'
  <2>1. readCursor'.currFileNumber <= writeCursor'.currFileNumber
    BY <1>1, <1>2 DEF ReadOK, Cursors
  <2> QED  BY <1>1, <1>2, <2>1 DEF ReadOK
<1>4. Pending' = Pending
  BY <1>1 DEF Pending, Places, Record, Unread
<1> QED  BY <1>2, <1>3, <1>4

LEMMA ReadFailsIs ==
  ASSUME Filled(file, writeCursor), ReadOK, ReadFails
  PROVE  Filled(file', writeCursor') /\ ReadOK' /\ Pending' \subseteq Pending
<1>1. ~NoMoreData /\ EnsureReadFileOpen /\ file' = file
      /\ readCursor' = At(readCursor.currFileNumber + 1)
  BY DEF ReadFails
<1>2. /\ Filled(file', writeCursor')
      /\ writeCursor'.currFileNumber \in Nat /\ readCursor.currFileNumber \in Nat
      /\ readCursor.currFileNumber < writeCursor'.currFileNumber
  BY <1>1, ReadFileOpened DEF Filled, ReadOK, Cursors
<1>3. ReadOK'
  BY <1>1, <1>2 DEF ReadOK, At, Cursors
<1>4. \A n \in DOMAIN file : \A i \in DOMAIN file[n] : Ahead(n, i)' => Ahead(n, i)
  <2> TAKE n \in DOMAIN file
  <2> TAKE i \in DOMAIN file[n]
  <2>1. n \in Nat
    BY DEF Filled
  <2> QED  BY <1>1, <1>2, <2>1 DEF Ahead, At
<1>5. Pending' \subseteq Pending
  <2>1. \A b : b \in Pending' <=> \E m \in DOMAIN file : \E i \in DOMAIN file[m] : Ahead(m, i)' /\ b = file[m][i]
    BY <1>1, PendingIs
  <2> QED  BY <1>4, <2>1, PendingIs
<1> QED  BY <1>2, <1>3, <1>5

\* A restart reads again from the file where the reader was.
LEMMA RestartIs ==
  ASSUME Filled(file, writeCursor), ReadOK, RestartFromLastChkPt,
         checkPoint = [read |-> readCursor, write |-> writeCursor]
  PROVE  Filled(file', writeCursor') /\ ReadOK' /\ Pending' = Replayable
<1> DEFINE r == readCursor.currFileNumber
           w == writeCursor.currFileNumber + (IF writeCursor.open THEN 1 ELSE 0)
<1>1. readCursor' = At(r) /\ writeCursor' = At(w) /\ file' = file
  BY DEF RestartFromLastChkPt
<1>2. r \in Nat /\ writeCursor.currFileNumber \in Nat /\ writeCursor.open \in BOOLEAN
      /\ r <= writeCursor.currFileNumber
  BY DEF Filled, ReadOK, Cursors
<1>3. w \in Nat /\ r <= w /\ DOMAIN file = {n \in Nat : n < w}
  <2>1. CASE writeCursor.open
    BY <1>2, <2>1 DEF Filled
  <2>2. CASE ~writeCursor.open
    BY <1>2, <2>2 DEF Filled
  <2> QED  BY <2>1, <2>2
<1> HIDE DEF w, r
<1>4. Filled(file', writeCursor') /\ ReadOK'
  BY <1>1, <1>2, <1>3 DEF Filled, ReadOK, At, Cursors
<1>5. \A n \in DOMAIN file : \A i \in DOMAIN file[n] : Ahead(n, i)' <=> n >= r
  <2> TAKE n \in DOMAIN file
  <2> TAKE i \in DOMAIN file[n]
  <2>1. n \in Nat /\ i \in Nat /\ i > 0
    BY DEF Filled
  <2> QED  BY <1>1, <1>2, <2>1 DEF Ahead, At
<1>6. \A b : b \in Pending' <=> b \in Replayable
  <2>1. \A b : b \in Pending' <=> \E m \in DOMAIN file : \E i \in DOMAIN file[m] : Ahead(m, i)' /\ b = file[m][i]
    BY <1>1, PendingIs
  <2> QED  BY <1>5, <2>1, ReplayableIs DEF r
<1> QED  BY <1>4, <1>6

\* A new queue with one record.
LEMMA CreateIs ==
  ASSUME NEW b \in Boards, CreateWith(b)
  PROVE  /\ Filled(file', writeCursor') /\ ReadOK' /\ Once(file')
         /\ \A c : c \in Pending' <=> c = b
         /\ \A c : In(c, file') <=> c = b
<1> DEFINE q == [file |-> NoFiles, cursor |-> At(0)]
           a == Appended(q, b)
<1>1. Filled(q.file, q.cursor)
  BY DEF Filled, NoFiles, At, Cursors
<1>2. /\ Filled(a.file, a.cursor)
      /\ DOMAIN a.file = {0} /\ DOMAIN a.file[0] = 1..1 /\ a.file[0][1] = b
  <2>1. q.cursor.currFileNumber = 0 /\ ~q.cursor.open /\ DOMAIN q.file = {}
    BY DEF NoFiles, At
  <2> HIDE DEF q, a
  <2>2. LET n == q.cursor.currFileNumber
            i == IF q.cursor.open THEN Len(q.file[n]) + 1 ELSE 1
        IN  /\ Filled(a.file, a.cursor) /\ DOMAIN a.file = DOMAIN q.file \cup {n}
            /\ DOMAIN a.file[n] = 1..i /\ a.file[n][i] = b
    BY <1>1, AppendedIs DEF a
  <2> QED  BY <2>1, <2>2
<1>3. file' = a.file /\ writeCursor' = a.cursor /\ readCursor' = At(0)
  BY DEF CreateWith
<1> HIDE DEF a
<1>4. ReadOK'
  <2>1. writeCursor'.currFileNumber \in Nat
    BY <1>2, <1>3 DEF Filled, Cursors
  <2> QED  BY <1>3, <2>1 DEF ReadOK, At, Cursors
<1>5. \A c : c \in Pending' <=> c = b
  <2>1. Ahead(0, 1)'
    BY <1>3 DEF Ahead, At
  <2> QED  BY <1>2, <1>3, <2>1, PendingIs
<1> QED  BY <1>2, <1>3, <1>4, <1>5 DEF Once, In

\* What was added is before the reader, and so is what was.
LEMMA AddedIs ==
  ASSUME NEW records \in Seq(Boards), AddRecordBatch(records), Filled(file, writeCursor), ReadOK
  PROVE  /\ Filled(file', writeCursor') /\ ReadOK'
         /\ \A b : b \in Pending' <=> b \in Pending \/ b \in ToSet(records)
         /\ \A b : In(b, file') <=> In(b, file) \/ b \in ToSet(records)
         /\ Fresh(records) /\ Once(file) => Once(file')
<1> DEFINE q == [file |-> file', cursor |-> writeCursor']
<1>1. Grown(q, records, Len(records)) /\ (Fresh(records) /\ Once(file) => Once(file'))
  BY BatchAdded
<1>2. DOMAIN records = 1..Len(records)
  OBVIOUS
<1>3. /\ Filled(file', writeCursor') /\ writeCursor.currFileNumber <= writeCursor'.currFileNumber
      /\ \A n \in DOMAIN file : /\ n \in DOMAIN file'
                                /\ n < writeCursor.currFileNumber => file'[n] = file[n]
                                /\ \A i \in DOMAIN file[n] : i \in DOMAIN file'[n] /\ file'[n][i] = file[n][i]
      /\ \A n \in DOMAIN file' : \A i \in DOMAIN file'[n] :
           \/ n \in DOMAIN file /\ i \in DOMAIN file[n]
           \/ writeCursor.currFileNumber <= n /\ file'[n][i] \in ToSet(records)
      /\ \A b \in ToSet(records) : \E n \in DOMAIN file' : \E i \in DOMAIN file'[n] :
           writeCursor.currFileNumber <= n /\ file'[n][i] = b
  BY <1>1, <1>2 DEF Grown, ToSet
<1>4. readCursor' = readCursor
  BY DEF AddRecordBatch
<1>5. /\ readCursor.currFileNumber \in Nat /\ readCursor.currRecordNumber \in Nat
      /\ readCursor.open \in BOOLEAN
      /\ writeCursor.currFileNumber \in Nat /\ writeCursor'.currFileNumber \in Nat
  BY <1>3 DEF ReadOK, Filled, Cursors
<1>6. ReadOK'
  <2>1. CASE readCursor.open
    <3>1. readCursor.currFileNumber \in DOMAIN file
      BY <1>5, <2>1 DEF ReadOK, Filled
    <3>2. file'[readCursor.currFileNumber] = file[readCursor.currFileNumber]
      BY <1>3, <2>1, <3>1 DEF ReadOK
    <3> QED  BY <1>3, <1>4, <1>5, <2>1, <3>2 DEF ReadOK
  <2>2. CASE ~readCursor.open
    BY <1>3, <1>4, <1>5, <2>2 DEF ReadOK
  <2> QED  BY <1>5, <2>1, <2>2
<1>7. \A n, i : Ahead(n, i)' <=> Ahead(n, i)
  BY <1>4 DEF Ahead
<1>8. \A n \in DOMAIN file' : \A i \in DOMAIN file'[n] :
        writeCursor.currFileNumber <= n => Ahead(n, i)
  <2> TAKE n \in DOMAIN file'
  <2> TAKE i \in DOMAIN file'[n]
  <2>1. n \in Nat /\ i \in Nat /\ i > 0
    BY <1>3 DEF Filled
  <2> QED  BY <1>5, <2>1 DEF Ahead, ReadOK
<1> HIDE DEF q
<1>9. \A b : In(b, file') <=> In(b, file) \/ b \in ToSet(records)
  BY <1>3 DEF In
<1>10. \A b : b \in Pending' <=> b \in Pending \/ b \in ToSet(records)
  <2>1. \A b : b \in Pending' <=> \E n \in DOMAIN file' : \E i \in DOMAIN file'[n] : Ahead(n, i) /\ b = file'[n][i]
    BY <1>7, PendingIs
  <2>2. ASSUME NEW b, b \in Pending \/ b \in ToSet(records) PROVE b \in Pending'
    <3>1. CASE b \in Pending
      BY <1>3, <2>1, <3>1, PendingIs
    <3>2. CASE b \in ToSet(records)
      BY <1>3, <1>8, <2>1, <3>2
    <3> QED  BY <2>2, <3>1, <3>2
  <2>3. ASSUME NEW b, b \in Pending' PROVE b \in Pending \/ b \in ToSet(records)
    BY <1>3, <2>1, <2>3, PendingIs
  <2> QED  BY <2>2, <2>3
<1> QED  BY <1>1, <1>3, <1>6, <1>9, <1>10
-----------------------------------------------------------------------------
(* The inductive invariant, in the parts that the steps disturb.           *)

Labels == {"exited", "top", "checkpt", "lookup", "empty", "play", "flush", "leave"}
States == {"NOT_PLAYED", "PLAYED", "PLAYED_TERMINAL"}
Held(b) == \E w \in Workers : \E i \in DOMAIN batch[w] : batch[w][i] = b
New(b) == \E w \in Workers : \E i \in DOMAIN staged[w] : staged[w][i] = b

Typed ==
  /\ pc \in [Workers -> Labels] /\ batch \in [Workers -> Seq(Boards)]
  /\ board \in [Workers -> Boards \cup {NoBoard}] /\ todo \in [Workers -> SUBSET Edges]
  /\ staged \in [Workers -> Seq(Boards)]
  /\ stop \in BOOLEAN /\ haveTrees \in BOOLEAN /\ checkpointDat \in BOOLEAN /\ faults \in Nat
  /\ DOMAIN uniqueBoards \subseteq Boards /\ moves \subseteq Edges
  /\ \A b \in DOMAIN uniqueBoards : uniqueBoards[b] \in States
QueueOK == Filled(file, writeCursor) /\ ReadOK
Saved ==
  /\ status = "relaunched" => checkpointDat
  /\ status = "done" => ~checkpointDat
  /\ (Resting \/ status = "relaunched") /\ checkpointDat
       => checkPoint = [read |-> readCursor, write |-> writeCursor]

\* What each place of the loop says of a worker.
WorkerOK(w) ==
  /\ board[w] # NoBoard <=> pc[w] \in {"play", "flush", "leave"}
  /\ board[w] # NoBoard => Running
  /\ pc[w] = "play" => todo[w] \subseteq Out(board[w])
  /\ pc[w] \notin {"play", "flush"} => staged[w] = << >>
  /\ Running /\ pc[w] = "lookup" => batch[w] # << >>
  /\ Running /\ pc[w] = "checkpt" /\ faults = 0 => batch[w] # << >>
  /\ pc[w] = "empty" => batch[w] = << >>
  /\ Running /\ pc[w] = "exited" /\ ~stop => batch[w] = << >>
  /\ status \in {"idle", "launched", "relaunched", "stopped", "done"} => pc[w] = "exited"
WorkersOK == \A w \in Workers : WorkerOK(w)
CountOK == activeCount = Cardinality(Playing)

TreesOK ==
  /\ Root \in DOMAIN uniqueBoards /\ status # "idle"
  /\ \A b \in DOMAIN uniqueBoards :
       uniqueBoards[b] # "NOT_PLAYED" => (uniqueBoards[b] = "PLAYED_TERMINAL" <=> Terminal(b))
  /\ \A w \in Playing : board[w] \in DOMAIN uniqueBoards
                        /\ (pc[w] = "play" <=> uniqueBoards[board[w]] = "NOT_PLAYED")

\* The moves in the tree: all of a played board, and those done of one in play.
Entered(e) ==
  \/ e.from \in DOMAIN uniqueBoards /\ uniqueBoards[e.from] # "NOT_PLAYED"
  \/ \E w \in Workers : pc[w] = "play" /\ board[w] = e.from /\ e \notin todo[w]
MovesOK ==
  /\ \A e \in Edges : e \in moves <=> Entered(e)
  /\ \A e \in moves : e.to \in DOMAIN uniqueBoards

\* A board of the tree is at one place of the queue, or once with a worker
\* that has not put it there yet.
PlacesOK == haveTrees =>
  /\ Once(file)
  /\ \A b : b \in DOMAIN uniqueBoards <=> In(b, file) \/ New(b)
  /\ \A b : ~(In(b, file) /\ New(b))
  /\ \A v, w \in Workers : \A i \in DOMAIN staged[v], j \in DOMAIN staged[w] :
       staged[v][i] = staged[w][j] => v = w /\ i = j

\* What the workers hold came from the queue, and each board is held once.
HandsOK == haveTrees /\ Running =>
  /\ \A b : Held(b) => In(b, file) /\ b \notin Pending
  /\ \A v, w \in Workers : \A i \in DOMAIN batch[v], j \in DOMAIN batch[w] :
       batch[v][i] = batch[w][j] => v = w /\ i = j
  /\ \A w \in Playing : In(board[w], file) /\ board[w] \notin Pending /\ ~Held(board[w])
  /\ \A v, w \in Playing : v # w => board[v] # board[w]
NoClash == status \notin {"move known", "board not found"}

Reachable == faults = 0 /\ haveTrees =>
  /\ Running => \A b \in NotPlayed : \/ b \in dropped \/ b \in Pending \/ Held(b) \/ New(b)
                                     \/ \E w \in Playing : board[w] = b
  /\ status \in {"stopped", "relaunched"} => \A b \in NotPlayed : b \in dropped \/ b \in Replayable
  /\ status = "board not played" => dropped # {}
Exhausted ==
  faults = 0 /\ Running /\ ~stop /\ (\A w \in Workers : pc[w] \in {"empty", "exited"})
    => Pending = {}
Whole == status = "done" /\ haveTrees =>
  /\ moves = Edges /\ DOMAIN uniqueBoards = Boards /\ NotPlayed = {}
  /\ result = Wins0[Cardinality(Boards)][Root]

\* While the trees are there.
Inv ==
  /\ haveTrees
  /\ Typed /\ QueueOK /\ Saved /\ WorkersOK /\ CountOK /\ TreesOK /\ MovesOK /\ PlacesOK
  /\ HandsOK /\ NoClash /\ Reachable /\ Exhausted /\ Whole

\* When the program has been opened and no run begun anew: a restart finds the
\* files of the queue in whatever state the closing left them, and its
\* workers go round the loop, but they play no board.
Loop == {"exited", "top", "checkpt", "lookup", "empty"}
Dead ==
  /\ ~haveTrees /\ DOMAIN uniqueBoards = {} /\ NoClash /\ status # "done"
  /\ pc \in [Workers -> Loop] /\ \A w \in Workers : board[w] = NoBoard
  /\ faults \in Nat /\ checkpointDat \in BOOLEAN

-----------------------------------------------------------------------------
LEMMA SameQueue ==
  ASSUME UNCHANGED <<file, readCursor>>
  PROVE  Pending' = Pending /\ Replayable' = Replayable
BY DEF Pending, Replayable, Places, Record, Unread

LEMMA SamePlaces ==
  ASSUME PlacesOK, UNCHANGED <<file, staged, uniqueBoards, haveTrees>>
  PROVE  PlacesOK'
BY DEF PlacesOK, New

\* Between runs, and when a run ends, no worker has anything in hand.
LEMMA NothingInHand ==
  ASSUME Typed, WorkersOK, \A w \in Workers : pc[w] = "exited"
  PROVE  Playing = {} /\ \A b : ~New(b)
<1>1. \A w \in Workers : board[w] = NoBoard /\ staged[w] = << >>
  BY DEF WorkersOK, WorkerOK
<1>2. \A w \in Workers : \A i : i \notin DOMAIN staged[w]
  BY <1>1
<1> QED  BY <1>1, <1>2 DEF Playing, New

LEMMA Wins0IsWins ==
  ASSUME \A b \in Boards : uniqueBoards[b] = "PLAYED_TERMINAL" <=> Terminal(b), moves = Edges
  PROVE  Wins = Wins0
<1>1. \A b : Known(b) = Out(b)
  BY DEF Known, Out
<1> DEFINE F(f) == [n \in Nat |-> [b \in Boards |->
                      IF n = 0 \/ uniqueBoards[b] = "PLAYED_TERMINAL" THEN Outcome[b]
                      ELSE Sum(f[n - 1], Known(b))]]
           G(f) == [n \in Nat |-> [b \in Boards |->
                      IF n = 0 \/ Terminal(b) THEN Outcome[b] ELSE Sum(f[n - 1], Out(b))]]
<1>2. \A f : F(f) = G(f)
  BY <1>1
<1>3. Wins = CHOOSE f : f = F(f)
  BY DEF Wins
<1>4. Wins0 = CHOOSE f : f = G(f)
  BY DEF Wins0
<1> HIDE DEF F, G
<1>5. (CHOOSE f : f = F(f)) = (CHOOSE f : f = G(f))
  BY <1>2
<1> QED  BY <1>3, <1>4, <1>5

-----------------------------------------------------------------------------
(* The dialog.                                                             *)

LEMMA LaunchInv == ASSUME Inv, LaunchSolver PROVE Inv'
<1>1. /\ UNCHANGED <<btp, stop, trees, workers, checkpointDat, result, faults, closes, dropped>>
      /\ Resting /\ status' \in {"launched", "relaunched"}
      /\ status' = "relaunched" => checkpointDat
  BY DEF LaunchSolver
<1>2. Pending' = Pending /\ Replayable' = Replayable
  BY <1>1, SameQueue DEF btp
<1> USE <1>1 DEF Inv, btp, trees, workers, Resting, Running
<1>3. Typed' /\ QueueOK' /\ Saved' /\ NoClash'
  BY DEF Typed, QueueOK, ReadOK, Saved, NoClash
<1>4. WorkersOK' /\ CountOK'
  BY DEF WorkersOK, WorkerOK, CountOK, Playing
<1>5. TreesOK' /\ MovesOK'
  BY DEF TreesOK, MovesOK, Entered, Playing
<1>6. PlacesOK' /\ HandsOK'
  BY DEF PlacesOK, HandsOK, New
<1>7. Reachable'
  BY <1>2 DEF Reachable, NotPlayed, TreesOK, Saved
<1>8. Exhausted' /\ Whole'
  BY DEF Exhausted, Whole
<1> QED  BY <1>3, <1>4, <1>5, <1>6, <1>7, <1>8

LEMMA ClickStopInv == ASSUME Inv, ClickStop PROVE Inv'
<1>1. /\ UNCHANGED <<btp, status, trees, workers, checkpointDat, result, bounds, dropped>>
      /\ status \in {"launched", "relaunched", "running"} /\ stop' = TRUE
  BY DEF ClickStop
<1>2. Pending' = Pending /\ Replayable' = Replayable
  BY <1>1, SameQueue DEF btp
<1> USE <1>1 DEF Inv, btp, trees, workers, bounds, Resting, Running
<1>3. Typed' /\ QueueOK' /\ Saved' /\ NoClash'
  BY DEF Typed, QueueOK, ReadOK, Saved, NoClash
<1>4. WorkersOK' /\ CountOK'
  BY DEF WorkersOK, WorkerOK, CountOK, Playing
<1>5. TreesOK' /\ MovesOK'
  BY DEF TreesOK, MovesOK, Entered, Playing
<1>6. PlacesOK' /\ HandsOK'
  BY <1>2 DEF PlacesOK, HandsOK, New, Held, Playing
<1>7. Reachable'
  <2>1. Playing' = Playing /\ NotPlayed' = NotPlayed
        /\ (\A b : New(b)' <=> New(b)) /\ \A b : Held(b)' <=> Held(b)
    BY DEF Playing, NotPlayed, New, Held
  <2> QED  BY <1>2, <2>1 DEF Reachable
<1>8. Exhausted' /\ Whole'
  BY DEF Exhausted, Whole
<1> QED  BY <1>3, <1>4, <1>5, <1>6, <1>7, <1>8

LEMMA CloseDead == ASSUME faults \in Nat, checkpointDat \in BOOLEAN, Close PROVE Dead'
<1>1. /\ UNCHANGED <<checkpointDat, faults>> /\ status' = "idle"
      /\ FreshWorkers("exited") /\ uniqueBoards' = NoTree /\ haveTrees' = FALSE
  BY DEF Close
<1>2. pc' \in [Workers -> Loop] /\ \A w \in Workers : board'[w] = NoBoard
  BY <1>1 DEF FreshWorkers, Loop
<1>3. DOMAIN uniqueBoards' = {}
  BY <1>1 DEF NoTree
<1> QED  BY <1>1, <1>2, <1>3 DEF Dead, NoClash
-----------------------------------------------------------------------------
(* The controller.                                                         *)

\* Workers that are started hold nothing.
LEMMA FreshWorkersAre ==
  ASSUME FreshWorkers("top")
  PROVE  /\ pc' \in [Workers -> Labels] /\ batch' \in [Workers -> Seq(Boards)]
         /\ board' \in [Workers -> Boards \cup {NoBoard}] /\ todo' \in [Workers -> SUBSET Edges]
         /\ staged' \in [Workers -> Seq(Boards)] /\ activeCount' = 0
         /\ \A w \in Workers : /\ pc'[w] = "top" /\ board'[w] = NoBoard
                               /\ batch'[w] = << >> /\ staged'[w] = << >>
         /\ Playing' = {} /\ CountOK'
         /\ \A b : ~New(b)' /\ ~Held(b)'
         /\ \A w \in Workers : \A i : i \notin DOMAIN batch'[w] /\ i \notin DOMAIN staged'[w]
<1>1. \A w \in Workers : /\ pc'[w] = "top" /\ board'[w] = NoBoard
                         /\ batch'[w] = << >> /\ staged'[w] = << >>
  BY DEF FreshWorkers
<1>2. Playing' = {}
  BY <1>1 DEF Playing
<1>3. \A b : ~New(b)' /\ ~Held(b)'
  BY <1>1 DEF New, Held
<1>4. CountOK'
  BY <1>2, FS_EmptySet DEF CountOK, FreshWorkers
<1>5. \A w \in Workers : \A i : i \notin DOMAIN batch'[w] /\ i \notin DOMAIN staged'[w]
  BY <1>1
<1> QED  BY <1>1, <1>2, <1>3, <1>4, <1>5 DEF FreshWorkers, Labels

LEMMA FreshStartInv ==
  ASSUME faults \in Nat, checkpointDat \in BOOLEAN, FreshStart
  PROVE  Inv'
<1>1. /\ status' = "running" /\ stop' = FALSE /\ dropped' = {} /\ haveTrees' = TRUE
      /\ uniqueBoards' = [b \in {Root} |-> "NOT_PLAYED"] /\ moves' = {}
      /\ UNCHANGED <<canStop, checkpointDat, bounds>>
      /\ FreshWorkers("top") /\ CreateWith(Root)
  BY DEF FreshStart
<1>2. /\ pc' \in [Workers -> Labels] /\ batch' \in [Workers -> Seq(Boards)]
      /\ board' \in [Workers -> Boards \cup {NoBoard}] /\ todo' \in [Workers -> SUBSET Edges]
      /\ staged' \in [Workers -> Seq(Boards)]
      /\ \A w \in Workers : /\ pc'[w] = "top" /\ board'[w] = NoBoard
                            /\ batch'[w] = << >> /\ staged'[w] = << >>
      /\ Playing' = {} /\ CountOK'
      /\ \A b : ~New(b)' /\ ~Held(b)'
      /\ \A w \in Workers : \A i : i \notin DOMAIN batch'[w] /\ i \notin DOMAIN staged'[w]
  BY <1>1, FreshWorkersAre
<1>3. /\ Filled(file', writeCursor') /\ ReadOK' /\ Once(file')
      /\ \A c : c \in Pending' <=> c = Root
      /\ \A c : In(c, file') <=> c = Root
  BY <1>1, CreateIs, GameAssumption
<1>4. DOMAIN uniqueBoards' = {Root} /\ uniqueBoards'[Root] = "NOT_PLAYED" /\ Root \in Boards
  BY <1>1, GameAssumption
<1>5. Typed' /\ QueueOK' /\ Saved' /\ NoClash'
  BY <1>1, <1>2, <1>3, <1>4 DEF Typed, bounds, States, QueueOK, Saved, Resting, NoClash
<1>6. WorkersOK'
  BY <1>1, <1>2 DEF WorkersOK, WorkerOK
<1>7. TreesOK' /\ MovesOK'
  BY <1>1, <1>2, <1>4 DEF TreesOK, MovesOK, Entered
<1>8. PlacesOK'
  BY <1>1, <1>2, <1>3, <1>4 DEF PlacesOK
<1>9. HandsOK'
  BY <1>1, <1>2 DEF HandsOK
<1>10. Reachable'
  BY <1>1, <1>3, <1>4 DEF Reachable, NotPlayed, Running
<1>11. Exhausted' /\ Whole'
  BY <1>1, <1>2, SolverAssumption DEF Exhausted, Whole
<1> QED  BY <1>1, <1>2, <1>5, <1>6, <1>7, <1>8, <1>9, <1>10, <1>11 DEF Inv, trees

LEMMA RestartInv == ASSUME Inv, Restart PROVE Inv'
<1>1. /\ status = "relaunched" /\ stop' = FALSE /\ FreshWorkers("top")
      /\ UNCHANGED <<canStop, trees, checkpointDat, result, bounds, dropped>>
      /\ \/ status' = "restart refused" /\ UNCHANGED btp
         \/ status' = "running" /\ RestartFromLastChkPt
  BY DEF Restart, Fatal
<1>2. /\ pc' \in [Workers -> Labels] /\ batch' \in [Workers -> Seq(Boards)]
      /\ board' \in [Workers -> Boards \cup {NoBoard}] /\ todo' \in [Workers -> SUBSET Edges]
      /\ staged' \in [Workers -> Seq(Boards)]
      /\ \A w \in Workers : /\ pc'[w] = "top" /\ board'[w] = NoBoard
                            /\ batch'[w] = << >> /\ staged'[w] = << >>
      /\ Playing' = {} /\ CountOK'
      /\ \A b : ~New(b)' /\ ~Held(b)'
      /\ \A w \in Workers : \A i : i \notin DOMAIN batch'[w] /\ i \notin DOMAIN staged'[w]
  BY <1>1, FreshWorkersAre
<1>3. \A w \in Workers : pc[w] = "exited"
  BY <1>1 DEF Inv, WorkersOK, WorkerOK
<1>4. Playing = {} /\ \A b : ~New(b)
  BY <1>3, NothingInHand DEF Inv
<1>5. Filled(file', writeCursor') /\ ReadOK' /\ file' = file
      /\ (status' = "running" => Pending' = Replayable)
  <2>1. CASE status' = "restart refused" /\ UNCHANGED btp
    BY <2>1 DEF Inv, QueueOK, ReadOK, btp
  <2>2. CASE status' = "running" /\ RestartFromLastChkPt
    <3>1. checkPoint = [read |-> readCursor, write |-> writeCursor]
      BY <1>1 DEF Inv, Saved
    <3>2. file' = file
      BY <2>2 DEF RestartFromLastChkPt
    <3> QED  BY <2>2, <3>1, <3>2, RestartIs DEF Inv, QueueOK
  <2> QED  BY <1>1, <2>1, <2>2
<1>6. Typed' /\ QueueOK' /\ Saved' /\ NoClash'
  BY <1>1, <1>2, <1>5 DEF Inv, Typed, bounds, trees, QueueOK, Saved, Resting, NoClash
<1>7. WorkersOK'
  BY <1>1, <1>2 DEF WorkersOK, WorkerOK
<1>8. TreesOK'
  BY <1>1, <1>2 DEF Inv, TreesOK, trees
<1>9. MovesOK'
  BY <1>1, <1>2, <1>3 DEF Inv, MovesOK, Entered, trees
<1>10. PlacesOK'
  BY <1>1, <1>2, <1>4, <1>5 DEF Inv, PlacesOK, trees
<1>11. HandsOK'
  BY <1>1, <1>2 DEF HandsOK
<1>12. Reachable'
  BY <1>1, <1>5 DEF Inv, Reachable, NotPlayed, Running, trees, bounds
<1>13. Exhausted' /\ Whole'
  BY <1>1, <1>2, SolverAssumption DEF Exhausted, Whole
<1> QED  BY <1>1, <1>2, <1>6, <1>7, <1>8, <1>9, <1>10, <1>11, <1>12, <1>13 DEF Inv, trees

\* When all that is in the tree was played, the tree is the game.
LEMMA AllPlayed ==
  ASSUME Typed, MovesOK, Root \in DOMAIN uniqueBoards, NotPlayed = {}
  PROVE  DOMAIN uniqueBoards = Boards /\ moves = Edges
<1>1. \A e \in Edges : e.from \in DOMAIN uniqueBoards => e \in moves
  BY DEF NotPlayed, MovesOK, Entered
<1>2. \A e \in Edges : e.from \in DOMAIN uniqueBoards => e.to \in DOMAIN uniqueBoards
  BY <1>1 DEF MovesOK
<1>3. DOMAIN uniqueBoards = Boards
  BY <1>2, PlayAssumption DEF Typed
<1>4. Edges \subseteq moves
  BY <1>1, <1>3, GameAssumption
<1> QED  BY <1>3, <1>4 DEF Typed

LEMMA CompleteInv == ASSUME Inv, Complete PROVE Inv'
<1>1. /\ Running /\ ~stop /\ \A w \in Workers : pc[w] = "exited"
      /\ UNCHANGED <<btp, dropped, stop, canStop, trees, workers, bounds>>
      /\ \/ status' = "done" /\ result' = CalculateWins /\ checkpointDat' = FALSE
            /\ haveTrees /\ CanCount
         \/ status' = "board not played" /\ UNCHANGED <<result, checkpointDat>>
            /\ haveTrees /\ ~(Root \in DOMAIN uniqueBoards /\ CanCount)
         \/ status' = "no tree" /\ UNCHANGED <<result, checkpointDat>> /\ ~haveTrees
  BY DEF Complete, Joined, ControllerKeeps, Fatal
<1>2. Playing = {} /\ \A b : ~New(b)
  BY <1>1, NothingInHand DEF Inv
<1>3. \A b : ~Held(b)
  <2>1. \A w \in Workers : batch[w] = << >>
    BY <1>1 DEF Inv, WorkersOK, WorkerOK
  <2>2. \A w \in Workers : \A i : i \notin DOMAIN batch[w]
    BY <2>1
  <2> QED  BY <2>2 DEF Held
<1> USE <1>1 DEF Inv, btp, trees, workers, bounds
<1>4. Typed' /\ QueueOK' /\ Saved' /\ NoClash'
  BY DEF Typed, QueueOK, ReadOK, Saved, Resting, NoClash
<1>5. WorkersOK' /\ CountOK'
  BY DEF WorkersOK, WorkerOK, CountOK, Playing, Running
<1>6. TreesOK' /\ MovesOK'
  BY DEF TreesOK, MovesOK, Entered, Playing
<1>7. PlacesOK' /\ HandsOK' /\ Exhausted'
  <2>1. PlacesOK'
    BY SamePlaces
  <2> QED  BY <2>1 DEF HandsOK, Running, Exhausted
<1>8. Reachable'
  <2> SUFFICES ASSUME status' = "board not played", faults = 0, haveTrees PROVE dropped' # {}
    BY DEF Reachable, Running
  <2>1. NotPlayed # {}
    BY DEF TreesOK, CanCount
  <2>2. Pending = {}
    BY DEF Exhausted
  <2> QED  BY <1>2, <1>3, <2>1, <2>2 DEF Reachable
<1>9. Whole'
  <2> SUFFICES ASSUME status' = "done" PROVE Whole'
    BY DEF Whole
  <2>1. NotPlayed = {} /\ Root \in DOMAIN uniqueBoards
    BY DEF CanCount, TreesOK
  <2>2. DOMAIN uniqueBoards = Boards /\ moves = Edges
    BY <2>1, AllPlayed
  <2>3. \A b \in Boards : uniqueBoards[b] = "PLAYED_TERMINAL" <=> Terminal(b)
    BY <2>1, <2>2 DEF TreesOK, NotPlayed
  <2>4. result' = Wins0[Cardinality(Boards)][Root]
    BY <2>2, <2>3, Wins0IsWins DEF CalculateWins
  <2> QED  BY <2>1, <2>2, <2>4 DEF Whole, NotPlayed
<1> QED  BY <1>4, <1>5, <1>6, <1>7, <1>8, <1>9

LEMMA SaveAndStopInv == ASSUME Inv, SaveAndStop PROVE Inv'
<1>1. /\ Running /\ stop /\ \A w \in Workers : pc[w] = "exited"
      /\ UNCHANGED <<file, readCursor, writeCursor, saveExists, stop, canStop, trees, workers, bounds, result>>
      /\ checkPoint' = [read |-> readCursor, write |-> writeCursor]
      /\ status' = "stopped" /\ checkpointDat' = TRUE
      /\ dropped' = dropped \cup ((InBatches \cap NotPlayed) \ Replayable)
  BY DEF SaveAndStop, Joined, ControllerKeeps, TakeChkPt
<1>2. Playing = {} /\ \A b : ~New(b)
  BY <1>1, NothingInHand DEF Inv
<1>3. \A b : b \in Pending => b \in Replayable
  <2>1. \A n \in DOMAIN file : \A i \in DOMAIN file[n] : Ahead(n, i) => n >= readCursor.currFileNumber
    BY DEF Inv, QueueOK, Filled, ReadOK, Cursors, Ahead
  <2> QED  BY <2>1, PendingIs, ReplayableIs
<1>4. \A b : Held(b) => b \in InBatches
  BY DEF Held, InBatches, ToSet
<1>5. Replayable' = Replayable
  BY <1>1, SameQueue
<1> USE <1>1 DEF Inv, trees, workers, bounds
<1>6. Typed' /\ QueueOK' /\ Saved' /\ NoClash'
  BY DEF Typed, QueueOK, ReadOK, Saved, Resting, NoClash
<1>7. WorkersOK' /\ CountOK'
  BY DEF WorkersOK, WorkerOK, CountOK, Playing, Running
<1>8. TreesOK' /\ MovesOK'
  BY DEF TreesOK, MovesOK, Entered, Playing
<1>9. PlacesOK' /\ HandsOK' /\ Exhausted' /\ Whole'
  BY DEF PlacesOK, HandsOK, New, Running, Exhausted, Whole
<1>10. Reachable'
  BY <1>2, <1>3, <1>4, <1>5 DEF Reachable, NotPlayed, Running
<1> QED  BY <1>6, <1>7, <1>8, <1>9, <1>10
-----------------------------------------------------------------------------
(* The workers, outside of play.                                           *)

LEMMA Moved ==
  ASSUME Typed, NEW w \in Workers, NEW label \in Labels, Goto(w, label)
  PROVE  /\ pc' \in [Workers -> Labels] /\ pc'[w] = label
         /\ \A v \in Workers : v # w => pc'[v] = pc[v]
BY DEF Typed, Goto

\* A worker that goes on in the loop touches no tree.
LEMMA LoopStep ==
  ASSUME Inv, NEW w \in Workers, pc[w] \in Loop, pc'[w] \in Loop,
         \A v \in Workers : v # w => pc'[v] = pc[v],
         UNCHANGED <<status, board, todo, staged, activeCount, uniqueBoards, moves, haveTrees, file>>
  PROVE  /\ CountOK' /\ TreesOK' /\ MovesOK' /\ PlacesOK' /\ NoClash'
         /\ Playing' = Playing /\ NotPlayed' = NotPlayed /\ \A b : New(b)' <=> New(b)
<1>1. Playing' = Playing /\ NotPlayed' = NotPlayed
  BY DEF Playing, NotPlayed
<1>2. \A b : New(b)' <=> New(b)
  BY DEF New
<1>3. CountOK' /\ NoClash'
  BY <1>1 DEF Inv, CountOK, NoClash
<1>4. \A v \in Playing : pc'[v] = pc[v]
  <2>1. board[w] = NoBoard
    BY DEF Inv, WorkersOK, WorkerOK, Loop
  <2> QED  BY <2>1 DEF Playing
<1>5. TreesOK'
  BY <1>1, <1>4 DEF Inv, TreesOK
<1>6. \A v \in Workers : pc'[v] = "play" <=> pc[v] = "play"
  BY DEF Loop
<1>7. MovesOK'
  BY <1>6 DEF Inv, MovesOK, Entered
<1>8. PlacesOK'
  BY SamePlaces DEF Inv
<1> QED  BY <1>1, <1>2, <1>3, <1>5, <1>7, <1>8

LEMMA SameHands ==
  ASSUME HandsOK, \A b : b \in Pending' => b \in Pending,
         UNCHANGED <<file, batch, board, haveTrees, status>>
  PROVE  HandsOK'
<1>1. Playing' = Playing /\ \A b : (Held(b)' <=> Held(b)) /\ (In(b, file') <=> In(b, file))
  BY DEF Playing, Held
<1> QED  BY <1>1 DEF HandsOK, Running

LEMMA SeesStopInv == ASSUME Inv, NEW w \in Workers, SeesStop(w) PROVE Inv'
<1>1. /\ Running /\ pc[w] = "top" /\ stop /\ Goto(w, "exited")
      /\ UNCHANGED <<btp, status, trees, batch, board, todo, staged, activeCount, bounds, stop,
                     checkpointDat, result, dropped>>
  BY DEF SeesStop, WorkerKeeps, trees, bounds
<1>2. pc' \in [Workers -> Labels] /\ pc'[w] = "exited" /\ \A v \in Workers : v # w => pc'[v] = pc[v]
  BY <1>1, Moved DEF Inv, Labels
<1>3. /\ CountOK' /\ TreesOK' /\ MovesOK' /\ PlacesOK' /\ NoClash'
      /\ Playing' = Playing /\ NotPlayed' = NotPlayed /\ \A b : New(b)' <=> New(b)
  BY <1>1, <1>2, LoopStep DEF Loop, btp, trees
<1>4. Pending' = Pending
  BY <1>1, SameQueue DEF btp
<1>5. Typed' /\ QueueOK' /\ Saved'
  BY <1>1, <1>2 DEF Inv, Typed, QueueOK, ReadOK, Saved, Resting, Running, btp, trees, bounds
<1>6. WorkersOK'
  BY <1>1, <1>2 DEF Inv, WorkersOK, WorkerOK, Running, bounds
<1>7. HandsOK'
  BY <1>1, <1>4, SameHands DEF Inv, btp, trees
<1>8. Reachable'
  BY <1>1, <1>3, <1>4 DEF Inv, Reachable, Running, Held, bounds, trees
<1>9. Exhausted' /\ Whole'
  BY <1>1 DEF Exhausted, Whole, Running
<1> QED  BY <1>1, <1>3, <1>5, <1>6, <1>7, <1>8, <1>9 DEF Inv, trees

LEMMA LeavesOrSleepsInv == ASSUME Inv, NEW w \in Workers, LeavesOrSleeps(w) PROVE Inv'
<1>1. /\ Running /\ pc[w] = "empty"
      /\ UNCHANGED <<btp, status, trees, batch, board, todo, staged, activeCount, bounds, stop,
                     checkpointDat, result, dropped>>
      /\ Goto(w, IF NobodyPlays THEN "exited" ELSE "top")
  BY DEF LeavesOrSleeps, WorkerKeeps, trees, bounds
<1>2. PICK label \in {"exited", "top"} : Goto(w, label)
  BY <1>1
<1>3. pc' \in [Workers -> Labels] /\ pc'[w] = label /\ \A v \in Workers : v # w => pc'[v] = pc[v]
  BY <1>2, Moved DEF Inv, Labels
<1>4. /\ CountOK' /\ TreesOK' /\ MovesOK' /\ PlacesOK' /\ NoClash'
      /\ Playing' = Playing /\ NotPlayed' = NotPlayed /\ \A b : New(b)' <=> New(b)
  BY <1>1, <1>3, LoopStep DEF Loop, btp, trees
<1>5. Pending' = Pending
  BY <1>1, SameQueue DEF btp
<1>6. Typed' /\ QueueOK' /\ Saved'
  BY <1>1, <1>3 DEF Inv, Typed, QueueOK, ReadOK, Saved, Resting, Running, btp, trees, bounds
<1>7. WorkersOK'
  BY <1>1, <1>3 DEF Inv, WorkersOK, WorkerOK, Running, bounds
<1>8. HandsOK'
  BY <1>1, <1>5, SameHands DEF Inv, btp, trees
<1>9. Reachable'
  BY <1>1, <1>4, <1>5 DEF Inv, Reachable, Running, Held, bounds, trees
<1>10. Exhausted'
  BY <1>1, <1>3, <1>5 DEF Inv, Exhausted, Running, bounds
<1>11. Whole'
  BY <1>1 DEF Whole, Running
<1> QED  BY <1>1, <1>4, <1>6, <1>7, <1>8, <1>9, <1>10, <1>11 DEF Inv, trees

LEMMA CheckPointInv == ASSUME Inv, NEW w \in Workers, CheckPoint(w) PROVE Inv'
<1>1. /\ Running /\ pc[w] = "checkpt" /\ Goto(w, IF batch[w] = << >> THEN "empty" ELSE "lookup")
      /\ UNCHANGED <<file, readCursor, writeCursor, status, trees, batch, board, todo, staged,
                     activeCount, bounds, stop, checkpointDat, result, dropped>>
  BY DEF CheckPoint, TakeChkPt, WorkerKeeps, trees, bounds
<1>0. PICK label \in {"empty", "lookup"} :
        Goto(w, label) /\ (label = "empty" <=> batch[w] = << >>)
  BY <1>1
<1>2. pc' \in [Workers -> Labels] /\ pc'[w] = label /\ \A v \in Workers : v # w => pc'[v] = pc[v]
  BY <1>0, Moved DEF Inv, Labels
<1>3. /\ CountOK' /\ TreesOK' /\ MovesOK' /\ PlacesOK' /\ NoClash'
      /\ Playing' = Playing /\ NotPlayed' = NotPlayed /\ \A b : New(b)' <=> New(b)
  BY <1>1, <1>2, LoopStep DEF Loop, trees
<1>4. Pending' = Pending
  BY <1>1, SameQueue
<1>5. Typed' /\ QueueOK' /\ Saved'
  BY <1>1, <1>2 DEF Inv, Typed, QueueOK, ReadOK, Saved, Resting, Running, trees, bounds
<1>6. WorkersOK'
  BY <1>0, <1>1, <1>2 DEF Inv, WorkersOK, WorkerOK, Running, bounds
<1>7. HandsOK'
  BY <1>1, <1>4, SameHands DEF Inv, trees
<1>8. Reachable'
  BY <1>1, <1>3, <1>4 DEF Inv, Reachable, Running, Held, bounds, trees
<1>9. Exhausted' /\ Whole'
  <2>1. faults = 0 => pc'[w] = "lookup"
    BY <1>0, <1>1, <1>2 DEF Inv, WorkersOK, WorkerOK
  <2> QED  BY <1>1, <1>2, <2>1 DEF Exhausted, Whole, Running, bounds
<1> QED  BY <1>1, <1>3, <1>5, <1>6, <1>7, <1>8, <1>9 DEF Inv, trees

LEMMA FindsNoneInv == ASSUME Inv, NEW w \in Workers, FindsNone(w) PROVE Inv'
<1>1. /\ Running /\ pc[w] = "top" /\ ~stop /\ batch[w] = << >>
      /\ UNCHANGED <<status, trees, batch, board, todo, staged, activeCount, stop,
                     checkpointDat, result, dropped>>
      /\ \/ NoMoreData /\ UNCHANGED <<btp, faults>> /\ Goto(w, "empty")
         \/ /\ faults' = faults + 1
            /\ \/ OpenFails /\ Goto(w, "empty")
               \/ ReadFails /\ Goto(w, IF TakesCheckPoint THEN "checkpt" ELSE "empty")
  BY DEF FindsNone, WorkerKeeps, trees
<1>2. /\ Filled(file', writeCursor') /\ ReadOK' /\ file' = file
      /\ \A b : b \in Pending' => b \in Pending
      /\ faults' \in Nat /\ (faults' = 0 => faults = 0 /\ Pending = {} /\ Pending' = {})
  <2>0. Filled(file, writeCursor) /\ ReadOK /\ faults \in Nat
    BY DEF Inv, QueueOK, Typed
  <2>1. CASE NoMoreData /\ UNCHANGED <<btp, faults>>
    <3>1. Pending' = Pending /\ Pending = {}
      BY <2>0, <2>1, SameQueue, NoMoreDataIs DEF btp
    <3> QED  BY <2>0, <2>1, <3>1 DEF btp, ReadOK
  <2>2. CASE faults' = faults + 1 /\ OpenFails
    <3>1. file' = file
      BY <2>2 DEF OpenFails
    <3> QED  BY <2>0, <2>2, <3>1, OpenFailsIs
  <2>3. CASE faults' = faults + 1 /\ ReadFails
    <3>1. file' = file
      BY <2>3 DEF ReadFails
    <3> QED  BY <2>0, <2>3, <3>1, ReadFailsIs
  <2> QED  BY <1>1, <2>1, <2>2, <2>3
<1>10. PICK label \in {"checkpt", "empty"} : Goto(w, label) /\ (faults' = 0 => label = "empty")
  <2>1. faults \in Nat
    BY DEF Inv, Typed
  <2> QED  BY <1>1, <2>1
<1>3. pc' \in [Workers -> Labels] /\ pc'[w] = label /\ \A v \in Workers : v # w => pc'[v] = pc[v]
  BY <1>10, Moved DEF Inv, Labels
<1>4. /\ CountOK' /\ TreesOK' /\ MovesOK' /\ PlacesOK' /\ NoClash'
      /\ Playing' = Playing /\ NotPlayed' = NotPlayed /\ \A b : New(b)' <=> New(b)
  BY <1>1, <1>2, <1>3, LoopStep DEF Loop, trees
<1>5. Typed' /\ QueueOK' /\ Saved'
  BY <1>1, <1>2, <1>3 DEF Inv, Typed, QueueOK, Saved, Resting, Running, trees
<1>6. WorkersOK'
  BY <1>1, <1>2, <1>3, <1>10 DEF Inv, WorkersOK, WorkerOK, Running
<1>7. HandsOK'
  BY <1>1, <1>2, SameHands DEF Inv, trees
<1>8. Reachable'
  BY <1>1, <1>2, <1>4 DEF Inv, Reachable, Running, Held, trees
<1>9. Exhausted' /\ Whole'
  BY <1>1, <1>2 DEF Exhausted, Whole, Running
<1> QED  BY <1>1, <1>4, <1>5, <1>6, <1>7, <1>8, <1>9 DEF Inv, trees

LEMMA RefillInv == ASSUME Inv, NEW w \in Workers, Refill(w) PROVE Inv'
<1> DEFINE got == NextBatch(WORKER_BATCH_SIZE)
<1>1. /\ Running /\ pc[w] = "top" /\ ~stop /\ batch[w] = << >>
      /\ GetNextRecordBatch(WORKER_BATCH_SIZE)
      /\ batch' = [batch EXCEPT ![w] = got] /\ file' = file
      /\ Goto(w, IF TakesCheckPoint THEN "checkpt" ELSE "lookup")
      /\ UNCHANGED <<status, trees, board, todo, staged, activeCount, bounds, stop,
                     checkpointDat, result, dropped>>
  BY DEF Refill, GetNextRecordBatch, WorkerKeeps, trees, bounds
<1>2. /\ Filled(file', writeCursor') /\ ReadOK'
      /\ got \in Seq(Boards) /\ got # << >>
      /\ \A b : b \in Pending <=> b \in Pending' \/ b \in ToSet(got)
      /\ Once(file) => /\ ToSet(got) \cap Pending' = {}
                       /\ \A i, j \in DOMAIN got : got[i] = got[j] => i = j
  BY <1>1, RefillIs, SolverAssumption DEF Inv, QueueOK
<1> HIDE DEF got
<1>3. PICK label \in {"checkpt", "lookup"} : Goto(w, label)
  BY <1>1
<1>4. pc' \in [Workers -> Labels] /\ pc'[w] = label /\ \A v \in Workers : v # w => pc'[v] = pc[v]
  BY <1>3, Moved DEF Inv, Labels
<1>5. /\ CountOK' /\ TreesOK' /\ MovesOK' /\ PlacesOK' /\ NoClash'
      /\ Playing' = Playing /\ NotPlayed' = NotPlayed /\ \A b : New(b)' <=> New(b)
  BY <1>1, <1>4, LoopStep DEF Loop, trees
<1>6. batch' \in [Workers -> Seq(Boards)] /\ batch'[w] = got
      /\ \A v \in Workers : v # w => batch'[v] = batch[v]
  BY <1>1, <1>2 DEF Inv, Typed
<1>7. Typed' /\ QueueOK' /\ Saved'
  BY <1>1, <1>2, <1>4, <1>6 DEF Inv, Typed, QueueOK, Saved, Resting, Running, trees, bounds
<1>8. WorkersOK'
  BY <1>1, <1>2, <1>4, <1>6 DEF Inv, WorkersOK, WorkerOK, Running, bounds
<1>9. \A b : b \in ToSet(got) <=> \E i \in DOMAIN got : got[i] = b
  BY DEF ToSet
<1>10. \A b : Held(b)' <=> Held(b) \/ b \in ToSet(got)
  <2>1. \A i : i \notin DOMAIN batch[w]
    BY <1>1
  <2>2. ASSUME NEW b, Held(b) \/ b \in ToSet(got) PROVE Held(b)'
    BY <1>6, <1>9, <2>1, <2>2 DEF Held
  <2>3. ASSUME NEW b, Held(b)' PROVE Held(b) \/ b \in ToSet(got)
    BY <1>6, <1>9, <2>3 DEF Held
  <2> QED  BY <2>2, <2>3
<1>11. HandsOK'
  <2> SUFFICES ASSUME haveTrees PROVE HandsOK'
    BY <1>1 DEF HandsOK, trees
  <2>1. /\ \A b : Held(b) => In(b, file) /\ b \notin Pending
        /\ \A u, v \in Workers : \A i \in DOMAIN batch[u], j \in DOMAIN batch[v] :
             batch[u][i] = batch[v][j] => u = v /\ i = j
        /\ \A v \in Playing : In(board[v], file) /\ board[v] \notin Pending /\ ~Held(board[v])
        /\ \A u, v \in Playing : u # v => board[u] # board[v]
    BY <1>1 DEF Inv, HandsOK
  <2>2. Once(file)
    BY DEF Inv, PlacesOK
  <2>3. \A b : b \in Pending => In(b, file)
    BY PendingIs DEF In
  <2>4. \A b : Held(b)' => In(b, file') /\ b \notin Pending'
    BY <1>1, <1>2, <1>10, <2>1, <2>2, <2>3
  <2>5. \A u, v \in Workers : \A i \in DOMAIN batch'[u], j \in DOMAIN batch'[v] :
             batch'[u][i] = batch'[v][j] => u = v /\ i = j
    <3>1. \A v \in Workers : \A i \in DOMAIN batch[v] : batch[v][i] \notin ToSet(got)
      BY <1>2, <2>1 DEF Held
    <3> QED  BY <1>2, <1>6, <1>9, <2>1, <2>2, <3>1
  <2>6. \A v \in Playing' : In(board'[v], file') /\ board'[v] \notin Pending' /\ (~Held(board[v]))'
    BY <1>1, <1>2, <1>5, <1>10, <2>1
  <2>7. \A u, v \in Playing' : u # v => board'[u] # board'[v]
    BY <1>1, <1>5, <2>1
  <2> QED  BY <2>4, <2>5, <2>6, <2>7 DEF HandsOK
<1>12. Reachable'
  BY <1>1, <1>2, <1>5, <1>10 DEF Inv, Reachable, Running, bounds, trees
<1>13. Exhausted' /\ Whole'
  BY <1>1, <1>4 DEF Exhausted, Whole, Running
<1> QED  BY <1>1, <1>5, <1>7, <1>8, <1>11, <1>12, <1>13 DEF Inv, trees
\* The board that is next, and what is left of the batch.
LEMMA TailIs ==
  ASSUME NEW S, NEW s \in Seq(S), s # << >>
  PROVE  /\ Head(s) = s[1] /\ Head(s) \in S /\ 1 \in DOMAIN s /\ Tail(s) \in Seq(S)
         /\ \A i \in DOMAIN Tail(s) : i + 1 \in DOMAIN s /\ i + 1 # 1 /\ Tail(s)[i] = s[i + 1]
         /\ \A i \in DOMAIN s : i # 1 => i - 1 \in DOMAIN Tail(s) /\ Tail(s)[i - 1] = s[i]
         /\ \A i, j \in DOMAIN Tail(s) : i + 1 = j + 1 => i = j
<1>1. /\ Tail(s) \in Seq(S) /\ Len(Tail(s)) = Len(s) - 1
      /\ \A i \in 1..Len(Tail(s)) : Tail(s)[i] = s[i + 1]
  BY HeadTailProperties
<1>2. Len(s) \in Nat /\ Len(s) # 0 /\ DOMAIN s = 1..Len(s) /\ DOMAIN Tail(s) = 1..(Len(s) - 1)
  BY <1>1
<1>3. Head(s) = s[1] /\ 1 \in DOMAIN s /\ s[1] \in S
  BY <1>2
<1>4. ASSUME NEW i \in DOMAIN Tail(s)
      PROVE  i + 1 \in DOMAIN s /\ i + 1 # 1 /\ Tail(s)[i] = s[i + 1]
  <2>1. i \in 1..Len(Tail(s)) /\ i + 1 \in 1..Len(s) /\ i + 1 # 1
    BY <1>1, <1>2
  <2> QED  BY <1>1, <1>2, <2>1
<1>5. ASSUME NEW i \in DOMAIN s, i # 1
      PROVE  i - 1 \in DOMAIN Tail(s) /\ Tail(s)[i - 1] = s[i]
  <2>1. i - 1 \in 1..(Len(s) - 1) /\ (i - 1) + 1 = i
    BY <1>2, <1>5
  <2>2. i - 1 \in 1..Len(Tail(s))
    BY <1>1, <2>1
  <2> QED  BY <1>1, <1>2, <2>1, <2>2
<1>6. \A i, j \in DOMAIN Tail(s) : i + 1 = j + 1 => i = j
  BY <1>2
<1> QED  BY <1>1, <1>3, <1>4, <1>5, <1>6

LEMMA PlayingFinite == IsFiniteSet(Playing) /\ Cardinality(Playing) \in Nat
<1>1. IsFiniteSet(Playing)
  BY SolverAssumption, FS_Subset DEF Playing
<1> QED  BY <1>1, FS_CardinalityType

OnceHeld ==
  \A u, v \in Workers : \A i \in DOMAIN batch[u], j \in DOMAIN batch[v] :
    batch[u][i] = batch[v][j] => u = v /\ i = j

\* What a batch loses by its head.
LEMMA BatchLoses ==
  ASSUME Typed, NEW w \in Workers, batch[w] # << >>, batch' = [batch EXCEPT ![w] = Tail(@)]
  PROVE  /\ batch' \in [Workers -> Seq(Boards)]
         /\ \A v \in Workers : v # w => batch'[v] = batch[v]
         /\ Head(batch[w]) \in Boards /\ Held(Head(batch[w]))
         /\ \A b : Held(b)' => Held(b)
         /\ \A b : Held(b) => Held(b)' \/ b = Head(batch[w])
         /\ OnceHeld => OnceHeld' /\ \A b : b = Head(batch[w]) => ~Held(b)'
<1> DEFINE s == batch[w]
           first == Head(s)
<1>1. /\ first = s[1] /\ first \in Boards /\ 1 \in DOMAIN s /\ Tail(s) \in Seq(Boards)
      /\ \A i \in DOMAIN Tail(s) : i + 1 \in DOMAIN s /\ i + 1 # 1 /\ Tail(s)[i] = s[i + 1]
      /\ \A i \in DOMAIN s : i # 1 => i - 1 \in DOMAIN Tail(s) /\ Tail(s)[i - 1] = s[i]
      /\ \A i, j \in DOMAIN Tail(s) : i + 1 = j + 1 => i = j
  BY TailIs DEF Typed
<1> HIDE DEF first
<1>2. batch' \in [Workers -> Seq(Boards)] /\ batch'[w] = Tail(s)
      /\ \A v \in Workers : v # w => batch'[v] = batch[v]
  BY <1>1 DEF Typed
<1>3. ASSUME NEW v \in Workers, NEW i \in DOMAIN batch'[v]
      PROVE  \E j \in DOMAIN batch[v] : /\ batch'[v][i] = batch[v][j]
                                        /\ v = w => j = i + 1 /\ j # 1
                                        /\ v # w => j = i
  BY <1>1, <1>2
<1>4. ASSUME NEW b, Held(b)' PROVE Held(b)
  BY <1>3, <1>4 DEF Held
<1>5. ASSUME NEW b, Held(b), b # first PROVE Held(b)'
  <2>1. PICK v \in Workers : \E i \in DOMAIN batch[v] : batch[v][i] = b
    BY <1>5 DEF Held
  <2>2. PICK i \in DOMAIN batch[v] : batch[v][i] = b
    BY <2>1
  <2>3. CASE v = w
    <3>1. i # 1
      BY <1>1, <1>5, <2>2, <2>3
    <3>2. i - 1 \in DOMAIN batch'[w] /\ batch'[w][i - 1] = b
      BY <1>1, <1>2, <2>2, <2>3, <3>1
    <3> QED  BY <3>2 DEF Held
  <2>4. CASE v # w
    BY <1>2, <2>2, <2>4 DEF Held
  <2> QED  BY <2>3, <2>4
<1>6. ASSUME OnceHeld PROVE OnceHeld' /\ \A b : b = first => ~Held(b)'
  <2>1. ASSUME NEW u \in Workers, NEW v \in Workers, NEW i \in DOMAIN batch'[u], NEW j \in DOMAIN batch'[v],
               batch'[u][i] = batch'[v][j]
        PROVE  u = v /\ i = j
    <3>1. PICK k \in DOMAIN batch[u] : /\ batch'[u][i] = batch[u][k]
                                       /\ u = w => k = i + 1 /\ k # 1
                                       /\ u # w => k = i
      BY <1>3
    <3>2. PICK l \in DOMAIN batch[v] : /\ batch'[v][j] = batch[v][l]
                                       /\ v = w => l = j + 1 /\ l # 1
                                       /\ v # w => l = j
      BY <1>3
    <3>3. u = v /\ k = l
      BY <1>6, <2>1, <3>1, <3>2 DEF OnceHeld
    <3> QED  BY <1>1, <1>2, <3>1, <3>2, <3>3
  <2>2. ASSUME NEW v \in Workers, NEW i \in DOMAIN batch'[v], batch'[v][i] = first PROVE FALSE
    <3>1. PICK j \in DOMAIN batch[v] : /\ batch'[v][i] = batch[v][j]
                                       /\ v = w => j = i + 1 /\ j # 1
                                       /\ v # w => j = i
      BY <1>3
    <3>2. batch[v][j] = batch[w][1] /\ 1 \in DOMAIN batch[w]
      BY <1>1, <2>2, <3>1
    <3>3. v = w /\ j = 1
      BY <1>6, <3>2 DEF OnceHeld
    <3> QED  BY <3>1, <3>3
  <2>3. OnceHeld'
    BY <2>1 DEF OnceHeld
  <2>4. ASSUME NEW b, b = first, Held(b)' PROVE FALSE
    BY <2>2, <2>4 DEF Held
  <2> QED  BY <2>3, <2>4
<1>7. Held(first)
  BY <1>1 DEF Held
<1> QED  BY <1>1, <1>2, <1>4, <1>5, <1>6, <1>7 DEF first

\* A board in a batch is in the tree.
LEMMA HeldIsThere ==
  ASSUME Inv, Running, haveTrees, NEW b, Held(b)
  PROVE  b \in DOMAIN uniqueBoards /\ In(b, file) /\ b \notin Pending
BY DEF Inv, HandsOK, PlacesOK

\* A board of a batch is in the tree.
LEMMA TakesThere ==
  ASSUME Inv, NEW w \in Workers, TakesBoard(w)
  PROVE  Head(batch[w]) \in DOMAIN uniqueBoards
<1>1. Running /\ batch[w] # << >>
  BY DEF TakesBoard, HasNext, Inv, WorkersOK, WorkerOK
<1>2. Held(Head(batch[w]))
  <2>1. batch[w] \in Seq(Boards)
    BY DEF Inv, Typed
  <2>2. 1 \in DOMAIN batch[w] /\ Head(batch[w]) = batch[w][1]
    BY <1>1, <2>1
  <2> QED  BY <2>2 DEF Held
<1> QED  BY <1>1, <1>2, HeldIsThere DEF Inv

\* The board was played before: it is skipped.
LEMMA TakesPlayed ==
  ASSUME Inv, NEW w \in Workers, TakesBoard(w), Head(batch[w]) \in DOMAIN uniqueBoards,
         uniqueBoards[Head(batch[w])] # "NOT_PLAYED"
  PROVE  Inv'
<1>1. /\ Running /\ pc[w] \in {"top", "lookup"} /\ batch[w] # << >>
      /\ batch' = [batch EXCEPT ![w] = Tail(@)] /\ Goto(w, "top")
      /\ UNCHANGED <<btp, status, trees, staged, board, todo, activeCount, bounds, stop,
                     checkpointDat, result, dropped>>
  BY DEF TakesBoard, HasNext, WorkerKeeps, trees, bounds, Inv, WorkersOK, WorkerOK
<1>2. /\ batch' \in [Workers -> Seq(Boards)]
      /\ \A v \in Workers : v # w => batch'[v] = batch[v]
      /\ \A b : Held(b)' => Held(b)
      /\ \A b : Held(b) => Held(b)' \/ b = Head(batch[w])
      /\ OnceHeld => OnceHeld'
  BY <1>1, BatchLoses DEF Inv
<1>3. pc' \in [Workers -> Labels] /\ pc'[w] = "top" /\ \A v \in Workers : v # w => pc'[v] = pc[v]
  BY <1>1, Moved DEF Inv, Labels
<1>4. /\ CountOK' /\ TreesOK' /\ MovesOK' /\ PlacesOK' /\ NoClash'
      /\ Playing' = Playing /\ NotPlayed' = NotPlayed /\ \A b : New(b)' <=> New(b)
  BY <1>1, <1>3, LoopStep DEF Loop, btp, trees
<1>5. Pending' = Pending
  BY <1>1, SameQueue DEF btp
<1>6. Typed' /\ QueueOK' /\ Saved'
  BY <1>1, <1>2, <1>3 DEF Inv, Typed, QueueOK, ReadOK, Saved, Resting, Running, btp, trees, bounds
<1>7. WorkersOK'
  BY <1>1, <1>2, <1>3 DEF Inv, WorkersOK, WorkerOK, Running, bounds
<1>8. HandsOK'
  BY <1>1, <1>2, <1>4, <1>5 DEF Inv, HandsOK, Running, OnceHeld, btp, trees
<1>9. Reachable'
  <2>1. Head(batch[w]) \notin NotPlayed
    BY DEF NotPlayed
  <2> QED  BY <1>1, <1>2, <1>4, <1>5, <2>1 DEF Inv, Reachable, Running, bounds, trees
<1>10. Exhausted' /\ Whole'
  BY <1>1, <1>3 DEF Exhausted, Whole, Running
<1> QED  BY <1>1, <1>4, <1>6, <1>7, <1>8, <1>9, <1>10 DEF Inv, trees

\* The board is to be played.
LEMMA TakesOne ==
  ASSUME Inv, NEW w \in Workers, TakesBoard(w), Head(batch[w]) \in DOMAIN uniqueBoards,
         uniqueBoards[Head(batch[w])] = "NOT_PLAYED"
  PROVE  Inv'
<1> DEFINE b == Head(batch[w])
<1>1. /\ Running /\ pc[w] \in {"top", "lookup"} /\ batch[w] # << >>
      /\ batch' = [batch EXCEPT ![w] = Tail(@)] /\ Goto(w, "play")
      /\ board' = [board EXCEPT ![w] = b] /\ todo' = [todo EXCEPT ![w] = Out(b)]
      /\ activeCount' = activeCount + 1
      /\ UNCHANGED <<btp, status, trees, staged, bounds, stop, checkpointDat, result, dropped>>
  BY DEF TakesBoard, HasNext, WorkerKeeps, trees, bounds, Inv, WorkersOK, WorkerOK
<1>2. /\ batch' \in [Workers -> Seq(Boards)]
      /\ \A v \in Workers : v # w => batch'[v] = batch[v]
      /\ b \in Boards /\ Held(b)
      /\ \A c : Held(c)' => Held(c)
      /\ \A c : Held(c) => Held(c)' \/ c = b
      /\ OnceHeld => OnceHeld' /\ \A c : c = b => ~Held(c)'
  BY <1>1, BatchLoses DEF Inv
<1>3. pc' \in [Workers -> Labels] /\ pc'[w] = "play" /\ \A v \in Workers : v # w => pc'[v] = pc[v]
  BY <1>1, Moved DEF Inv, Labels
<1>4. b \in DOMAIN uniqueBoards /\ uniqueBoards[b] = "NOT_PLAYED"
  OBVIOUS
<1> HIDE DEF b
<1>5. /\ board' \in [Workers -> Boards \cup {NoBoard}] /\ todo' \in [Workers -> SUBSET Edges]
      /\ board'[w] = b /\ todo'[w] = Out(b) /\ b # NoBoard
      /\ \A v \in Workers : v # w => board'[v] = board[v] /\ todo'[v] = todo[v]
  BY <1>1, <1>2, GameAssumption DEF Inv, Typed, Out
<1>6. haveTrees
  BY <1>4 DEF Inv, TreesOK, NoTree
<1>7. w \notin Playing /\ Playing' = Playing \cup {w}
  <2>1. w \notin Playing
    BY <1>1 DEF Inv, WorkersOK, WorkerOK, Playing
  <2> QED  BY <1>5, <2>1 DEF Playing
<1>8. CountOK'
  BY <1>1, <1>7, PlayingFinite, FS_AddElement DEF Inv, CountOK
<1>9. Pending' = Pending /\ NotPlayed' = NotPlayed /\ \A c : New(c)' <=> New(c)
  BY <1>1, SameQueue DEF btp, NotPlayed, trees, New
<1>10. In(b, file) /\ b \notin Pending
  BY <1>1, <1>2, <1>6, HeldIsThere
<1>11. Typed' /\ QueueOK' /\ Saved' /\ NoClash'
  BY <1>1, <1>2, <1>3, <1>5 DEF Inv, Typed, QueueOK, ReadOK, Saved, Resting, Running, NoClash, btp, trees, bounds
<1>12. WorkersOK'
  BY <1>1, <1>2, <1>3, <1>5 DEF Inv, WorkersOK, WorkerOK, Running, bounds
<1>13. TreesOK'
  <2>1. \A v \in Playing' : board'[v] \in DOMAIN uniqueBoards
                           /\ (pc'[v] = "play" <=> uniqueBoards[board'[v]] = "NOT_PLAYED")
    <3> TAKE v \in Playing'
    <3>1. CASE v = w
      BY <1>3, <1>4, <1>5, <3>1
    <3>2. CASE v # w
      BY <1>3, <1>5, <1>7, <3>2 DEF Inv, TreesOK, Playing
    <3> QED  BY <3>1, <3>2
  <2> QED  BY <1>1, <1>6, <2>1 DEF Inv, TreesOK, trees, Running
<1>14. MovesOK'
  <2>1. ASSUME NEW e \in Edges, NEW v \in Workers
        PROVE  pc'[v] = "play" /\ board'[v] = e.from /\ e \notin todo'[v]
                 <=> pc[v] = "play" /\ board[v] = e.from /\ e \notin todo[v]
    <3>1. CASE v = w
      BY <1>1, <1>5, <3>1 DEF Out
    <3>2. CASE v # w
      BY <1>3, <1>5, <3>2
    <3> QED  BY <3>1, <3>2
  <2>2. \A e \in Edges : Entered(e)' <=> Entered(e)
    BY <1>1, <2>1 DEF Entered, trees
  <2> QED  BY <1>1, <2>2 DEF Inv, MovesOK, trees
<1>15. PlacesOK'
  BY <1>1, SamePlaces DEF Inv, trees, btp
<1>16. HandsOK'
  <2>1. /\ \A c : Held(c) => In(c, file) /\ c \notin Pending
        /\ OnceHeld
        /\ \A v \in Playing : In(board[v], file) /\ board[v] \notin Pending /\ ~Held(board[v])
        /\ \A u, v \in Playing : u # v => board[u] # board[v]
    BY <1>1, <1>6 DEF Inv, HandsOK, OnceHeld
  <2>2. \A c : Held(c)' => In(c, file') /\ c \notin Pending'
    BY <1>1, <1>2, <1>9, <2>1 DEF btp
  <2>3. OnceHeld'
    BY <1>2, <2>1
  <2>4. \A v \in Playing' : In(board'[v], file') /\ board'[v] \notin Pending' /\ (~Held(board[v]))'
    <3> TAKE v \in Playing'
    <3>1. CASE v = w
      BY <1>1, <1>2, <1>5, <1>9, <1>10, <2>1, <3>1 DEF btp
    <3>2. CASE v # w
      <4>1. v \in Playing /\ board'[v] = board[v]
        BY <1>5, <1>7, <3>2 DEF Playing
      <4> QED  BY <1>1, <1>2, <1>9, <2>1, <4>1 DEF btp
    <3> QED  BY <3>1, <3>2
  <2>5. \A u, v \in Playing' : u # v => board'[u] # board'[v]
    <3>1. \A v \in Playing : v \in Workers /\ v # w /\ board'[v] = board[v] /\ board[v] # b
      BY <1>2, <1>5, <1>7, <2>1 DEF Playing
    <3> QED  BY <1>5, <1>7, <2>1, <3>1
  <2> QED  BY <2>2, <2>3, <2>4, <2>5 DEF HandsOK, OnceHeld
<1>17. Reachable'
  <2>1. \A c : (\E v \in Playing : board[v] = c) => \E v \in Playing' : board'[v] = c
    BY <1>5, <1>7 DEF Playing
  <2>2. \E v \in Playing' : board'[v] = b
    BY <1>5, <1>7
  <2> QED  BY <1>1, <1>2, <1>9, <2>1, <2>2 DEF Inv, Reachable, Running, bounds, trees
<1>18. Exhausted' /\ Whole'
  BY <1>1, <1>3 DEF Exhausted, Whole, Running
<1> QED  BY <1>1, <1>8, <1>11, <1>12, <1>13, <1>14, <1>15, <1>16, <1>17, <1>18 DEF Inv, trees

LEMMA TakesBoardInv == ASSUME Inv, NEW w \in Workers, TakesBoard(w) PROVE Inv'
BY TakesThere, TakesPlayed, TakesOne
-----------------------------------------------------------------------------
(* The workers, in play.                                                   *)

LEMMA FirstOfIs == ASSUME NEW es \in SUBSET Edges, es # {} PROVE FirstOf(es) \in es
<1> DEFINE S == {e.idx : e \in es}
<1>1. S \in SUBSET Nat /\ S # {}
  BY GameAssumption
<1>2. PICK x \in S : \A y \in S : x <= y
  BY <1>1, LeastNumber
<1>3. \E e \in es : \A d \in es : e.idx <= d.idx
  BY <1>2
<1> QED  BY <1>3 DEF FirstOf

\* A worker in play, and what it plays.
LEMMA InPlay ==
  ASSUME Inv, Running, NEW w \in Workers, pc[w] \in {"play", "flush", "leave"}
  PROVE  /\ w \in Playing /\ haveTrees /\ board[w] \in DOMAIN uniqueBoards /\ board[w] \in Boards
         /\ pc[w] = "play" <=> uniqueBoards[board[w]] = "NOT_PLAYED"
         /\ \A v \in Workers : v # w => board[v] # board[w]
<1>1. w \in Playing /\ board[w] # NoBoard
  BY DEF Inv, WorkersOK, WorkerOK, Playing
<1>2. haveTrees /\ board[w] \in DOMAIN uniqueBoards
      /\ (pc[w] = "play" <=> uniqueBoards[board[w]] = "NOT_PLAYED")
  BY <1>1 DEF Inv, TreesOK
<1>3. \A v \in Workers : v # w => board[v] # board[w]
  BY <1>1, <1>2 DEF Inv, HandsOK, Playing
<1> QED  BY <1>1, <1>2, <1>3 DEF Inv, Typed

LEMMA AddBoardAndMoveInv == ASSUME Inv, NEW w \in Workers, AddBoardAndMove(w) PROVE Inv'
<1> DEFINE e == FirstOf(todo[w])
<1>1. /\ Running /\ pc[w] = "play" /\ todo[w] # {}
      /\ todo' = [todo EXCEPT ![w] = todo[w] \ {e}]
      /\ staged' = IF e.to \notin DOMAIN uniqueBoards THEN [staged EXCEPT ![w] = Append(staged[w], e.to)]
                   ELSE staged
      /\ uniqueBoards' = [b \in DOMAIN uniqueBoards \cup {e.to} |->
                            IF b \in DOMAIN uniqueBoards THEN uniqueBoards[b] ELSE "NOT_PLAYED"]
      /\ moves' = moves \cup {e}
      /\ e \notin moves => UNCHANGED status
      /\ UNCHANGED <<btp, pc, batch, board, activeCount, faults, stop, haveTrees, checkpointDat,
                     result, dropped>>
  BY DEF AddBoardAndMove, WorkerKeeps, Stages
<1>2. e \in todo[w] /\ e \in Edges /\ todo[w] \in SUBSET Edges
  BY <1>1, FirstOfIs DEF Inv, Typed
<1>3. e.from = board[w] /\ e.to \in Boards
  BY <1>1, <1>2, GameAssumption DEF Inv, WorkersOK, WorkerOK, Out
<1>4. /\ w \in Playing /\ haveTrees /\ board[w] \in DOMAIN uniqueBoards /\ board[w] \in Boards
      /\ uniqueBoards[board[w]] = "NOT_PLAYED"
      /\ \A v \in Workers : v # w => board[v] # board[w]
  BY <1>1, InPlay
<1>5. e \notin moves
  <2> SUFFICES ASSUME Entered(e) PROVE FALSE
    BY <1>2 DEF Inv, MovesOK
  <2> QED  BY <1>2, <1>3, <1>4 DEF Entered
<1>6. status' = status
  BY <1>1, <1>5
<1>7. PICK f : f = e
  OBVIOUS
<1>8. /\ todo' \in [Workers -> SUBSET Edges] /\ todo'[w] = todo[w] \ {f}
      /\ \A v \in Workers : v # w => todo'[v] = todo[v]
  BY <1>1, <1>2, <1>7 DEF Inv, Typed
<1>9. /\ DOMAIN uniqueBoards' = DOMAIN uniqueBoards \cup {f.to}
      /\ \A b \in DOMAIN uniqueBoards : uniqueBoards'[b] = uniqueBoards[b]
      /\ f.to \notin DOMAIN uniqueBoards => uniqueBoards'[f.to] = "NOT_PLAYED"
      /\ moves' = moves \cup {f}
      /\ f \in Edges /\ f \in todo[w] /\ f.from = board[w] /\ f.to \in Boards
      /\ staged' = IF f.to \notin DOMAIN uniqueBoards THEN [staged EXCEPT ![w] = Append(staged[w], f.to)]
                   ELSE staged
  BY <1>1, <1>2, <1>3, <1>7
<1> HIDE DEF e
<1>10. Playing' = Playing /\ Pending' = Pending /\ \A b : Held(b)' <=> Held(b)
  BY <1>1, SameQueue DEF Playing, Held, btp
<1>11. /\ staged' \in [Workers -> Seq(Boards)]
       /\ \A v \in Workers : v # w => staged'[v] = staged[v]
       /\ f.to \in DOMAIN uniqueBoards => staged' = staged
       /\ f.to \notin DOMAIN uniqueBoards => staged'[w] = Append(staged[w], f.to)
  BY <1>9 DEF Inv, Typed
<1>12. /\ f.to \in DOMAIN uniqueBoards =>
             \A v \in Workers : \A i \in DOMAIN staged'[v] : i \in DOMAIN staged[v] /\ staged'[v][i] = staged[v][i]
       /\ f.to \notin DOMAIN uniqueBoards =>
             \A v \in Workers : \A i \in DOMAIN staged'[v] :
               \/ i \in DOMAIN staged[v] /\ staged'[v][i] = staged[v][i]
               \/ v = w /\ i = Len(staged[w]) + 1 /\ staged'[v][i] = f.to
       /\ \A v \in Workers : \A i \in DOMAIN staged[v] : i \in DOMAIN staged'[v] /\ staged'[v][i] = staged[v][i]
       /\ f.to \notin DOMAIN uniqueBoards => \E i \in DOMAIN staged'[w] : staged'[w][i] = f.to
  <2>1. CASE f.to \in DOMAIN uniqueBoards
    BY <1>11, <2>1
  <2>2. CASE f.to \notin DOMAIN uniqueBoards
    <3>1. staged[w] \in Seq(Boards) /\ staged'[w] = Append(staged[w], f.to)
      BY <1>11, <2>2 DEF Inv, Typed
    <3>2. /\ Len(staged[w]) \in Nat /\ DOMAIN staged[w] = 1..Len(staged[w])
          /\ DOMAIN staged'[w] = 1..(Len(staged[w]) + 1)
          /\ staged'[w][Len(staged[w]) + 1] = f.to
          /\ \A i \in 1..Len(staged[w]) : staged'[w][i] = staged[w][i]
      BY <1>9, <3>1, AppendProperties
    <3>3. \A i \in DOMAIN staged'[w] : \/ i \in DOMAIN staged[w] /\ staged'[w][i] = staged[w][i]
                                       \/ i = Len(staged[w]) + 1 /\ staged'[w][i] = f.to
      BY <3>2
    <3>4. \A i \in DOMAIN staged[w] : i \in DOMAIN staged'[w] /\ staged'[w][i] = staged[w][i]
      BY <3>2
    <3>5. Len(staged[w]) + 1 \in DOMAIN staged'[w]
      BY <3>2
    <3> QED  BY <1>11, <2>2, <3>2, <3>3, <3>4, <3>5
  <2> QED  BY <2>1, <2>2
<1>13. \A b : New(b)' <=> New(b) \/ (b = f.to /\ f.to \notin DOMAIN uniqueBoards)
  <2>1. ASSUME NEW b, New(b)' PROVE New(b) \/ (b = f.to /\ f.to \notin DOMAIN uniqueBoards)
    BY <1>12, <2>1 DEF New
  <2>2. ASSUME NEW b, New(b) PROVE New(b)'
    BY <1>12, <2>2 DEF New
  <2>3. ASSUME f.to \notin DOMAIN uniqueBoards, NEW b, b = f.to PROVE New(b)'
    BY <1>12, <2>3 DEF New
  <2> QED  BY <2>1, <2>2, <2>3
<1>14. Typed'
  <2>1. DOMAIN uniqueBoards' \subseteq Boards /\ moves' \subseteq Edges
    BY <1>9 DEF Inv, Typed
  <2>2. \A b \in DOMAIN uniqueBoards' : uniqueBoards'[b] \in States
    BY <1>9 DEF Inv, Typed, States
  <2> QED  BY <1>1, <1>8, <1>11, <2>1, <2>2 DEF Inv, Typed
<1>15. QueueOK' /\ Saved' /\ NoClash'
  BY <1>1, <1>6 DEF Inv, QueueOK, ReadOK, Saved, Resting, Running, NoClash, btp
<1>16. WorkersOK' /\ CountOK'
  <2>1. CountOK'
    BY <1>1, <1>10 DEF Inv, CountOK
  <2>2. ASSUME NEW v \in Workers PROVE WorkerOK(v)'
    <3>1. WorkerOK(v)
      BY DEF Inv, WorkersOK
    <3>2. todo'[v] \subseteq todo[v]
      BY <1>8
    <3>3. pc[v] \notin {"play", "flush"} => staged'[v] = staged[v]
      BY <1>1, <1>11
    <3> QED  BY <1>1, <1>6, <3>1, <3>2, <3>3 DEF WorkerOK, Running, Out
  <2> QED  BY <2>1, <2>2 DEF WorkersOK
<1>17. TreesOK'
  <2>1. haveTrees' /\ haveTrees /\ status' = status /\ status # "idle" /\ Root \in DOMAIN uniqueBoards'
    BY <1>1, <1>4, <1>6, <1>9 DEF Inv, TreesOK, Running
  <2>2. \A b \in DOMAIN uniqueBoards' :
          uniqueBoards'[b] # "NOT_PLAYED" => (uniqueBoards'[b] = "PLAYED_TERMINAL" <=> Terminal(b))
    BY <1>9 DEF Inv, TreesOK
  <2>3. \A v \in Playing' : board'[v] \in DOMAIN uniqueBoards'
                            /\ (pc'[v] = "play" <=> uniqueBoards'[board'[v]] = "NOT_PLAYED")
    BY <1>1, <1>9, <1>10 DEF Inv, TreesOK
  <2> QED  BY <2>1, <2>2, <2>3 DEF TreesOK
<1>18. MovesOK'
  <2>1. ASSUME NEW d \in Edges
        PROVE  d.from \in DOMAIN uniqueBoards' /\ uniqueBoards'[d.from] # "NOT_PLAYED"
                 <=> d.from \in DOMAIN uniqueBoards /\ uniqueBoards[d.from] # "NOT_PLAYED"
    BY <1>9
  <2>2. ASSUME NEW d \in Edges, NEW v \in Workers
        PROVE  pc'[v] = "play" /\ board'[v] = d.from /\ d \notin todo'[v]
                 <=> \/ pc[v] = "play" /\ board[v] = d.from /\ d \notin todo[v]
                     \/ v = w /\ d = f
    <3>1. CASE v = w
      BY <1>1, <1>8, <1>9, <3>1
    <3>2. CASE v # w
      BY <1>1, <1>8, <3>2
    <3> QED  BY <3>1, <3>2
  <2>3. \A d \in Edges : Entered(d)' <=> Entered(d) \/ d = f
    BY <2>1, <2>2 DEF Entered
  <2>4. \A d \in moves' : d.to \in DOMAIN uniqueBoards'
    BY <1>9 DEF Inv, MovesOK
  <2> QED  BY <1>9, <2>3, <2>4 DEF Inv, MovesOK
<1>19. PlacesOK'
  <2>1. /\ Once(file) /\ file' = file
        /\ \A b : b \in DOMAIN uniqueBoards <=> In(b, file) \/ New(b)
        /\ \A b : ~(In(b, file) /\ New(b))
        /\ \A u, v \in Workers : \A i \in DOMAIN staged[u], j \in DOMAIN staged[v] :
             staged[u][i] = staged[v][j] => u = v /\ i = j
    BY <1>1, <1>4 DEF Inv, PlacesOK, btp
  <2>2. \A b : b \in DOMAIN uniqueBoards' <=> In(b, file') \/ New(b)'
    BY <1>9, <1>13, <2>1
  <2>3. \A b : ~(In(b, file') /\ New(b)')
    BY <1>13, <2>1
  <2>4. ASSUME NEW u \in Workers, NEW v \in Workers, NEW i \in DOMAIN staged'[u], NEW j \in DOMAIN staged'[v],
               staged'[u][i] = staged'[v][j]
        PROVE  u = v /\ i = j
    <3>1. CASE f.to \in DOMAIN uniqueBoards
      BY <1>11, <2>1, <2>4, <3>1
    <3>2. CASE f.to \notin DOMAIN uniqueBoards
      <4>1. \A t \in Workers : \A k \in DOMAIN staged[t] : staged[t][k] # f.to
        BY <2>1, <3>2 DEF New
      <4>2. \/ i \in DOMAIN staged[u] /\ staged'[u][i] = staged[u][i]
            \/ u = w /\ i = Len(staged[w]) + 1 /\ staged'[u][i] = f.to
        BY <1>12, <3>2
      <4>3. \/ j \in DOMAIN staged[v] /\ staged'[v][j] = staged[v][j]
            \/ v = w /\ j = Len(staged[w]) + 1 /\ staged'[v][j] = f.to
        BY <1>12, <3>2
      <4> QED  BY <2>1, <2>4, <4>1, <4>2, <4>3
    <3> QED  BY <3>1, <3>2
  <2>5. Once(file')
    BY <2>1
  <2> QED  BY <2>2, <2>3, <2>4, <2>5 DEF PlacesOK
<1>20. HandsOK'
  BY <1>1, <1>6, <1>10, SameHands DEF Inv, btp
<1>21. Reachable'
  <2>1. \A b \in NotPlayed' : b \in NotPlayed \/ New(b)'
    BY <1>9, <1>13 DEF NotPlayed
  <2>2. \A b : New(b) => New(b)'
    BY <1>13
  <2> QED  BY <1>1, <1>6, <1>10, <2>1, <2>2 DEF Inv, Reachable, Running
<1>22. Exhausted' /\ Whole'
  BY <1>1, <1>6 DEF Exhausted, Whole, Running
<1> QED  BY <1>1, <1>14, <1>15, <1>16, <1>17, <1>18, <1>19, <1>20, <1>21, <1>22 DEF Inv, trees

LEMMA UpdateInv == ASSUME Inv, NEW w \in Workers, Update(w) PROVE Inv'
<1> DEFINE b == board[w]
<1>1. /\ Running /\ pc[w] = "play" /\ todo[w] = {} /\ Goto(w, "flush")
      /\ uniqueBoards' = [uniqueBoards EXCEPT ![b] = Played(b)]
      /\ UNCHANGED <<btp, status, moves, batch, board, todo, staged, activeCount, faults, stop,
                     haveTrees, checkpointDat, result, dropped>>
  BY DEF Update, WorkerKeeps
<1>2. /\ w \in Playing /\ haveTrees /\ b \in DOMAIN uniqueBoards /\ b \in Boards
      /\ uniqueBoards[b] = "NOT_PLAYED"
      /\ \A v \in Workers : v # w => board[v] # b
  BY <1>1, InPlay
<1>3. pc' \in [Workers -> Labels] /\ pc'[w] = "flush" /\ \A v \in Workers : v # w => pc'[v] = pc[v]
  BY <1>1, Moved DEF Inv, Labels
<1>4. PICK c : c = board[w]
  OBVIOUS
<1>5. /\ DOMAIN uniqueBoards' = DOMAIN uniqueBoards
      /\ c \in DOMAIN uniqueBoards /\ uniqueBoards'[c] \in States \ {"NOT_PLAYED"}
      /\ uniqueBoards'[c] = "PLAYED_TERMINAL" <=> Terminal(c)
      /\ \A d \in DOMAIN uniqueBoards : d # c => uniqueBoards'[d] = uniqueBoards[d]
  BY <1>1, <1>2, <1>4 DEF Played, States
<1> HIDE DEF b
<1>6. Playing' = Playing /\ Pending' = Pending /\ (\A d : New(d)' <=> New(d)) /\ \A d : Held(d)' <=> Held(d)
  BY <1>1, SameQueue DEF Playing, Held, New, btp
<1>7. Typed'
  <2>1. \A d \in DOMAIN uniqueBoards' : uniqueBoards'[d] \in States
    BY <1>5 DEF Inv, Typed
  <2> QED  BY <1>1, <1>3, <1>5, <2>1 DEF Inv, Typed
<1>8. QueueOK' /\ Saved' /\ NoClash'
  BY <1>1 DEF Inv, QueueOK, ReadOK, Saved, Resting, Running, NoClash, btp
<1>9. WorkersOK' /\ CountOK'
  <2>1. CountOK'
    BY <1>1, <1>6 DEF Inv, CountOK
  <2>2. WorkersOK'
    BY <1>1, <1>3 DEF Inv, WorkersOK, WorkerOK, Running
  <2> QED  BY <2>1, <2>2
<1>10. TreesOK'
  <2>1. haveTrees' /\ status # "idle" /\ Root \in DOMAIN uniqueBoards'
    BY <1>1, <1>2, <1>5 DEF Inv, TreesOK, Running
  <2>2. \A d \in DOMAIN uniqueBoards' :
          uniqueBoards'[d] # "NOT_PLAYED" => (uniqueBoards'[d] = "PLAYED_TERMINAL" <=> Terminal(d))
    BY <1>5 DEF Inv, TreesOK
  <2>3. \A v \in Playing' : board'[v] \in DOMAIN uniqueBoards'
                            /\ (pc'[v] = "play" <=> uniqueBoards'[board'[v]] = "NOT_PLAYED")
    <3> TAKE v \in Playing'
    <3>1. CASE v = w
      BY <1>1, <1>3, <1>4, <1>5, <3>1
    <3>2. CASE v # w
      <4>1. v \in Workers /\ v \in Playing
        BY <1>6 DEF Playing
      <4>2. board[v] # c /\ board[v] \in DOMAIN uniqueBoards
            /\ (pc[v] = "play" <=> uniqueBoards[board[v]] = "NOT_PLAYED")
        BY <1>2, <1>4, <3>2, <4>1 DEF Inv, TreesOK, b
      <4> QED  BY <1>1, <1>3, <1>5, <3>2, <4>1, <4>2
    <3> QED  BY <3>1, <3>2
  <2> QED  BY <1>1, <2>1, <2>2, <2>3 DEF TreesOK
<1>11. MovesOK'
  <2>1. ASSUME NEW e \in Edges PROVE Entered(e)' <=> Entered(e)
    <3>1. CASE e.from = c
      <4>1. Entered(e)
        BY <1>1, <1>4, <3>1 DEF Entered
      <4>2. Entered(e)'
        BY <1>5, <3>1 DEF Entered
      <4> QED  BY <4>1, <4>2
    <3>2. CASE e.from # c
      <4>1. e.from \in DOMAIN uniqueBoards' /\ uniqueBoards'[e.from] # "NOT_PLAYED"
               <=> e.from \in DOMAIN uniqueBoards /\ uniqueBoards[e.from] # "NOT_PLAYED"
        BY <1>5, <3>2
      <4>2. \A v \in Workers : pc'[v] = "play" /\ board'[v] = e.from /\ e \notin todo'[v]
               <=> pc[v] = "play" /\ board[v] = e.from /\ e \notin todo[v]
        BY <1>1, <1>3, <1>4, <3>2
      <4> QED  BY <4>1, <4>2 DEF Entered
    <3> QED  BY <3>1, <3>2
  <2> QED  BY <1>1, <1>5, <2>1 DEF Inv, MovesOK
<1>12. PlacesOK'
  BY <1>1, <1>5, <1>6 DEF Inv, PlacesOK, btp
<1>13. HandsOK'
  BY <1>1, <1>6, SameHands DEF Inv, btp
<1>14. Reachable'
  <2>1. NotPlayed' \subseteq NotPlayed
    BY <1>5 DEF NotPlayed
  <2>2. c \notin NotPlayed'
    BY <1>5 DEF NotPlayed
  <2> QED  BY <1>1, <1>6, <2>1 DEF Inv, Reachable, Running
<1>15. Exhausted' /\ Whole'
  BY <1>1, <1>3 DEF Exhausted, Whole, Running
<1> QED  BY <1>1, <1>7, <1>8, <1>9, <1>10, <1>11, <1>12, <1>13, <1>14, <1>15 DEF Inv, trees

LEMMA FlushInv == ASSUME Inv, NEW w \in Workers, Flush(w) PROVE Inv'
<1> DEFINE new == staged[w]
<1>1. /\ Running /\ pc[w] = "flush" /\ Goto(w, "leave") /\ AddRecordBatch(new)
      /\ staged' = [staged EXCEPT ![w] = << >>]
      /\ UNCHANGED <<status, trees, batch, board, todo, activeCount, faults, stop, checkpointDat,
                     result, dropped>>
  BY DEF Flush, WorkerKeeps, trees
<1>2. /\ haveTrees /\ w \in Playing
      /\ uniqueBoards[board[w]] # "NOT_PLAYED"
  BY <1>1, InPlay
<1>3. /\ Once(file)
      /\ \A b : b \in DOMAIN uniqueBoards <=> In(b, file) \/ New(b)
      /\ \A b : ~(In(b, file) /\ New(b))
      /\ \A u, v \in Workers : \A i \in DOMAIN staged[u], j \in DOMAIN staged[v] :
           staged[u][i] = staged[v][j] => u = v /\ i = j
  BY <1>2 DEF Inv, PlacesOK
<1>4. PICK added : added = staged[w]
  OBVIOUS
<1>5. added \in Seq(Boards) /\ AddRecordBatch(added)
  BY <1>1, <1>4 DEF Inv, Typed
<1> HIDE DEF new
<1>6. Fresh(added)
  <2>1. \A i \in DOMAIN added : New(added[i])
    BY <1>4 DEF New
  <2> QED  BY <1>3, <1>4, <2>1 DEF Fresh
<1>7. /\ Filled(file', writeCursor') /\ ReadOK'
      /\ \A b : b \in Pending' <=> b \in Pending \/ b \in ToSet(added)
      /\ \A b : In(b, file') <=> In(b, file) \/ b \in ToSet(added)
      /\ Once(file')
  BY <1>3, <1>5, <1>6, AddedIs DEF Inv, QueueOK
<1>8. \A b : b \in ToSet(added) <=> \E i \in DOMAIN staged[w] : staged[w][i] = b
  BY <1>4 DEF ToSet
<1>9. pc' \in [Workers -> Labels] /\ pc'[w] = "leave" /\ \A v \in Workers : v # w => pc'[v] = pc[v]
  BY <1>1, Moved DEF Inv, Labels
<1>10. /\ staged' \in [Workers -> Seq(Boards)] /\ staged'[w] = << >>
       /\ \A i : i \notin DOMAIN staged'[w]
       /\ \A v \in Workers : v # w => staged'[v] = staged[v]
  BY <1>1 DEF Inv, Typed
<1>11. \A b : New(b) <=> New(b)' \/ b \in ToSet(added)
  <2>1. ASSUME NEW b, New(b) PROVE New(b)' \/ b \in ToSet(added)
    BY <1>8, <1>10, <2>1 DEF New
  <2>2. ASSUME NEW b, New(b)' PROVE New(b)
    BY <1>10, <2>2 DEF New
  <2>3. ASSUME NEW b, b \in ToSet(added) PROVE New(b)
    BY <1>8, <2>3 DEF New
  <2> QED  BY <2>1, <2>2, <2>3
<1>12. \A b : New(b)' => b \notin ToSet(added)
  <2> SUFFICES ASSUME NEW b, New(b)', b \in ToSet(added) PROVE FALSE
    OBVIOUS
  <2>1. PICK v \in Workers : \E i \in DOMAIN staged'[v] : staged'[v][i] = b
    BY DEF New
  <2>2. v # w /\ \E i \in DOMAIN staged[v] : staged[v][i] = b
    BY <1>10, <2>1
  <2> QED  BY <1>3, <1>8, <2>2
<1>13. Playing' = Playing /\ NotPlayed' = NotPlayed /\ (\A b : Held(b)' <=> Held(b))
  BY <1>1 DEF Playing, NotPlayed, Held, trees
<1>14. Typed' /\ QueueOK' /\ Saved' /\ NoClash'
  BY <1>1, <1>7, <1>9, <1>10 DEF Inv, Typed, QueueOK, Saved, Resting, Running, NoClash, trees
<1>15. WorkersOK' /\ CountOK'
  <2>1. CountOK'
    BY <1>1, <1>13 DEF Inv, CountOK
  <2>2. WorkersOK'
    BY <1>1, <1>9, <1>10 DEF Inv, WorkersOK, WorkerOK, Running
  <2> QED  BY <2>1, <2>2
<1>16. TreesOK'
  <2>1. \A v \in Playing : (pc'[v] = "play" <=> pc[v] = "play")
    BY <1>1, <1>9 DEF Playing
  <2> QED  BY <1>1, <1>13, <2>1 DEF Inv, TreesOK, trees
<1>17. MovesOK'
  <2>1. \A v \in Workers : pc'[v] = "play" <=> pc[v] = "play"
    BY <1>1, <1>9
  <2> QED  BY <1>1, <2>1 DEF Inv, MovesOK, Entered, trees
<1>18. PlacesOK'
  <2>1. \A u, v \in Workers : \A i \in DOMAIN staged'[u], j \in DOMAIN staged'[v] :
           staged'[u][i] = staged'[v][j] => u = v /\ i = j
    BY <1>3, <1>10
  <2>2. \A b : b \in DOMAIN uniqueBoards' <=> In(b, file') \/ New(b)'
    BY <1>1, <1>3, <1>7, <1>11 DEF trees
  <2>3. \A b : ~(In(b, file') /\ New(b)')
    BY <1>3, <1>7, <1>11, <1>12
  <2> QED  BY <1>7, <2>1, <2>2, <2>3 DEF PlacesOK
<1>19. HandsOK'
  <2>1. /\ \A b : Held(b) => In(b, file) /\ b \notin Pending
        /\ OnceHeld
        /\ \A v \in Playing : In(board[v], file) /\ board[v] \notin Pending /\ ~Held(board[v])
        /\ \A u, v \in Playing : u # v => board[u] # board[v]
    BY <1>1, <1>2 DEF Inv, HandsOK, OnceHeld
  <2>2. \A b : In(b, file) => b \notin ToSet(added)
    BY <1>3, <1>11
  <2>3. \A b : Held(b)' => In(b, file') /\ b \notin Pending'
    BY <1>7, <1>13, <2>1, <2>2
  <2>4. OnceHeld'
    BY <1>1, <2>1 DEF OnceHeld
  <2>5. \A v \in Playing' : In(board'[v], file') /\ board'[v] \notin Pending' /\ (~Held(board[v]))'
    BY <1>1, <1>7, <1>13, <2>1, <2>2
  <2>6. \A u, v \in Playing' : u # v => board'[u] # board'[v]
    BY <1>1, <1>13, <2>1
  <2> QED  BY <2>3, <2>4, <2>5, <2>6 DEF HandsOK, OnceHeld
<1>20. Reachable'
  BY <1>1, <1>7, <1>11, <1>13 DEF Inv, Reachable, Running, trees
<1>21. Exhausted' /\ Whole'
  BY <1>1, <1>9 DEF Exhausted, Whole, Running
<1> QED  BY <1>1, <1>14, <1>15, <1>16, <1>17, <1>18, <1>19, <1>20, <1>21 DEF Inv, trees

LEMMA LeaveInv == ASSUME Inv, NEW w \in Workers, Leave(w) PROVE Inv'
<1>1. /\ Running /\ pc[w] = "leave" /\ Goto(w, "top")
      /\ activeCount' = activeCount - 1 /\ board' = [board EXCEPT ![w] = NoBoard]
      /\ UNCHANGED <<btp, status, trees, batch, todo, staged, faults, stop, checkpointDat, result, dropped>>
  BY DEF Leave, WorkerKeeps, trees
<1>2. /\ haveTrees /\ w \in Playing /\ uniqueBoards[board[w]] # "NOT_PLAYED"
  BY <1>1, InPlay
<1>3. pc' \in [Workers -> Labels] /\ pc'[w] = "top" /\ \A v \in Workers : v # w => pc'[v] = pc[v]
  BY <1>1, Moved DEF Inv, Labels
<1>4. /\ board' \in [Workers -> Boards \cup {NoBoard}] /\ board'[w] = NoBoard
      /\ \A v \in Workers : v # w => board'[v] = board[v]
  BY <1>1 DEF Inv, Typed
<1>5. Playing' = Playing \ {w} /\ \A v \in Playing' : v # w /\ v \in Playing /\ board'[v] = board[v]
  BY <1>4 DEF Playing
<1>6. NotPlayed' = NotPlayed /\ Pending' = Pending /\ (\A b : New(b)' <=> New(b)) /\ \A b : Held(b)' <=> Held(b)
  BY <1>1, SameQueue DEF NotPlayed, Held, New, btp, trees
<1>7. CountOK'
  BY <1>1, <1>2, <1>5, PlayingFinite, FS_RemoveElement DEF Inv, CountOK
<1>8. Typed' /\ QueueOK' /\ Saved' /\ NoClash'
  BY <1>1, <1>3, <1>4 DEF Inv, Typed, QueueOK, ReadOK, Saved, Resting, Running, NoClash, btp, trees
<1>9. WorkersOK'
  BY <1>1, <1>3, <1>4 DEF Inv, WorkersOK, WorkerOK, Running
<1>10. TreesOK'
  <2>1. \A v \in Playing' : pc'[v] = pc[v]
    BY <1>3, <1>5 DEF Playing
  <2> QED  BY <1>1, <1>2, <1>5, <2>1 DEF Inv, TreesOK, trees
<1>11. MovesOK'
  <2>1. ASSUME NEW e \in Edges, NEW v \in Workers
        PROVE  pc'[v] = "play" /\ board'[v] = e.from /\ e \notin todo'[v]
                 <=> pc[v] = "play" /\ board[v] = e.from /\ e \notin todo[v]
    BY <1>1, <1>3, <1>4
  <2>2. \A e \in Edges : Entered(e)' <=> Entered(e)
    BY <1>1, <2>1 DEF Entered, trees
  <2> QED  BY <1>1, <2>2 DEF Inv, MovesOK, trees
<1>12. PlacesOK'
  BY <1>1, SamePlaces DEF Inv, trees, btp
<1>13. HandsOK'
  <2>1. /\ \A b : Held(b) => In(b, file) /\ b \notin Pending
        /\ OnceHeld
        /\ \A v \in Playing : In(board[v], file) /\ board[v] \notin Pending /\ ~Held(board[v])
        /\ \A u, v \in Playing : u # v => board[u] # board[v]
    BY <1>1, <1>2 DEF Inv, HandsOK, OnceHeld
  <2>2. OnceHeld'
    BY <1>1, <2>1 DEF OnceHeld
  <2>3. \A b : Held(b)' => In(b, file') /\ b \notin Pending'
    BY <1>1, <1>6, <2>1 DEF btp
  <2>4. \A v \in Playing' : In(board'[v], file') /\ board'[v] \notin Pending' /\ (~Held(board[v]))'
    BY <1>1, <1>5, <1>6, <2>1 DEF btp
  <2>5. \A u, v \in Playing' : u # v => board'[u] # board'[v]
    BY <1>5, <2>1
  <2> QED  BY <2>2, <2>3, <2>4, <2>5 DEF HandsOK, OnceHeld
<1>14. Reachable'
  <2>1. \A b \in NotPlayed : b # board[w]
    BY <1>2 DEF NotPlayed
  <2>2. \A b \in NotPlayed : (\E v \in Playing : board[v] = b) => \E v \in Playing' : board'[v] = b
    BY <1>5, <2>1
  <2> QED  BY <1>1, <1>6, <2>2 DEF Inv, Reachable, Running, trees
<1>15. Exhausted' /\ Whole'
  BY <1>1, <1>3 DEF Exhausted, Whole, Running
<1> QED  BY <1>1, <1>7, <1>8, <1>9, <1>10, <1>11, <1>12, <1>13, <1>14, <1>15 DEF Inv, trees

-----------------------------------------------------------------------------
(* The theorems.                                                           *)

Kept == Inv \/ Dead

LEMMA InitKept == Init => Kept
<1> SUFFICES ASSUME Init PROVE Dead
  BY DEF Kept
<1>1. pc \in [Workers -> Loop] /\ \A w \in Workers : board[w] = NoBoard
  BY DEF Init, Loop
<1>2. DOMAIN uniqueBoards = {}
  BY DEF Init, NoTree
<1> QED  BY <1>1, <1>2 DEF Init, Dead, NoClash

\* Without the trees nothing is played until a run begins anew.
LEMMA DeadSteps ==
  ASSUME Dead, [Next]_vars
  PROVE  Dead' \/ Inv'
<1> DEFINE Same == UNCHANGED <<haveTrees, uniqueBoards, board, checkpointDat>>
<1> USE DEF Dead
<1>1. CASE LaunchSolver \/ ClickStop \/ UNCHANGED vars
  BY <1>1 DEF LaunchSolver, ClickStop, NoClash, vars, trees, workers, bounds
<1>2. CASE Close
  BY <1>2, CloseDead
<1>3. CASE FreshStart
  BY <1>3, FreshStartInv
<1>4. CASE Restart
  <2>1. pc' \in [Workers -> Loop] /\ \A w \in Workers : board'[w] = NoBoard
    BY <1>4 DEF Restart, FreshWorkers, Loop
  <2>2. NoClash' /\ status' # "done"
    BY <1>4 DEF Restart, Fatal, NoClash
  <2> QED  BY <1>4, <2>1, <2>2 DEF Restart, trees, bounds
<1>5. CASE Complete
  <2>1. status' = "no tree" /\ UNCHANGED <<trees, workers, bounds, checkpointDat>>
    BY <1>5 DEF Complete, Fatal, ControllerKeeps
  <2> QED  BY <2>1 DEF NoClash, trees, workers, bounds
<1>6. CASE SaveAndStop
  BY <1>6 DEF SaveAndStop, ControllerKeeps, NoClash, trees, workers, bounds
<1>7. ASSUME NEW w \in Workers, Step(w) PROVE Dead'
  <2>1. Running /\ pc[w] \in Loop /\ pc[w] \notin {"play", "flush", "leave"}
    BY <1>7 DEF Loop, Step, SeesStop, Refill, FindsNone, CheckPoint, LeavesOrSleeps, TakesBoard,
                AddBoardAndMove, Update, Flush, Leave
  <2>2. CASE SeesStop(w) \/ Refill(w) \/ CheckPoint(w) \/ LeavesOrSleeps(w)
    <3>1. PICK label \in Loop : Goto(w, label)
      BY <2>2 DEF SeesStop, Refill, CheckPoint, LeavesOrSleeps, Loop
    <3>2. pc' \in [Workers -> Loop]
      BY <3>1 DEF Goto
    <3>3. Same /\ UNCHANGED <<status, faults>>
      BY <2>2 DEF SeesStop, Refill, CheckPoint, LeavesOrSleeps, WorkerKeeps
    <3> QED  BY <3>2, <3>3 DEF NoClash
  <2>3. CASE FindsNone(w)
    <3>1. PICK label \in Loop : Goto(w, label)
      BY <2>3 DEF FindsNone, Loop
    <3>2. pc' \in [Workers -> Loop]
      BY <3>1 DEF Goto
    <3>3. Same /\ UNCHANGED status /\ faults' \in Nat
      BY <2>3 DEF FindsNone, WorkerKeeps
    <3> QED  BY <3>2, <3>3 DEF NoClash
  <2>4. CASE TakesBoard(w)
    <3>1. /\ UNCHANGED <<board, uniqueBoards, faults, haveTrees, checkpointDat>>
          /\ \/ Goto(w, "exited") /\ UNCHANGED status
             \/ Fatal("no tree") /\ UNCHANGED pc
      BY <2>4 DEF TakesBoard, WorkerKeeps
    <3>2. pc' \in [Workers -> Loop]
      BY <3>1 DEF Goto, Loop
    <3> QED  BY <3>1, <3>2 DEF Fatal, NoClash
  <2> QED  BY <1>7, <2>1, <2>2, <2>3, <2>4 DEF Step, AddBoardAndMove, Update, Flush, Leave
<1> QED  BY <1>1, <1>2, <1>3, <1>4, <1>5, <1>6, <1>7 DEF Next, Controller

LEMMA StutterInv == ASSUME Inv, UNCHANGED vars PROVE Inv'
<1> USE DEF vars, btp, trees, workers, bounds, Running, Resting
<1>1. Pending' = Pending /\ Replayable' = Replayable
  BY SameQueue
<1>2. Playing' = Playing /\ NotPlayed' = NotPlayed /\ (\A b : New(b)' <=> New(b)) /\ \A b : Held(b)' <=> Held(b)
  BY DEF Playing, NotPlayed, New, Held
<1>3. Typed' /\ QueueOK' /\ Saved' /\ NoClash'
  BY DEF Inv, Typed, QueueOK, ReadOK, Saved, NoClash
<1>4. WorkersOK' /\ CountOK' /\ TreesOK' /\ MovesOK'
  BY <1>2 DEF Inv, WorkersOK, WorkerOK, CountOK, TreesOK, MovesOK, Entered
<1>5. PlacesOK' /\ HandsOK'
  BY <1>1, SamePlaces, SameHands DEF Inv
<1>6. Reachable' /\ Exhausted' /\ Whole'
  BY <1>1, <1>2 DEF Inv, Reachable, Exhausted, Whole
<1> QED  BY <1>3, <1>4, <1>5, <1>6 DEF Inv

LEMMA NextKept == Kept /\ [Next]_vars => Kept'
<1> SUFFICES ASSUME Inv, [Next]_vars PROVE Inv' \/ Dead'
  BY DeadSteps DEF Kept
<1>0. faults \in Nat /\ checkpointDat \in BOOLEAN
  BY DEF Inv, Typed
<1>1. CASE LaunchSolver \/ ClickStop \/ Close
  BY <1>0, <1>1, LaunchInv, ClickStopInv, CloseDead
<1>2. CASE Controller
  BY <1>0, <1>2, FreshStartInv, RestartInv, CompleteInv, SaveAndStopInv DEF Controller
<1>3. ASSUME NEW w \in Workers, Step(w) PROVE Inv'
  <2>1. CASE SeesStop(w) \/ Refill(w) \/ FindsNone(w) \/ CheckPoint(w) \/ LeavesOrSleeps(w)
    BY <2>1, SeesStopInv, RefillInv, FindsNoneInv, CheckPointInv, LeavesOrSleepsInv
  <2>2. CASE TakesBoard(w) \/ AddBoardAndMove(w) \/ Update(w) \/ Flush(w) \/ Leave(w)
    BY <2>2, TakesBoardInv, AddBoardAndMoveInv, UpdateInv, FlushInv, LeaveInv
  <2> QED  BY <1>3, <2>1, <2>2 DEF Step
<1>4. CASE UNCHANGED vars
  BY <1>4, StutterInv
<1> QED  BY <1>1, <1>2, <1>3, <1>4 DEF Next

LEMMA AlwaysKept == Spec => []Kept
BY InitKept, NextKept, PTL DEF Spec

LEMMA InvPlaysOnce == Kept => PlayedOnce
<1> SUFFICES ASSUME Kept PROVE PlayedOnce
  OBVIOUS
<1>1. ASSUME NEW v \in Playing, NEW w \in Playing, v # w PROVE board[v] # board[w]
  <2>1. Inv
    BY DEF Kept, Dead, Playing
  <2>2. Running
    BY <2>1 DEF Inv, WorkersOK, WorkerOK, Playing
  <2> QED  BY <1>1, <2>1, <2>2 DEF Inv, HandsOK
<1>2. \A w \in Playing : pc[w] = "play" => uniqueBoards[board[w]] = "NOT_PLAYED"
  BY DEF Kept, Dead, Inv, TreesOK, Playing
<1> QED  BY <1>1, <1>2 DEF Kept, Dead, Inv, NoClash, PlayedOnce

LEMMA InvForgetsNone == Kept => NoBoardForgotten
<1> SUFFICES ASSUME Inv, faults = 0
             PROVE  CASE Running -> NotPlayed \subseteq
                              dropped \cup Pending \cup InBatches \cup Staged \cup {board[w] : w \in Playing}
                      [] status = "stopped" -> NotPlayed \subseteq dropped \cup Replayable
                      [] status = "board not played" -> dropped # {}
                      [] OTHER -> TRUE
  BY DEF NoBoardForgotten, Kept, Dead
<1>1. \A b : (New(b) => b \in Staged) /\ (Held(b) => b \in InBatches)
  BY DEF New, Held, Staged, InBatches, ToSet
<1>2. Running => NotPlayed \subseteq
                   dropped \cup Pending \cup InBatches \cup Staged \cup {board[w] : w \in Playing}
  BY <1>1 DEF Inv, Reachable
<1>3. status = "stopped" => NotPlayed \subseteq dropped \cup Replayable
  BY DEF Inv, Reachable
<1>4. status = "board not played" => dropped # {}
  BY DEF Inv, Reachable
<1>5. CASE Running
  BY <1>2, <1>5 DEF Running
<1>6. CASE status = "stopped"
  BY <1>3, <1>6 DEF Running
<1>7. CASE status = "board not played"
  BY <1>4, <1>7 DEF Running
<1> QED  BY <1>5, <1>6, <1>7

(* No board is played by two workers or twice, though the test of its state *)
(* and the update of it are apart with nothing held between them.           *)
THEOREM BoardsPlayedOnce == Spec => []PlayedOnce
BY AlwaysKept, InvPlaysOnce, PTL

(* Every board that was reached and not played can be reached by a worker,  *)
(* or after a stop by a restart, but those a stop lost or a failed read.    *)
THEOREM NoneForgotten == Spec => []NoBoardForgotten
BY AlwaysKept, InvForgetsNone, PTL

(* A run that ends has played every board of the game, whatever came on the *)
(* way, and reports the wins that follow from the game.                     *)
THEOREM DoneIsExact == Spec => []DoneMeansExact
<1>1. Kept => DoneMeansExact
  BY DEF Kept, Dead, Inv, Whole, DoneMeansExact
<1> QED  BY <1>1, AlwaysKept, PTL
=============================================================================
