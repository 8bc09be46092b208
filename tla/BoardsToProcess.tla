-------------------------- MODULE BoardsToProcess --------------------------
(***************************************************************************)
(* The queue of boards still to play: records in numbered files, a write    *)
(* cursor that fills one file after another and a read cursor that follows  *)
(* it.  A reader that catches up with the writer closes the file being      *)
(* written, so that what is read never grows.  The position is saved        *)
(* whenever a file is opened for reading; a restart goes back to the        *)
(* beginning of the file that was being read.                               *)
(*                                                                         *)
(* Each cursor has a lock.  Every operation holds the locks of what it      *)
(* changes to its end, so each is one step; only the saving of the position *)
(* after a read comes later, when the locks have been released.             *)
(***************************************************************************)
EXTENDS Naturals, Sequences, SequencesExt

CONSTANT maxRecordsPerFile
ASSUME RecordsAssumption == maxRecordsPerFile \in Nat \ {0}

VARIABLES file,         \* the records of each numbered file
          readCursor, writeCursor,
          checkPoint,   \* what CheckPoint.txt holds, or NoCheckPoint
          saveExists    \* CheckPoint.txt.save exists

btp == <<file, readCursor, writeCursor, checkPoint, saveExists>>

At(number) == [open |-> FALSE, currFileNumber |-> number, currRecordNumber |-> 0]
NoCheckPoint == [none |-> TRUE]
NoFiles == [n \in {} |-> << >>]

-----------------------------------------------------------------------------
(* One record; the first of a file creates it, the last closes it. *)
Full(records) == Len(records) >= maxRecordsPerFile
Appended(q, record) ==
  LET n == q.cursor.currFileNumber
      records == Append(IF q.cursor.open THEN q.file[n] ELSE << >>, record)
  IN  [file |-> [k \in DOMAIN q.file \cup {n} |-> IF k = n THEN records ELSE q.file[k]],
       cursor |-> IF Full(records) THEN At(n + 1)
                  ELSE [open |-> TRUE, currFileNumber |-> n, currRecordNumber |-> Len(records)]]

(* BTPCreate, in a directory that has just been emptied, and one record. *)
CreateWith(record) ==
  LET q == Appended([file |-> NoFiles, cursor |-> At(0)], record)
  IN  /\ file' = q.file /\ writeCursor' = q.cursor
      /\ readCursor' = At(0)
      /\ checkPoint' = [read |-> At(0), write |-> At(0)] /\ saveExists' = FALSE

AddRecordBatch(records) ==
  LET added[k \in 0..Len(records)] ==
        IF k = 0 THEN [file |-> file, cursor |-> writeCursor] ELSE Appended(added[k - 1], records[k])
      q == added[Len(records)]
  IN  /\ file' = q.file /\ writeCursor' = q.cursor
      /\ UNCHANGED <<readCursor, checkPoint, saveExists>>

(* The places of the records, and which of them the reader has before it:   *)
(* those it has not read, and those a restart reads, from the file on.      *)
Places == UNION {{n} \X DOMAIN file[n] : n \in DOMAIN file}
Record(place) == file[place[1]][place[2]]
Unread(place) ==
  \/ place[1] > readCursor.currFileNumber
  \/ place[1] = readCursor.currFileNumber /\ place[2] > readCursor.currRecordNumber
Pending == {Record(place) : place \in {p \in Places : Unread(p)}}
Replayable == {Record(place) : place \in {p \in Places : p[1] >= readCursor.currFileNumber}}
-----------------------------------------------------------------------------
NoMoreData ==
  /\ ~readCursor.open
  /\ \/ readCursor.currFileNumber > writeCursor.currFileNumber
     \/ readCursor.currFileNumber = writeCursor.currFileNumber /\ ~writeCursor.open

(* EnsureReadFileOpen, when there is data. *)
CaughtUp == ~readCursor.open /\ readCursor.currFileNumber = writeCursor.currFileNumber
EnsureReadFileOpen ==
  writeCursor' = IF CaughtUp THEN At(writeCursor.currFileNumber + 1) ELSE writeCursor
TakesCheckPoint == ~NoMoreData /\ ~readCursor.open

(* At most maxRecords of them, and never past the end of the file. *)
NextBatch(maxRecords) ==
  LET records == file[readCursor.currFileNumber]
      last == readCursor.currRecordNumber + maxRecords
  IN  SubSeq(records, readCursor.currRecordNumber + 1, IF last < Len(records) THEN last ELSE Len(records))

GetNextRecordBatch(maxRecords) ==
  LET n == readCursor.currFileNumber
      read == readCursor.currRecordNumber + Len(NextBatch(maxRecords))
  IN  /\ ~NoMoreData
      /\ EnsureReadFileOpen
      /\ readCursor' = IF read >= Len(file[n]) THEN At(n + 1)
                       ELSE [open |-> TRUE, currFileNumber |-> n, currRecordNumber |-> read]
      /\ UNCHANGED <<file, checkPoint, saveExists>>

(* The file cannot be opened: nothing was read, the cursor stays. *)
OpenFails ==
  /\ TakesCheckPoint
  /\ EnsureReadFileOpen
  /\ UNCHANGED <<file, readCursor, checkPoint, saveExists>>
(* The read fails: the cursor goes on to the next file. *)
ReadFails ==
  /\ ~NoMoreData
  /\ EnsureReadFileOpen
  /\ readCursor' = At(readCursor.currFileNumber + 1)
  /\ UNCHANGED <<file, checkPoint, saveExists>>
-----------------------------------------------------------------------------
TakeChkPt ==
  /\ checkPoint' = [read |-> readCursor, write |-> writeCursor]
  /\ UNCHANGED <<file, readCursor, writeCursor, saveExists>>

(* A slip: the restart goes on behind the file that was being read. *)
RestartFromLastChkPt_NextFile ==
  /\ checkPoint # NoCheckPoint /\ ~saveExists
  /\ readCursor' = At(checkPoint.read.currFileNumber + 1)
  /\ writeCursor' = At(checkPoint.write.currFileNumber + (IF checkPoint.write.open THEN 1 ELSE 0))
  /\ checkPoint' = NoCheckPoint /\ saveExists' = TRUE
  /\ UNCHANGED file

(* The restart is refused, by ending the process, when a copy of an earlier *)
(* restart's position is there.  Otherwise the position is set aside; a     *)
(* file that was being written is left as it is and the next one begun.     *)
RestartRefused == checkPoint = NoCheckPoint \/ saveExists
RestartFromLastChkPt ==
  /\ ~RestartRefused
  /\ readCursor' = At(checkPoint.read.currFileNumber)
  /\ writeCursor' = At(checkPoint.write.currFileNumber + (IF checkPoint.write.open THEN 1 ELSE 0))
  /\ checkPoint' = NoCheckPoint /\ saveExists' = TRUE
  /\ UNCHANGED file
=============================================================================
