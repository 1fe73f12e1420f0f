------------------------------ MODULE Watermarks ------------------------------
(***************************************************************************)
(* The shim's persisted watermarks (src/primal-shim/seen.ts, and dm-read.ts*)
(* whose store is the same code over other keys): a map in memory that     *)
(* only advances, and a file replaced as a whole by writes that take turns.*)
(* A crash may fall before, inside or after any write.                     *)
(***************************************************************************)
EXTENDS Integers, Sequences

CONSTANTS
  Key,       \* what a watermark is kept for
  MaxTime,   \* bound on the times
  None       \* no temporary file

ASSUME WatermarksAssumption == MaxTime \in Nat /\ None \notin [Key -> 0 .. MaxTime]

VARIABLES
  mark,    \* the map in memory
  file,    \* the map in the file
  tmp,     \* the temporary file of the write under way, or None
  writes,  \* writeQueue: the callers of the writes not finished, in turn
  kept     \* history: watermarks whose write was reported done

markVars == <<mark, file, tmp, writes, kept>>

Maps == [Key -> 0 .. MaxTime]

MarkInit ==
  /\ mark = [k \in Key |-> 0] /\ file = mark
  /\ tmp = None
  /\ writes = << >>
  /\ kept = mark

(* A watermark that does not advance returns at once, and writes nothing. *)
Advances(k, ts) == ts > mark[k]

Advance(k, ts, caller) ==
  /\ Advances(k, ts)
  /\ mark' = [mark EXCEPT ![k] = ts]
  /\ writes' = Append(writes, caller)
  /\ UNCHANGED <<file, tmp, kept>>

(* writeFile of the whole map, as it is when the write's turn comes. *)
WriteTmp ==
  /\ writes # << >> /\ tmp = None
  /\ tmp' = mark
  /\ UNCHANGED <<mark, file, writes, kept>>

WriteDone(c) ==
  /\ writes' = Tail(writes) /\ tmp' = None
  /\ kept' = [kept EXCEPT ![c.key] = IF c.ts > @ THEN c.ts ELSE @]
  /\ UNCHANGED mark

RenameLastOnly ==
  /\ tmp # None
  /\ file' = IF Len(writes) = 1 THEN tmp ELSE file
  /\ WriteDone(Head(writes))

(* rename puts the temporary file in place; the caller is resumed. *)
Rename ==
  /\ tmp # None
  /\ file' = tmp
  /\ WriteDone(Head(writes))

(* Either call fails: a warning, and the caller is resumed all the same. *)
WriteFails ==
  /\ writes # << >>
  /\ writes' = Tail(writes) /\ tmp' = None
  /\ UNCHANGED <<mark, file, kept>>

(* The constructor reads the file; what was only in memory is lost. *)
Restart ==
  /\ mark' = file /\ tmp' = None /\ writes' = << >>
  /\ UNCHANGED <<file, kept>>

-----------------------------------------------------------------------------
MarkTypeOK ==
  /\ mark \in Maps /\ file \in Maps /\ kept \in Maps
  /\ tmp \in Maps \cup {None}
  /\ writes \in Seq([key : Key, ts : 0 .. MaxTime, caller : Nat])

(* A watermark whose write was reported done survives every crash: a write *)
(* that queued behind it and one that overtook its value both carry it.    *)
KeptSurvives == \A k \in Key : file[k] >= kept[k]

=============================================================================
