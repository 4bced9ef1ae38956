------------------------------- MODULE LogTailer -------------------------------
(***************************************************************************)
(* LogTailer of src/runtime/tailer.ts, run by `kafuops agent start': one   *)
(* log file that a program appends to and a rotation empties, a poll that  *)
(* reads what is new, and a process that ends and is started again with    *)
(* the offset its predecessor saved.                                       *)
(*                                                                         *)
(* Line k of the script is two bytes: 2k - 1, its text, and 2k, its        *)
(* newline, so a poll may see half a line.  A poll is synchronous, but the *)
(* program, the rotation and the end of the process come between its file  *)
(* calls: stat, then open and read, then the save of the offset.           *)
(***************************************************************************)
EXTENDS ErrorBlocks, SequencesExt

CONSTANTS
  RecentMax, \* lines of the sliding window (200)
  EndsAt,    \* phases in which the process may end
  RotatesAt, \* phases in which the file may be rotated
  MaxStarts, \* bound: starts of the process
  MaxRotations, \* bound: rotations of the file
  None       \* no offset was saved

Phases == {"down", "idle", "reading", "saving"}

ASSUME TailerAssumption ==
  /\ RecentMax \in Nat \ {0}
  /\ EndsAt \subseteq Phases \ {"down"}
  /\ RotatesAt \subseteq Phases
  /\ MaxStarts \in Nat /\ MaxRotations \in Nat
  /\ None \notin Nat

VARIABLES
  wrote,   \* bytes the program has written
  base,    \* those of them that rotations removed
  rotations,
  phase,   \* where the process is
  cursor,  \* FileCursor: offset, partial and recent
  measured,\* the size a poll has seen
  saved,   \* the offset in tailer-state.json
  starts,
  read,    \* ghost: the lines that were pushed to the ring buffer
  unsaved, \* ghost: those of them since the last save
  again,   \* ghost: those that may be read once more
  events   \* the blocks that were emitted

ghosts  == <<read, unsaved, again>>
file    == <<wrote, base, rotations>>
process == <<phase, cursor, measured, saved, starts, ghosts, events>>
vars    == <<file, process>>

Cursor(at) == [offset |-> at, partial |-> <<>>, recent |-> <<>>]

Size == wrote - base

Init ==
  /\ wrote = 0 /\ base = 0 /\ rotations = 0
  /\ phase = "down"
  /\ cursor = Cursor(0)
  /\ measured = 0
  /\ saved = None
  /\ starts = 0
  /\ read = <<>> /\ unsaved = {} /\ again = {} /\ events = <<>>

-----------------------------------------------------------------------------
(***************************************************************************)
(* The program and the rotation of its log.                                *)
(***************************************************************************)
Write ==
  /\ wrote < 2 * Len(Script)
  /\ wrote' = wrote + 1
  /\ UNCHANGED <<base, rotations, process>>

Rotate ==
  /\ rotations < MaxRotations
  /\ phase \in RotatesAt
  /\ Size > 0
  /\ base' = wrote
  /\ rotations' = rotations + 1
  /\ UNCHANGED <<wrote, process>>

-----------------------------------------------------------------------------
(***************************************************************************)
(* The process.                                                            *)
(***************************************************************************)
\* A slip of StartOffset: a missing offset is not noticed.
StartOffsetUnchecked == saved

\* A saved offset beyond the end means another file: it is read from its end, as
\* a file is that was never read.
StartOffset == IF saved # None /\ saved <= Size THEN saved ELSE Size

Start ==
  /\ phase = "down"
  /\ starts < MaxStarts
  /\ starts' = starts + 1
  /\ phase' = "idle"
  /\ cursor' = Cursor(StartOffset)
  /\ UNCHANGED <<file, measured, saved, ghosts, events>>

\* Nothing calls stop() when the process ends: what it had not saved is lost.  An event
\* handler that throws ends it between the read and the save, and its successor begins
\* at the last offset that was saved, if any was.
EndOfProcess ==
  /\ phase \in EndsAt
  /\ phase' = "down"
  /\ cursor' = Cursor(0)
  /\ measured' = 0
  /\ again' = IF saved = None THEN again ELSE again \cup unsaved
  /\ unsaved' = {}
  /\ UNCHANGED <<file, saved, starts, read, events>>

\* A slip of AfterStat: an unchanged file is taken for a rotated one.
AfterStatOfSameSize ==
  IF Size <= cursor.offset THEN [cursor EXCEPT !.offset = 0, !.partial = <<>>] ELSE cursor

\* A file that became shorter is read from its beginning.
AfterStat ==
  IF Size < cursor.offset THEN [cursor EXCEPT !.offset = 0, !.partial = <<>>] ELSE cursor

Stat ==
  LET c == AfterStat
  IN  /\ phase = "idle"
      /\ cursor' = c
      /\ \/ Size = c.offset /\ UNCHANGED <<phase, measured>>
         \/ Size # c.offset /\ phase' = "reading" /\ measured' = Size
      /\ UNCHANGED <<file, saved, starts, ghosts, events>>

\* The file cannot be opened or read: the next poll tries again.
ReadFails ==
  /\ phase = "reading"
  /\ phase' = "idle"
  /\ measured' = 0
  /\ UNCHANGED <<file, cursor, saved, starts, ghosts, events>>

\* readSync into a zeroed buffer: what a rotation removed after stat stays zero.
Chunk ==
  [i \in 1 .. measured - cursor.offset |->
     IF cursor.offset + i <= Size THEN base + cursor.offset + i ELSE Unknown]

IsNewline(byte) == byte # Unknown /\ byte % 2 = 0

\* The length of the text up to and with its last newline.
Complete(text) == Max({0} \cup {i \in DOMAIN text : IsNewline(text[i])})

\* The lines of a text: those that are not blank, known by their first byte.
LinesOf(text) ==
  LET Starts(i) == ~IsNewline(text[i]) /\ (i = 1 \/ IsNewline(text[i - 1]))
      Line(i)   == IF text[i] = Unknown THEN Unknown ELSE (text[i] + 1) \div 2
  IN  Selected([i \in DOMAIN text |-> Line(i)], {i \in DOMAIN text : Starts(i)})

LastOf(ls, n) == SubSeq(ls, Max({1, Len(ls) - n + 1}), Len(ls))

\* Slips of Window: each read is looked at by itself; it is not cleared when a block
\* was found in it.
WindowOfRead(lines, found) == IF found # {} THEN <<>> ELSE lines
WindowKept(lines, found) == LastOf(cursor.recent \o lines, RecentMax)

\* cursor.partial after a read, and cursor.recent after the search for a block.
Rest(text) == SubSeq(text, Complete(text) + 1, Len(text))

Window(lines, found) ==
  IF found # {} THEN <<>> ELSE LastOf(cursor.recent \o lines, RecentMax)

\* The read of the file succeeds.
ReadSucceeds == phase = "reading" /\ phase' = "saving"

\* consume(): the complete lines go to the ring buffer and the window.  Without a
\* new line the window is what it was when it was last looked at, without a report.  If
\* the file was rotated after stat, the offset is now beyond its end.
Read ==
  /\ ReadSucceeds
  /\ measured' = 0
  /\ \E text \in {cursor.partial \o Chunk} :
     \E lines \in {LinesOf(SubSeq(text, 1, Complete(text)))} :
     \E found \in {ErrorBlock(LastOf(cursor.recent \o lines, RecentMax))} :
       /\ cursor' = [offset |-> measured, partial |-> Rest(text),
                     recent |-> Window(lines, found)]
       /\ read' = read \o lines
       /\ unsaved' = unsaved \cup ToSet(lines)
       /\ again' = IF Size < measured THEN again \cup ToSet(lines) ELSE again
       /\ events' = events \o SetToSeq(found)
  /\ UNCHANGED <<file, saved, starts>>

\* saveOffsets; a failure of it is passed over.
Save ==
  /\ phase = "saving"
  /\ phase' = "idle"
  /\ \/ saved' = cursor.offset /\ unsaved' = {}
     \/ UNCHANGED <<saved, unsaved>>
  /\ UNCHANGED <<file, cursor, measured, starts, read, again, events>>

Poll == Stat \/ Read \/ ReadFails \/ Save

Next == Write \/ Rotate \/ Start \/ EndOfProcess \/ Poll

Spec == Init /\ [][Next]_vars

-----------------------------------------------------------------------------

Line == 0 .. Len(Script)
Byte == 0 .. 2 * Len(Script)

\* The type of the variables.
TypeOK ==
  /\ wrote \in Byte /\ base \in 0 .. wrote /\ rotations \in 0 .. MaxRotations
  /\ phase \in Phases
  /\ cursor \in [offset : Byte, partial : Seq(Byte), recent : Seq(Line)]
  /\ Len(cursor.recent) <= RecentMax
  /\ measured \in Byte
  /\ saved \in Byte \cup {None}
  /\ starts \in 0 .. MaxStarts
  /\ read \in Seq(Line)
  /\ unsaved \subseteq Line /\ again \subseteq Line
  /\ events \in Seq([head : Line, frames : Seq(Line)])

\* A line of the log is read twice, or after a later one, only if the process ended
\* between its read and a save, or if the file was rotated between the stat and the read
\* of its poll, which leaves the offset beyond the end: over any number of polls, rotations
\* and restarts nothing else leads back (the offset of poll, saveOffsets and start).
NoLineTwice ==
  \A i, j \in DOMAIN read :
    i < j /\ read[i] # Unknown /\ read[j] # Unknown =>
      read[i] < read[j] \/ read[i] \in again

\* The log itself misleads nobody: the first frame within reach of a header is its own,
\* and so is the first of a traceback that ends with its message.
Unmixed ==
  /\ \A h, f \in DOMAIN Script :
       /\ Kind(h) = "head" /\ Kind(f) = "frame" /\ h < f /\ f <= h + FrameReach
       /\ \A j \in h + 1 .. f - 1 : Kind(j) # "frame"
       => Err(f) = Err(h)
  /\ \A t, f, h \in DOMAIN Script :
       /\ Kind(t) = "trace" /\ Kind(f) = "pyframe" /\ Kind(h) = "head" /\ t < f /\ f < h
       /\ \A j \in t + 1 .. f - 1 : Kind(j) # "pyframe"
       /\ \A j \in t + 1 .. h - 1 : Kind(j) \notin {"head", "text", "trace"}
       => Err(f) = Err(h)

\* A report names the top frame of the error it names, however the polls cut the
\* log, as long as it is not rotated: the fingerprint, and so the incident, is made
\* of both (parseErrorBlock over the window that consume keeps).
TopFrameIsOwn ==
  \A e \in ToSet(events) :
    base = 0 /\ e.head # Unknown /\ e.frames # <<>> => Err(Head(e.frames)) = Err(e.head)

\* An error is reported at most once, also when its report is cut into many reads or the
\* process is restarted in between, unless its header was read again for one of the two
\* reasons above (the window is cleared after a report).
ReportedOnce ==
  \A i, j \in DOMAIN events :
    i # j /\ events[i].head # Unknown /\ events[i].head = events[j].head =>
      events[i].head \in again

\* A report that names the error of a line, or has its frames.
Tells(line) ==
  \E e \in ToSet(events) :
    Err(line) \in {Err(e.head)} \cup {Err(f) : f \in ToSet(e.frames)}

\* The header of a Node error: its frames follow.
NodeHeaders ==
  {i \in DOMAIN Script : /\ i + 1 \in DOMAIN Script
                        /\ Kind(i) = "head" /\ Kind(i + 1) = "frame"}

\* The read under way brings so many lines that the header leaves the window.
Flooded(line) ==
  phase = "reading" /\ line \in ToSet(cursor.recent) /\ measured \div 2 - line >= RecentMax

\* A header in the window is not forgotten: unless the process ends, the log is rotated
\* or one read brings a window of lines, its error is reported once its frames arrive,
\* however many polls that takes (the window that consume keeps from read to read).
HeaderIsReported ==
  \A line \in NodeHeaders :
    line \in ToSet(cursor.recent)
      ~> Tells(line) \/ phase = "down" \/ base # 0 \/ Flooded(line)

\* Over a restart nothing is read again and nothing is left out.
NoGap ==
  base = 0 => \A i \in DOMAIN read : i > 1 => read[i] = read[i - 1] + 1

=============================================================================
