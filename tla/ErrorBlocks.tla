------------------------------ MODULE ErrorBlocks ------------------------------
(***************************************************************************)
(* parseErrorBlock of src/runtime/parser.ts: the first error report in a   *)
(* sequence of log lines.                                                  *)
(*                                                                         *)
(* A line is known by its number in Script, and of its text the model      *)
(* keeps what the regular expressions tell apart: a header `XError: ...',  *)
(* a Node frame, the first line of a Python traceback, a Python frame, or  *)
(* other text; and which error it belongs to.  Blank lines are not in it:  *)
(* the tailer drops them before it looks for a report.                     *)
(***************************************************************************)
EXTENDS Selection, FiniteSetsExt

CONSTANTS
  Script,    \* the lines a program logs: [kind : Kinds, err : Nat]
  FrameReach \* lines after a header that may be its frames (59)

Kinds == {"head", "frame", "trace", "pyframe", "text"}

ASSUME ScriptAssumption ==
  /\ Script \in Seq([kind : Kinds, err : Nat])
  /\ FrameReach \in Nat

\* A line number that stands for no line: text that is unreadable, or missing.
Unknown == 0

Kind(line) == IF line = Unknown THEN "text" ELSE Script[line].kind

Err(line) == IF line = Unknown THEN 0 ELSE Script[line].err

\* The lines of ls between two places that are of a kind, in their order.
Pick(ls, from, to, kind) == Selected(ls, {i \in from .. to : Kind(ls[i]) = kind})

\* A slip of NodeFrames: every frame of the window is taken for the header's.
NodeFramesOfWindow(ls, i) == Pick(ls, 1, Len(ls), "frame")

\* Lines that are not frames are skipped, other headers among them.
NodeFrames(ls, i) == Pick(ls, i + 1, Min({Len(ls), i + FrameReach}), "frame")

First(S) == {i \in S : \A j \in S : i <= j}

\* The first header that frames follow.
NodeBlock(ls) ==
  LET heads == {i \in DOMAIN ls : Kind(ls[i]) = "head" /\ NodeFrames(ls, i) # <<>>}
  IN  {[head |-> ls[i], frames |-> NodeFrames(ls, i)] : i \in First(heads)}

\* A traceback ends at the first line that is neither a frame nor indented code,
\* or where the text ends; only in the first case can it have a message.
TracebackEnd(ls, i) ==
  Min({Len(ls)} \cup {j \in i + 1 .. Len(ls) : Kind(ls[j]) \in {"head", "text", "trace"}})

PythonBlock(ls) ==
  LET Message(line) == IF Kind(line) = "head" THEN line ELSE Unknown
  IN  {[head   |-> Message(ls[TracebackEnd(ls, i)]),
        frames |-> Pick(ls, i + 1, TracebackEnd(ls, i), "pyframe")]
         : i \in First({i \in DOMAIN ls : Kind(ls[i]) = "trace"})}

\* At most one block is found, and Node's kind is looked for first.
ErrorBlock(ls) == IF NodeBlock(ls) # {} THEN NodeBlock(ls) ELSE PythonBlock(ls)

=============================================================================
