------------------------------- MODULE LogWrapper -------------------------------
(***************************************************************************)
(* WrapperRuntime of src/runtime/wrapper.ts as `kafuops run' uses it: a    *)
(* program writes lines to two pipes, each chunk of a pipe is cut into     *)
(* lines, redacted and kept in the ring buffer, and searched for an error  *)
(* report, whose incident gets an excerpt of the buffer.  When the program *)
(* ends, so does the wrapper, with whatever is still in the pipes.         *)
(*                                                                         *)
(* A byte is a word of a line, or the newline at its end, so that a chunk  *)
(* may end anywhere.  What the engine makes of a report, an incident or    *)
(* none, is left open; IncidentEngine has it.                              *)
(***************************************************************************)
EXTENDS RingBuffer, Redaction, SequencesExt

CONSTANTS
  Written,      \* the lines of the program: stream, words, and kind and err as in ErrorBlocks
  WrapperReach, \* lines after a header that may be its frames (59)
  RedactsUpTo,  \* how many patterns the time may last for
  WrapperTime   \* bound: clock ticks

Streams == {"stdout", "stderr"}

Blocks == INSTANCE ErrorBlocks WITH
  Script <- [l \in DOMAIN Written |-> [kind |-> Written[l].kind, err |-> Written[l].err]],
  FrameReach <- WrapperReach

ASSUME WrapperAssumption ==
  /\ Written \in Seq([stream : Streams, words : Seq(Word), kind : Blocks!Kinds, err : Nat])
  /\ WrapperReach \in Nat /\ WrapperTime \in Nat
  /\ RedactsUpTo \subseteq 0 .. Len(Patterns)

VARIABLES
  clock,
  output,   \* the line the program writes, and how many of its words it has written
  program,  \* "running" or "ended"
  wrapper,  \* "up" or "ended"
  pipe,     \* the bytes in each pipe
  half,     \* partialStdout and partialStderr
  flushed,  \* ghost: the places after which a line was cut
  entries,  \* the ring buffer
  bytes,    \* the count of its bytes
  logged,   \* ghost: the words that were pushed to it from each pipe
  logs      \* the last excerpt that was kept with an incident, and for which header

wrapperVars == <<clock, output, program, wrapper, pipe, half, flushed, entries, bytes, logged, logs>>

Newline == 0

\* Byte <<l, w>> is word w of line l.
NextByte(l, words) == <<l, IF words < Len(Written[l].words) THEN words + 1 ELSE Newline>>

NoLogs == [head |-> Blocks!Unknown, kept |-> <<>>]

WrapperInit ==
  /\ clock = 0 /\ output = [line |-> 1, words |-> 0]
  /\ program = "running" /\ wrapper = "up"
  /\ pipe = [s \in Streams |-> <<>>]
  /\ half = [s \in Streams |-> <<>>]
  /\ flushed = {}
  /\ entries = <<>> /\ bytes = 0
  /\ logged = [s \in Streams |-> 0]
  /\ logs = NoLogs

-----------------------------------------------------------------------------
(***************************************************************************)
(* The program and the clock.                                              *)
(***************************************************************************)
ProgramWrites ==
  /\ program = "running"
  /\ output.line \in DOMAIN Written
  /\ \E byte \in {NextByte(output.line, output.words)} :
       /\ pipe' = [pipe EXCEPT ![Written[output.line].stream] = Append(@, byte)]
       /\ output' = IF byte[2] = Newline THEN [line |-> output.line + 1, words |-> 0]
                    ELSE [output EXCEPT !.words = @ + 1]
  /\ UNCHANGED <<clock, program, wrapper, half, flushed, entries, bytes, logged, logs>>

ProgramEnds ==
  /\ program = "running"
  /\ program' = "ended"
  /\ UNCHANGED <<clock, output, wrapper, pipe, half, flushed, entries, bytes, logged, logs>>

Pass ==
  /\ clock < WrapperTime
  /\ clock' = clock + 1
  /\ UNCHANGED <<output, program, wrapper, pipe, half, flushed, entries, bytes, logged, logs>>

-----------------------------------------------------------------------------
(***************************************************************************)
(* handleData.                                                             *)
(***************************************************************************)
IsEnd(byte) == byte[2] = Newline

LastEnd(text) == Max({0} \cup {i \in DOMAIN text : IsEnd(text[i])})

\* A slip of Processable: only a text that goes on behind a newline is passed on.
ProcessableHeld(text) ==
  IF LastEnd(text) \in {0, Len(text)} THEN <<>> ELSE SubSeq(text, 1, LastEnd(text))

\* Without a newline, or with one at its end, the whole text is taken for lines.
Processable(text) ==
  IF LastEnd(text) \in {0, Len(text)} THEN text ELSE SubSeq(text, 1, LastEnd(text))

\* Slips of Remainder: it is not cleared; it is not kept.
RemainderKept(s, text) ==
  IF LastEnd(text) \in {0, Len(text)} THEN half[s] ELSE SubSeq(text, LastEnd(text) + 1, Len(text))
RemainderDropped(s, text) == <<>>

Remainder(s, text) ==
  IF LastEnd(text) \in {0, Len(text)} THEN <<>> ELSE SubSeq(text, LastEnd(text) + 1, Len(text))

\* The lines of a text that are not blank, or what is there of them.
Pieces(text) ==
  LET Starts(i) == ~IsEnd(text[i]) /\ (i = 1 \/ IsEnd(text[i - 1]))
      Stops(i)  == i = Len(text) \/ IsEnd(text[i + 1])
      LastOf(i) == Min({j \in i .. Len(text) : Stops(j)})
      Piece(i)  == [line |-> text[i][1], from |-> text[i][2], to |-> text[LastOf(i)][2]]
  IN  Selected([i \in DOMAIN text |-> Piece(i)], {i \in DOMAIN text : Starts(i)})

WordsOf(piece) == SubSeq(Written[piece.line].words, piece.from, piece.to)

IsWhole(piece) == piece.from = 1 /\ piece.to = Len(Written[piece.line].words)

\* A header is known by its beginning, with a word of its message, any other line as
\* a whole.
Recognised(piece) ==
  \/ IsWhole(piece)
  \/ Blocks!Kind(piece.line) = "head" /\ piece.from = 1 /\ piece.to > 1

Lines(pieces) ==
  [n \in DOMAIN pieces |-> IF Recognised(pieces[n]) THEN pieces[n].line ELSE Blocks!Unknown]

EntryOf(piece, count) ==
  [at |-> clock, piece |-> piece, message |-> Redact(WordsOf(piece), count), all |-> count]

Buffered(pieces, count) ==
  LET upTo[n \in 0 .. Len(pieces)] ==
        IF n = 0 THEN [entries |-> entries, bytes |-> bytes]
        ELSE Push(upTo[n - 1], EntryOf(pieces[n], count))
  IN  upTo[Len(pieces)]

\* persistIncidentLogs, for an incident that is new or was first seen before.
Keep(head, buffer) ==
  \E first \in 0 .. clock :
    LET kept == Excerpt(buffer, first, clock)
    IN  logs' = IF kept = <<>> THEN logs ELSE [head |-> head, kept |-> kept]

WordCount(pieces) ==
  LET upTo[n \in 0 .. Len(pieces)] ==
        IF n = 0 THEN 0 ELSE upTo[n - 1] + pieces[n].to + 1 - pieces[n].from
  IN  upTo[Len(pieces)]

\* All that is in a pipe is read at once.
Take(s) ==
  /\ wrapper = "up" /\ pipe[s] # <<>>
  /\ pipe' = [pipe EXCEPT ![s] = <<>>]

\* The pieces of a chunk are logged before it is searched for a report.
Data(s) ==
  /\ Take(s)
  /\ \E text \in {half[s] \o pipe[s]} :
     \E pieces \in {Pieces(Processable(text))}, count \in RedactsUpTo :
     \E buffer \in {Buffered(pieces, count)} :
       /\ half' = [half EXCEPT ![s] = Remainder(s, text)]
       /\ flushed' = IF LastEnd(text) = 0 THEN flushed \cup {text[Len(text)]} ELSE flushed
       /\ logged' = [logged EXCEPT ![s] = @ + WordCount(pieces)]
       /\ entries' = buffer.entries /\ bytes' = buffer.bytes
       /\ logs' = logs \/ \E block \in Blocks!ErrorBlock(Lines(pieces)) : Keep(block.head, buffer)
  /\ UNCHANGED <<clock, output, program, wrapper>>

\* The handler of an event throws: nothing of `kafuops run' catches it, and the process
\* is over before the incident has its logs.
HandlerThrows(s) ==
  /\ Take(s)
  /\ Blocks!ErrorBlock(Lines(Pieces(Processable(half[s] \o pipe[s])))) # {}
  /\ wrapper' = "ended"
  /\ half' = [r \in Streams |-> <<>>]
  /\ entries' = <<>> /\ bytes' = 0
  /\ UNCHANGED <<clock, output, program, flushed, logged, logs>>

\* The exit event comes before or after the last chunks.  It is reported, and resolves
\* runCommand, whose caller ends the process.
ExitEvent ==
  /\ wrapper = "up" /\ program = "ended"
  /\ wrapper' = "ended"
  /\ half' = [s \in Streams |-> <<>>]
  /\ entries' = <<>> /\ bytes' = 0
  /\ logs' = logs \/ Keep(Blocks!Unknown, [entries |-> entries, bytes |-> bytes])
  /\ UNCHANGED <<clock, output, program, pipe, flushed, logged>>

WrapperNext ==
  \/ ProgramWrites \/ ProgramEnds \/ Pass \/ ExitEvent
  \/ \E s \in Streams : Data(s) \/ HandlerThrows(s)

-----------------------------------------------------------------------------

Piece == [line : DOMAIN Written, from : Nat, to : Nat]

LogEntry == [at : Nat, piece : Piece, message : Seq(Word \cup Marker), all : RedactsUpTo]

\* The type of the variables.
WrapperTypeOK ==
  /\ clock \in 0 .. WrapperTime
  /\ output \in [line : 1 .. Len(Written) + 1, words : Nat]
  /\ program \in {"running", "ended"}
  /\ wrapper \in {"up", "ended"}
  /\ pipe \in [Streams -> Seq((DOMAIN Written) \X Nat)]
  /\ half \in [Streams -> Seq((DOMAIN Written) \X Nat)]
  /\ flushed \subseteq (DOMAIN Written) \X Nat
  /\ entries \in Seq(LogEntry) /\ bytes \in Nat
  /\ logged \in [Streams -> Nat]
  /\ logs.head \in {Blocks!Unknown} \cup DOMAIN Written /\ logs.kept \in Seq(LogEntry)

\* However the pipes cut the output, no part of a line is logged twice or before what
\* the program wrote to the same pipe before it (handleData and its two half lines).
LinesInOrder ==
  \A i, j \in DOMAIN entries :
    LET p == entries[i].piece
        q == entries[j].piece
    IN  i < j /\ Written[p.line].stream = Written[q.line].stream =>
          p.line < q.line \/ (p.line = q.line /\ p.to < q.from)

\* The words of a line that a pattern would replace, if it saw the line as a whole.
Secrets(l) ==
  {w \in {Written[l].words[k] : k \in DOMAIN Written[l].words} :
     w \notin ToSet(Redact(Written[l].words, Len(Patterns)))}

\* No secret of a line gets into the buffer, and from there into an incident, unless
\* the time for redaction was over, or a chunk without any newline cut the line in two
\* (handleData redacts piece by piece and passes such a chunk on as it is).
SecretsStayOut ==
  \A entry \in ToSet(entries) \cup ToSet(logs.kept) :
    \/ ToSet(entry.message) \cap Secrets(entry.piece.line) = {}
    \/ entry.all < Len(Patterns)
    \/ \E w \in DOMAIN Written[entry.piece.line].words : <<entry.piece.line, w>> \in flushed

\* The running count of the buffer's bytes, to which every push adds and from which each
\* entry that is shifted out for its age or for its size is subtracted in another place,
\* never drifts from what the buffer holds; so the buffer, which is pruned by the count,
\* does keep to its size, except for a last entry that is too large by itself.
BufferIsBounded ==
  /\ bytes = Bytes(entries)
  /\ Len(entries) > 1 => Bytes(entries) <= MaxBytes

\* The excerpt kept with an incident shows the header of its error, unless the buffer
\* has lost that line or older lines fill the excerpt (Push, Excerpt and the order in
\* which handleData logs and searches).
LogsShowError ==
  [][logs' # logs /\ logs'.head # Blocks!Unknown =>
       LET Shows(buffer) == \E entry \in ToSet(buffer) : entry.piece.line = logs'.head
       IN  \/ Shows(logs'.kept)
           \/ ~Shows(entries')
           \/ Bytes(logs'.kept) - Overhead * Len(logs'.kept) >= MaxChars]_wrapperVars

\* The number of words of the program's pipe up to and with line l.
WordsUpTo(l) ==
  FoldLeft(LAMBDA sum, k : sum + Len(Written[k].words), 0,
           SelectSeq([k \in 1 .. l |-> k], LAMBDA k : Written[k].stream = Written[l].stream))

\* A line that the program has written to its end is logged in the end, however the
\* pipe was cut, unless the wrapper ends first (the half line that handleData keeps).
LineArrives ==
  \A l \in DOMAIN Written :
    output.line > l
      ~> logged[Written[l].stream] >= WordsUpTo(l) \/ wrapper = "ended"

=============================================================================
