-------------------------- MODULE LogObserversProofs --------------------------
(***************************************************************************)
(* Proofs about LogObservers. Of the tailer, for any log, window, number   *)
(* of restarts and rotations: the types of its variables; that no line is  *)
(* read twice and no error reported twice, except the lines that the       *)
(* process had read and not saved when it ended, or that it read of a file *)
(* rotated between stat and read; and, wherever the process ends, that a   *)
(* report has its own frames while the file is not rotated. Of the         *)
(* wrapper, for any output, patterns and limits: the types, that the       *)
(* running count of its buffer never drifts and the bound it keeps, that   *)
(* lines are logged in order, once, and redacted, wherever the pipes are   *)
(* cut, and that the excerpt of an incident shows its error.               *)
(***************************************************************************)
EXTENDS LogObservers, SelectionLemmas, TLAPS

-----------------------------------------------------------------------------
(***************************************************************************)
(* The greatest and the least of some places.                              *)
(***************************************************************************)
LEMMA GreatestPlace ==
  ASSUME NEW n \in Nat, NEW S \in SUBSET (0 .. n), S # {}
  PROVE  Max(S) \in S /\ \A x \in S : x <= Max(S)
<1> DEFINE T == {n - x : x \in S}
<1>1. T \in SUBSET Nat /\ T # {}
  <2>1. \A x \in S : n - x \in Nat
    OBVIOUS
  <2> QED
    BY <2>1
<1>2. PICK t \in T : \A u \in T : t <= u
  BY <1>1, LeastMember
<1>3. PICK m \in S : t = n - m
  BY <1>2
<1>4. \A x \in S : x <= m
  <2> SUFFICES ASSUME NEW x \in S PROVE x <= m
    OBVIOUS
  <2>1. n - m <= n - x
    BY <1>2, <1>3
  <2>2. m \in 0 .. n /\ x \in 0 .. n
    OBVIOUS
  <2> QED
    BY <2>1, <2>2
<1>5. \E x \in S : \A y \in S : x >= y
  BY <1>4
<1>6. Max(S) \in S /\ \A y \in S : Max(S) >= y
  BY <1>5 DEF Max
<1> QED
  BY <1>6

LEMMA LeastPlace ==
  ASSUME NEW S \in SUBSET Nat, S # {}
  PROVE  Min(S) \in S /\ \A x \in S : Min(S) <= x
<1>1. \E x \in S : \A y \in S : x <= y
  BY LeastMember
<1> QED
  BY <1>1 DEF Min

-----------------------------------------------------------------------------
(***************************************************************************)
(* What the parser returns.                                                *)
(***************************************************************************)
LEMMA PickType ==
  ASSUME NEW ls \in Seq(Line), NEW from \in Nat \ {0}, NEW to \in Nat, to <= Len(ls), NEW kind
  PROVE  Pick(ls, from, to, kind) \in Seq(Line)
<1> DEFINE P == {i \in from .. to : Kind(ls[i]) = kind}
<1>1. DOMAIN ls = 1 .. Len(ls) /\ Len(ls) \in Nat
  BY LenProperties
<1>2. P \in SUBSET (DOMAIN ls)
  BY <1>1
<1> QED
  BY <1>2, SelectedType DEF Pick

LEMMA NodeFramesType ==
  ASSUME NEW ls \in Seq(Line), NEW i \in DOMAIN ls
  PROVE  NodeFrames(ls, i) \in Seq(Line)
<1> DEFINE to == Min({Len(ls), i + FrameReach})
<1>1. DOMAIN ls = 1 .. Len(ls) /\ Len(ls) \in Nat /\ i \in Nat \ {0} /\ FrameReach \in Nat
  BY LenProperties, ScriptAssumption
<1>2. to \in {Len(ls), i + FrameReach} /\ \A x \in {Len(ls), i + FrameReach} : to <= x
  <2>1. {Len(ls), i + FrameReach} \in SUBSET Nat
    BY <1>1
  <2> QED
    BY <2>1, LeastPlace
<1>3. to \in Nat /\ to <= Len(ls)
  BY <1>1, <1>2
<1> HIDE DEF to
<1>4. i + 1 \in Nat \ {0}
  BY <1>1
<1>5. Pick(ls, i + 1, to, "frame") \in Seq(Line)
  BY <1>3, <1>4, PickType
<1> QED
  BY <1>5 DEF NodeFrames, to

LEMMA TracebackEndType ==
  ASSUME NEW ls \in Seq(Line), NEW i \in DOMAIN ls
  PROVE  TracebackEnd(ls, i) \in DOMAIN ls
<1> DEFINE S == {Len(ls)} \cup {j \in i + 1 .. Len(ls) : Kind(ls[j]) \in {"head", "text", "trace"}}
<1>1. DOMAIN ls = 1 .. Len(ls) /\ Len(ls) \in Nat /\ i \in Nat \ {0} /\ i <= Len(ls)
  BY LenProperties
<1>2. S \in SUBSET Nat /\ S \subseteq 1 .. Len(ls) /\ S # {}
  BY <1>1
<1>3. Min(S) \in S
  BY <1>2, LeastPlace
<1> QED
  BY <1>1, <1>2, <1>3 DEF TracebackEnd

LEMMA FirstIsOne ==
  ASSUME NEW S \in SUBSET Nat
  PROVE  \A i, j \in First(S) : i = j
<1> SUFFICES ASSUME NEW i \in First(S), NEW j \in First(S) PROVE i = j
  OBVIOUS
<1>1. i \in S /\ j \in S /\ i <= j /\ j <= i
  BY DEF First
<1>2. i \in Nat /\ j \in Nat
  BY <1>1
<1> QED
  BY <1>1, <1>2

Report == [head : Line, frames : Seq(Line)]

\* A report names a line of the text, or none.
HeadIsIn(b, ls) == b.head = Unknown \/ \E i \in DOMAIN ls : b.head = ls[i]

LEMMA NodeBlockType ==
  ASSUME NEW ls \in Seq(Line), NEW b \in NodeBlock(ls)
  PROVE  /\ b \in Report /\ HeadIsIn(b, ls)
         /\ \A c \in NodeBlock(ls) : b = c
<1> DEFINE heads == {i \in DOMAIN ls : Kind(ls[i]) = "head" /\ NodeFrames(ls, i) # <<>>}
<1>1. DOMAIN ls = 1 .. Len(ls) /\ Len(ls) \in Nat /\ \A i \in DOMAIN ls : ls[i] \in Line
  BY LenProperties
<1>2. heads \in SUBSET Nat
  BY <1>1
<1> HIDE DEF heads
<1>3. \A i, j \in First(heads) : i = j
  BY <1>2, FirstIsOne
<1>4. NodeBlock(ls) = {[head |-> ls[i], frames |-> NodeFrames(ls, i)] : i \in First(heads)}
  BY DEF NodeBlock, heads
<1>5. PICK i \in First(heads) : b = [head |-> ls[i], frames |-> NodeFrames(ls, i)]
  BY <1>4
<1>6. i \in DOMAIN ls
  BY DEF First, heads
<1>7. NodeFrames(ls, i) \in Seq(Line)
  BY <1>6, NodeFramesType
<1>8. b \in Report /\ HeadIsIn(b, ls)
  BY <1>1, <1>5, <1>6, <1>7 DEF Report, HeadIsIn
<1>9. \A c \in NodeBlock(ls) : b = c
  BY <1>3, <1>4, <1>5
<1> QED
  BY <1>8, <1>9

LEMMA PythonBlockType ==
  ASSUME NEW ls \in Seq(Line), NEW b \in PythonBlock(ls)
  PROVE  /\ b \in Report /\ HeadIsIn(b, ls)
         /\ \A c \in PythonBlock(ls) : b = c
<1> DEFINE traces == {i \in DOMAIN ls : Kind(ls[i]) = "trace"}
           Message(line) == IF Kind(line) = "head" THEN line ELSE Unknown
           Of(i) == [head   |-> Message(ls[TracebackEnd(ls, i)]),
                     frames |-> Pick(ls, i + 1, TracebackEnd(ls, i), "pyframe")]
<1>1. DOMAIN ls = 1 .. Len(ls) /\ Len(ls) \in Nat /\ \A i \in DOMAIN ls : ls[i] \in Line
  BY LenProperties
<1>2. traces \in SUBSET Nat
  BY <1>1
<1>3. PythonBlock(ls) = {Of(i) : i \in First(traces)}
  BY DEF PythonBlock
<1> HIDE DEF traces
<1>4. \A i, j \in First(traces) : i = j
  BY <1>2, FirstIsOne
<1>5. PICK i \in First(traces) : b = Of(i)
  BY <1>3
<1>6. i \in DOMAIN ls
  BY DEF First, traces
<1>7. TracebackEnd(ls, i) \in DOMAIN ls
  BY <1>6, TracebackEndType
<1>8. Pick(ls, i + 1, TracebackEnd(ls, i), "pyframe") \in Seq(Line)
  <2>1. i + 1 \in Nat \ {0} /\ TracebackEnd(ls, i) \in Nat /\ TracebackEnd(ls, i) <= Len(ls)
    BY <1>1, <1>6, <1>7
  <2> QED
    BY <2>1, PickType
<1>9. Message(ls[TracebackEnd(ls, i)]) \in {Unknown, ls[TracebackEnd(ls, i)]}
  OBVIOUS
<1>10. Unknown \in Line
  <2>1. Len(Script) \in Nat
    BY ScriptAssumption, LenProperties
  <2> QED
    BY <2>1 DEF Unknown, Line
<1>11. b \in Report /\ HeadIsIn(b, ls)
  BY <1>1, <1>5, <1>7, <1>8, <1>9, <1>10 DEF Report, HeadIsIn
<1>12. \A c \in PythonBlock(ls) : b = c
  <2> HIDE DEF Of
  <2> QED
    BY <1>3, <1>4, <1>5
<1> QED
  BY <1>11, <1>12

LEMMA ErrorBlockType ==
  ASSUME NEW ls \in Seq(Line), NEW b \in ErrorBlock(ls)
  PROVE  /\ b \in Report /\ HeadIsIn(b, ls)
         /\ \A c \in ErrorBlock(ls) : b = c
<1>1. CASE NodeBlock(ls) # {}
  BY <1>1, NodeBlockType DEF ErrorBlock
<1>2. CASE NodeBlock(ls) = {}
  BY <1>2, PythonBlockType DEF ErrorBlock
<1> QED
  BY <1>1, <1>2

\* The sequence of a set with one member at most.
LEMMA SeqOfOne ==
  ASSUME NEW T, NEW S \in SUBSET T, \A x, y \in S : x = y
  PROVE  /\ SetToSeq(S) \in Seq(T)
         /\ S = {} => SetToSeq(S) = <<>>
         /\ S # {} => Len(SetToSeq(S)) = 1 /\ SetToSeq(S)[1] \in S
<1> DEFINE n == Cardinality(S)
           s == SetToSeq(S)
<1>1. /\ n \in {0, 1} /\ (S = {} <=> n = 0)
  <2>1. CASE S = {}
    BY <2>1, FS_EmptySet
  <2>2. CASE S # {}
    <3>1. PICK x \in S : S = {x}
      BY <2>2
    <3>2. Cardinality({x}) = 1
      BY FS_Singleton
    <3> QED
      BY <2>2, <3>1, <3>2
  <2> QED
    BY <2>1, <2>2
<1>2. \E f \in [1 .. n -> S] : IsInjective(f)
  <2>1. CASE n = 0
    <3>1. [i \in 1 .. 0 |-> i] \in [1 .. n -> S]
      BY <2>1
    <3> QED
      BY <3>1 DEF IsInjective
  <2>2. CASE n = 1
    <3>1. PICK x \in S : TRUE
      BY <1>1, <2>2
    <3>2. [i \in 1 .. n |-> x] \in [1 .. n -> S]
      BY <3>1
    <3>3. IsInjective([i \in 1 .. n |-> x])
      BY <2>2 DEF IsInjective
    <3> QED
      BY <3>2, <3>3
  <2> QED
    BY <1>1, <2>1, <2>2
<1>3. s \in [1 .. n -> S]
  BY <1>2 DEF SetToSeq
<1> HIDE DEF n, s
<1>4. s \in Seq(S) /\ Len(s) = n /\ DOMAIN s = 1 .. n
  <2>1. n \in Nat
    BY <1>1
  <2> QED
    BY <1>3, <2>1
<1>5. s \in Seq(T)
  BY <1>4, SeqMonotonic
<1>6. S = {} => s = <<>>
  BY <1>1, <1>4, EmptySeq
<1>7. S # {} => Len(s) = 1 /\ s[1] \in S
  <2>1. S # {} => 1 \in 1 .. n
    BY <1>1
  <2> QED
    BY <1>1, <1>3, <1>4, <2>1
<1> QED
  BY <1>5, <1>6, <1>7 DEF s

-----------------------------------------------------------------------------
(***************************************************************************)
(* What a read makes of a text.                                            *)
(***************************************************************************)
LEMMA ScriptLength == Len(Script) \in Nat /\ 0 \in Byte /\ 0 \in Line /\ Byte \subseteq Nat /\ Line \subseteq Nat
<1>1. Len(Script) \in Nat
  BY ScriptAssumption, LenProperties
<1> QED
  BY <1>1 DEF Byte, Line

\* The line that a byte belongs to.
LEMMA LineOfByte ==
  ASSUME NEW b \in Byte
  PROVE  /\ (b + 1) \div 2 \in Line
         /\ ~IsNewline(b) /\ b # Unknown => 2 * ((b + 1) \div 2) - 1 = b
<1>1. Len(Script) \in Nat /\ b \in Nat /\ b <= 2 * Len(Script)
  BY ScriptLength DEF Byte
<1>2. (b + 1) \div 2 \in Nat /\ (b + 1) \div 2 <= Len(Script)
  BY <1>1
<1>3. b % 2 # 0 => 2 * ((b + 1) \div 2) - 1 = b
  BY <1>1
<1> QED
  BY <1>1, <1>2, <1>3 DEF Line, IsNewline

LEMMA CompleteType ==
  ASSUME NEW text \in Seq(Byte)
  PROVE  Complete(text) \in 0 .. Len(text)
<1> DEFINE S == {0} \cup {i \in DOMAIN text : IsNewline(text[i])}
<1>1. DOMAIN text = 1 .. Len(text) /\ Len(text) \in Nat
  BY LenProperties
<1>2. S \in SUBSET (0 .. Len(text)) /\ S # {}
  BY <1>1
<1> HIDE DEF S
<1>3. Max(S) \in S
  BY <1>1, <1>2, GreatestPlace
<1> QED
  BY <1>2, <1>3 DEF Complete, S

LEMMA RestType ==
  ASSUME NEW text \in Seq(Byte)
  PROVE  /\ Rest(text) \in Seq(Byte)
         /\ DOMAIN Rest(text) = 1 .. Len(text) - Complete(text)
         /\ \A i \in DOMAIN Rest(text) : Rest(text)[i] = text[Complete(text) + i]
<1> DEFINE c == Complete(text)
           n == Len(text)
           r == SubSeq(text, c + 1, n)
<1>1. c \in 0 .. n /\ n \in Nat /\ \A i \in 1 .. n : text[i] \in Byte
  BY CompleteType, LenProperties
<1> HIDE DEF c, n
<1>2. /\ r \in Seq(Byte) /\ Len(r) = (IF c + 1 <= n THEN n - (c + 1) + 1 ELSE 0)
      /\ \A i \in 1 .. n - (c + 1) + 1 : r[i] = text[(c + 1) + i - 1]
  <2>1. c + 1 \in Int /\ n \in Int /\ \A i \in c + 1 .. n : text[i] \in Byte
    BY <1>1
  <2> QED
    BY <2>1, SubSeqProperties
<1> HIDE DEF r
<1>3. Len(r) = n - c /\ n - (c + 1) + 1 = n - c
  BY <1>1, <1>2
<1>4. DOMAIN r = 1 .. n - c
  BY <1>2, <1>3, LenProperties
<1>5. ASSUME NEW i \in 1 .. n - c PROVE r[i] = text[c + i]
  <2>1. r[i] = text[(c + 1) + i - 1] /\ (c + 1) + i - 1 = c + i
    BY <1>1, <1>2, <1>3
  <2> QED
    BY <2>1
<1> QED
  BY <1>2, <1>4, <1>5 DEF Rest, r, c, n

LEMMA LastOfType ==
  ASSUME NEW S, NEW ls \in Seq(S), NEW n \in Nat \ {0}
  PROVE  /\ LastOf(ls, n) \in Seq(S) /\ Len(LastOf(ls, n)) <= n
         /\ \E k \in Nat :
              /\ k + Len(LastOf(ls, n)) = Len(ls)
              /\ \A i \in DOMAIN LastOf(ls, n) :
                   k + i \in DOMAIN ls /\ LastOf(ls, n)[i] = ls[k + i]
<1> DEFINE l == Len(ls)
           p == Max({1, l - n + 1})
           r == SubSeq(ls, p, l)
<1>1. l \in Nat /\ DOMAIN ls = 1 .. l /\ \A i \in 1 .. l : ls[i] \in S
  BY LenProperties
<1>2. p \in Nat \ {0} /\ p >= l - n + 1 /\ (p = 1 \/ p = l - n + 1)
  <2>1. \E x \in {1, l - n + 1} : \A y \in {1, l - n + 1} : x >= y
    BY <1>1
  <2>2. p \in {1, l - n + 1} /\ \A y \in {1, l - n + 1} : p >= y
    BY <2>1 DEF Max
  <2> QED
    BY <1>1, <2>2
<1> HIDE DEF l, p
<1>3. /\ r \in Seq(S) /\ Len(r) = (IF p <= l THEN l - p + 1 ELSE 0)
      /\ \A i \in 1 .. l - p + 1 : r[i] = ls[p + i - 1]
  <2>1. p \in Int /\ l \in Int /\ \A i \in p .. l : ls[i] \in S
    BY <1>1, <1>2
  <2> QED
    BY <2>1, SubSeqProperties
<1> HIDE DEF r
<1>4. Len(r) <= n /\ (p - 1) + Len(r) = l
  BY <1>1, <1>2, <1>3
<1>5. DOMAIN r = 1 .. Len(r) /\ Len(r) \in Nat
  BY <1>3, LenProperties
<1>6. p - 1 \in Nat
  BY <1>2
<1>7. ASSUME NEW i \in DOMAIN r PROVE (p - 1) + i \in DOMAIN ls /\ r[i] = ls[(p - 1) + i]
  <2>1. i \in 1 .. l - p + 1
    BY <1>1, <1>2, <1>3, <1>5
  <2>2. (p - 1) + i = p + i - 1 /\ (p - 1) + i \in 1 .. l
    BY <1>1, <1>2, <2>1
  <2> QED
    BY <1>1, <1>3, <2>1, <2>2
<1>8. LastOf(ls, n) = r
  BY DEF LastOf, r, p, l
<1> QED
  BY <1>3, <1>4, <1>6, <1>7, <1>8 DEF l

\* Of the known members of a sequence, each is less than those behind it.
Ascends(s) ==
  \A i, j \in DOMAIN s : i < j /\ s[i] # Unknown /\ s[j] # Unknown => s[i] < s[j]

\* The text of the line, as a byte.
TextOf(line) == 2 * line - 1

\* The lines of a text: each that is known has its own byte in it, and they are in the
\* order of these.
LEMMA LinesOfType ==
  ASSUME NEW text \in Seq(Byte)
  PROVE  /\ LinesOf(text) \in Seq(Line)
         /\ \A m \in DOMAIN LinesOf(text) :
              LinesOf(text)[m] # Unknown =>
                \E i \in DOMAIN text : text[i] # Unknown /\ TextOf(LinesOf(text)[m]) = text[i]
         /\ Ascends(text) => Ascends(LinesOf(text))
<1> DEFINE Line1(i) == IF text[i] = Unknown THEN Unknown ELSE (text[i] + 1) \div 2
           all == [i \in DOMAIN text |-> Line1(i)]
           P == {i \in DOMAIN text : ~IsNewline(text[i]) /\ (i = 1 \/ IsNewline(text[i - 1]))}
           ls == Selected(all, P)
<1>1. DOMAIN text = 1 .. Len(text) /\ Len(text) \in Nat /\ \A i \in DOMAIN text : text[i] \in Byte
  BY LenProperties
<1>2. \A i \in DOMAIN text : Line1(i) \in Line
  BY <1>1, LineOfByte, ScriptLength DEF Unknown
<1>3. ls = LinesOf(text)
  BY DEF LinesOf
<1> HIDE DEF Line1, ls
<1>4. all \in Seq(Line) /\ DOMAIN all = DOMAIN text /\ \A i \in DOMAIN text : all[i] = Line1(i)
  BY <1>1, <1>2
<1> HIDE DEF all
<1>5. P \in SUBSET (DOMAIN all)
  BY <1>4
<1> HIDE DEF P
<1>6. ls \in Seq(Line) /\ DOMAIN ls = 1 .. Cardinality(P) /\ P \subseteq Int
  BY <1>4, <1>5, SelectedType DEF ls
<1>7. PICK f \in [1 .. Cardinality(P) -> P] :
        /\ \A n \in 1 .. Cardinality(P) : ls[n] = all[f[n]]
        /\ \A m, n \in 1 .. Cardinality(P) : m < n => f[m] < f[n]
  <2>1. \E f \in [1 .. Cardinality(P) -> P] :
          /\ \A n \in 1 .. Cardinality(P) : Selected(all, P)[n] = all[f[n]]
          /\ \A m, n \in 1 .. Cardinality(P) : m < n => f[m] < f[n]
          /\ \A p \in P : \E n \in 1 .. Cardinality(P) : f[n] = p
    BY <1>4, <1>5, SelectedPlaces
  <2> QED
    BY <2>1 DEF ls
<1>8. ASSUME NEW m \in DOMAIN ls, ls[m] # Unknown
      PROVE  /\ f[m] \in DOMAIN text /\ ls[m] \in Nat
             /\ text[f[m]] # Unknown /\ TextOf(ls[m]) = text[f[m]]
  <2>1. f[m] \in P
    BY <1>6, <1>7
  <2>2. f[m] \in DOMAIN text /\ ~IsNewline(text[f[m]]) /\ text[f[m]] \in Byte
    BY <1>1, <2>1 DEF P
  <2>3. text[f[m]] # Unknown /\ ls[m] = (text[f[m]] + 1) \div 2
    BY <1>4, <1>6, <1>7, <1>8, <2>2 DEF Line1
  <2>4. 2 * ls[m] - 1 = text[f[m]]
    BY <2>2, <2>3, LineOfByte
  <2>5. ls[m] \in Nat
    BY <2>2, <2>3, LineOfByte, ScriptLength
  <2> QED
    BY <2>2, <2>3, <2>4, <2>5 DEF TextOf
<1>9. ASSUME Ascends(text), NEW m \in DOMAIN ls, NEW n \in DOMAIN ls, m < n,
             ls[m] # Unknown, ls[n] # Unknown
      PROVE  ls[m] < ls[n]
  <2>1. f[m] < f[n]
    BY <1>6, <1>7, <1>9
  <2>2. text[f[m]] < text[f[n]]
    BY <1>8, <1>9, <2>1 DEF Ascends
  <2>3. ls[m] \in Nat /\ ls[n] \in Nat /\ 2 * ls[m] - 1 < 2 * ls[n] - 1
    BY <1>8, <1>9, <2>2 DEF TextOf
  <2> QED
    BY <2>3
<1> QED
  BY <1>3, <1>6, <1>8, <1>9 DEF Ascends


\* The complete lines of a text.
HeadOf(text) == SubSeq(text, 1, Complete(text))

LEMMA HeadOfType ==
  ASSUME NEW text \in Seq(Byte)
  PROVE  /\ HeadOf(text) \in Seq(Byte)
         /\ DOMAIN HeadOf(text) = 1 .. Complete(text)
         /\ \A i \in DOMAIN HeadOf(text) : HeadOf(text)[i] = text[i]
<1> DEFINE c == Complete(text)
           h == SubSeq(text, 1, c)
<1>1. c \in 0 .. Len(text) /\ Len(text) \in Nat /\ \A i \in 1 .. Len(text) : text[i] \in Byte
  BY CompleteType, LenProperties
<1> HIDE DEF c
<1>2. /\ h \in Seq(Byte) /\ Len(h) = (IF 1 <= c THEN c - 1 + 1 ELSE 0)
      /\ \A i \in 1 .. c - 1 + 1 : h[i] = text[1 + i - 1]
  <2>1. 1 \in Int /\ c \in Int /\ \A i \in 1 .. c : text[i] \in Byte
    BY <1>1
  <2> QED
    BY <2>1, SubSeqProperties
<1> HIDE DEF h
<1>3. DOMAIN h = 1 .. c
  BY <1>1, <1>2, LenProperties
<1>4. ASSUME NEW i \in 1 .. c PROVE h[i] = text[i]
  <2>1. i \in 1 .. c - 1 + 1 /\ 1 + i - 1 = i
    BY <1>1
  <2> QED
    BY <1>2, <2>1
<1> QED
  BY <1>2, <1>3, <1>4 DEF HeadOf, h, c

\* Each known member of the one is less than each of the other.
Before(s, t) ==
  \A i \in DOMAIN s, j \in DOMAIN t : s[i] # Unknown /\ t[j] # Unknown => s[i] < t[j]

LEMMA MembersOfBoth ==
  ASSUME NEW S, NEW s \in Seq(S), NEW t \in Seq(S), NEW i \in DOMAIN (s \o t)
  PROVE  \/ i \in DOMAIN s /\ (s \o t)[i] = s[i]
         \/ i > Len(s) /\ i - Len(s) \in DOMAIN t /\ (s \o t)[i] = t[i - Len(s)]
<1>1. /\ Len(s \o t) = Len(s) + Len(t) /\ s \o t \in Seq(S)
      /\ \A k \in 1 .. Len(s) + Len(t) :
           (s \o t)[k] = IF k <= Len(s) THEN s[k] ELSE t[k - Len(s)]
  BY ConcatProperties
<1>2. /\ Len(s) \in Nat /\ Len(t) \in Nat
      /\ DOMAIN s = 1 .. Len(s) /\ DOMAIN t = 1 .. Len(t) /\ DOMAIN (s \o t) = 1 .. Len(s \o t)
  BY <1>1, LenProperties
<1>3. i \in 1 .. Len(s) + Len(t)
  BY <1>1, <1>2
<1>4. CASE i <= Len(s)
  BY <1>1, <1>2, <1>3, <1>4
<1>5. CASE ~(i <= Len(s))
  <2>1. i > Len(s) /\ i - Len(s) \in 1 .. Len(t)
    BY <1>2, <1>3, <1>5
  <2> QED
    BY <1>1, <1>2, <1>3, <1>5, <2>1
<1> QED
  BY <1>4, <1>5

LEMMA PlacesOfBoth ==
  ASSUME NEW S, NEW s \in Seq(S), NEW t \in Seq(S)
  PROVE  /\ \A i \in DOMAIN s : i \in DOMAIN (s \o t) /\ (s \o t)[i] = s[i]
         /\ \A j \in DOMAIN t : Len(s) + j \in DOMAIN (s \o t) /\ (s \o t)[Len(s) + j] = t[j]
<1>1. /\ Len(s \o t) = Len(s) + Len(t) /\ s \o t \in Seq(S)
      /\ \A k \in 1 .. Len(s) + Len(t) :
           (s \o t)[k] = IF k <= Len(s) THEN s[k] ELSE t[k - Len(s)]
  BY ConcatProperties
<1>2. /\ Len(s) \in Nat /\ Len(t) \in Nat
      /\ DOMAIN s = 1 .. Len(s) /\ DOMAIN t = 1 .. Len(t) /\ DOMAIN (s \o t) = 1 .. Len(s \o t)
  BY <1>1, LenProperties
<1>3. ASSUME NEW i \in DOMAIN s PROVE i \in DOMAIN (s \o t) /\ (s \o t)[i] = s[i]
  <2>1. i \in 1 .. Len(s) + Len(t) /\ i <= Len(s)
    BY <1>2
  <2> QED
    BY <1>1, <1>2, <2>1
<1>4. ASSUME NEW j \in DOMAIN t
      PROVE  Len(s) + j \in DOMAIN (s \o t) /\ (s \o t)[Len(s) + j] = t[j]
  <2>1. Len(s) + j \in 1 .. Len(s) + Len(t) /\ ~(Len(s) + j <= Len(s)) /\ (Len(s) + j) - Len(s) = j
    BY <1>2
  <2> QED
    BY <1>1, <1>2, <2>1
<1> QED
  BY <1>3, <1>4

LEMMA AscendsOn ==
  ASSUME NEW s \in Seq(Nat), NEW t \in Seq(Nat), Ascends(s), Ascends(t), Before(s, t)
  PROVE  Ascends(s \o t)
<1> SUFFICES ASSUME NEW i \in DOMAIN (s \o t), NEW j \in DOMAIN (s \o t), i < j,
                    (s \o t)[i] # Unknown, (s \o t)[j] # Unknown
             PROVE  (s \o t)[i] < (s \o t)[j]
  BY DEF Ascends
<1>1. s \o t \in Seq(Nat)
  BY ConcatProperties
<1>2. Len(s) \in Nat /\ DOMAIN s = 1 .. Len(s) /\ i \in Nat /\ j \in Nat
  BY <1>1, LenProperties
<1>3. \/ i \in DOMAIN s /\ (s \o t)[i] = s[i]
      \/ i > Len(s) /\ i - Len(s) \in DOMAIN t /\ (s \o t)[i] = t[i - Len(s)]
  BY MembersOfBoth
<1>4. \/ j \in DOMAIN s /\ (s \o t)[j] = s[j]
      \/ j > Len(s) /\ j - Len(s) \in DOMAIN t /\ (s \o t)[j] = t[j - Len(s)]
  BY MembersOfBoth
<1>5. CASE j \in DOMAIN s /\ (s \o t)[j] = s[j]
  <2>1. i \in DOMAIN s /\ (s \o t)[i] = s[i]
    BY <1>2, <1>3, <1>5
  <2> QED
    BY <1>5, <2>1 DEF Ascends
<1>6. CASE j > Len(s) /\ j - Len(s) \in DOMAIN t /\ (s \o t)[j] = t[j - Len(s)]
  <2>1. CASE i \in DOMAIN s /\ (s \o t)[i] = s[i]
    BY <1>6, <2>1 DEF Before
  <2>2. CASE i > Len(s) /\ i - Len(s) \in DOMAIN t /\ (s \o t)[i] = t[i - Len(s)]
    <3>1. i - Len(s) < j - Len(s)
      BY <1>2
    <3> QED
      BY <1>6, <2>2, <3>1 DEF Ascends
  <2> QED
    BY <1>3, <2>1, <2>2
<1> QED
  BY <1>4, <1>5, <1>6

-----------------------------------------------------------------------------
(***************************************************************************)
(* The types of the tailer, whenever the process ends and the file is      *)
(* rotated.  While a poll reads there is something to read.                *)
(***************************************************************************)
TypeInv == TypeOK /\ (phase = "reading" => cursor.offset < measured)

LEMMA SizeType ==
  ASSUME TypeInv
  PROVE  /\ wrote \in Nat /\ base \in Nat /\ base <= wrote /\ wrote <= 2 * Len(Script)
         /\ Size \in Byte /\ Size <= wrote /\ Size = wrote - base
         /\ cursor.offset \in Nat /\ measured \in Nat
<1> QED
  BY ScriptLength DEF TypeInv, TypeOK, Byte, Size

\* What a read gets has the places from the offset on; bytes that are there are known,
\* and those that a rotation removed are not.
LEMMA ChunkType ==
  ASSUME TypeInv, phase = "reading"
  PROVE  /\ Chunk \in Seq(Byte)
         /\ DOMAIN Chunk = 1 .. measured - cursor.offset /\ measured - cursor.offset \in Nat
         /\ measured <= Size => \A i \in DOMAIN Chunk : Chunk[i] = base + cursor.offset + i
         /\ \A i \in DOMAIN Chunk :
              Chunk[i] # Unknown =>
                cursor.offset + i <= Size /\ Chunk[i] = base + cursor.offset + i
<1> DEFINE n == measured - cursor.offset
           At(i) == IF cursor.offset + i <= Size THEN base + cursor.offset + i ELSE Unknown
<1>1. /\ wrote \in Nat /\ base \in Nat /\ wrote <= 2 * Len(Script) /\ Size = wrote - base
      /\ cursor.offset \in Nat /\ measured \in Nat /\ n \in Nat /\ Len(Script) \in Nat
  BY SizeType, ScriptLength DEF TypeInv
<1>2. \A i \in 1 .. n : At(i) \in Byte
  BY <1>1, ScriptLength DEF Byte, Unknown
<1>3. Chunk = [i \in 1 .. n |-> At(i)]
  BY DEF Chunk
<1>4. measured <= Size => \A i \in 1 .. n : At(i) = base + cursor.offset + i
  BY <1>1
<1>5. \A i \in 1 .. n :
        At(i) # Unknown => cursor.offset + i <= Size /\ At(i) = base + cursor.offset + i
  OBVIOUS
<1> HIDE DEF n, At
<1>6. Chunk \in Seq(Byte) /\ DOMAIN Chunk = 1 .. n
  BY <1>1, <1>2, <1>3
<1> QED
  BY <1>1, <1>3, <1>4, <1>5, <1>6 DEF n

\* What Read binds, with their types.
ReadOf(text, lines, found) ==
  /\ text = cursor.partial \o Chunk /\ text \in Seq(Byte)
  /\ lines = LinesOf(HeadOf(text)) /\ lines \in Seq(Line)
  /\ found = ErrorBlock(LastOf(cursor.recent \o lines, RecentMax))
  /\ SetToSeq(found) \in Seq(Report)
  /\ cursor' = [offset |-> measured, partial |-> Rest(text), recent |-> Window(lines, found)]
  /\ Rest(text) \in Seq(Byte)
  /\ Window(lines, found) \in Seq(Line) /\ Len(Window(lines, found)) <= RecentMax
  /\ read' = read \o lines
  /\ unsaved' = unsaved \cup ToSet(lines)
  /\ again' = IF Size < measured THEN again \cup ToSet(lines) ELSE again
  /\ events' = events \o SetToSeq(found)

LEMMA ReadBinds ==
  ASSUME TypeInv, Read
  PROVE  \E text, lines, found : ReadOf(text, lines, found)
<1>1. phase = "reading"
  BY DEF Read, ReadSucceeds
<1> DEFINE text == cursor.partial \o Chunk
           lines == LinesOf(HeadOf(text))
           all == cursor.recent \o lines
           found == ErrorBlock(LastOf(all, RecentMax))
<1>2. /\ cursor' = [offset |-> measured, partial |-> Rest(text), recent |-> Window(lines, found)]
      /\ read' = read \o lines /\ events' = events \o SetToSeq(found)
      /\ unsaved' = unsaved \cup ToSet(lines)
      /\ again' = IF Size < measured THEN again \cup ToSet(lines) ELSE again
  BY DEF Read, HeadOf
<1>3. /\ cursor.partial \in Seq(Byte) /\ cursor.recent \in Seq(Line)
      /\ RecentMax \in Nat \ {0}
  BY TailerAssumption DEF TypeInv, TypeOK
<1>4. text \in Seq(Byte)
  BY <1>1, <1>3, ChunkType, ConcatProperties
<1> HIDE DEF text
<1>5. HeadOf(text) \in Seq(Byte) /\ Rest(text) \in Seq(Byte)
  BY <1>4, HeadOfType, RestType
<1>6. lines \in Seq(Line)
  BY <1>5, LinesOfType
<1> HIDE DEF lines
<1>7. all \in Seq(Line)
  BY <1>3, <1>6, ConcatProperties
<1>8. LastOf(all, RecentMax) \in Seq(Line) /\ Len(LastOf(all, RecentMax)) <= RecentMax
  BY <1>3, <1>7, LastOfType
<1>9. SetToSeq(found) \in Seq(Report)
  <2>1. found \in SUBSET Report /\ \A x, y \in found : x = y
    BY <1>8, ErrorBlockType
  <2> HIDE DEF found
  <2> QED
    BY <2>1, SeqOfOne
<1>10. Window(lines, found) \in Seq(Line) /\ Len(Window(lines, found)) <= RecentMax
  <2>1. <<>> \in Seq(Line) /\ Len(<<>>) = 0
    BY EmptySeq
  <2>2. Window(lines, found) \in {<<>>, LastOf(all, RecentMax)}
    BY DEF Window
  <2> HIDE DEF found, all
  <2>3. CASE Window(lines, found) = <<>>
    BY <1>3, <2>1, <2>3
  <2>4. CASE Window(lines, found) = LastOf(all, RecentMax)
    BY <1>8, <2>4
  <2> QED
    BY <2>2, <2>3, <2>4
<1>11. ReadOf(text, lines, found)
  BY <1>2, <1>4, <1>5, <1>6, <1>9, <1>10 DEF ReadOf, text, lines
<1> QED
  BY <1>11

LEMMA StartType == TypeOK /\ Start => StartOffset \in Byte /\ (saved = None => StartOffset = Size)
<1> SUFFICES ASSUME TypeOK, Start PROVE StartOffset \in Byte /\ (saved = None => StartOffset = Size)
  OBVIOUS
<1>1. Size \in Byte
  BY ScriptLength DEF TypeOK, Byte, Size
<1>2. saved \in Byte \cup {None}
  BY DEF TypeOK
<1> QED
  BY <1>1, <1>2 DEF StartOffset

\* The cursor that a poll goes on with is not beyond the end of the file.
LEMMA StatLeaves ==
  ASSUME TypeInv
  PROVE  /\ \/ AfterStat = cursor /\ cursor.offset <= Size
            \/ AfterStat = [offset |-> 0, partial |-> <<>>, recent |-> cursor.recent] /\ Size < cursor.offset
         /\ AfterStat.offset <= Size
         /\ AfterStat \in [offset : Byte, partial : Seq(Byte), recent : Seq(Line)]
         /\ AfterStat.recent = cursor.recent
<1>1. cursor \in [offset : Byte, partial : Seq(Byte), recent : Seq(Line)]
  BY DEF TypeInv, TypeOK
<1>2. Size \in Nat /\ cursor.offset \in Nat /\ 0 \in Byte
  BY SizeType, ScriptLength
<1>3. <<>> \in Seq(Byte)
  BY EmptySeq
<1>4. CASE Size < cursor.offset
  <2>1. AfterStat = [cursor EXCEPT !.offset = 0, !.partial = <<>>]
    BY <1>4 DEF AfterStat
  <2>2. AfterStat = [offset |-> 0, partial |-> <<>>, recent |-> cursor.recent]
    BY <1>1, <2>1
  <2> QED
    BY <1>1, <1>2, <1>3, <1>4, <2>2
<1>5. CASE ~(Size < cursor.offset)
  <2>1. AfterStat = cursor
    BY <1>5 DEF AfterStat
  <2>2. cursor.offset <= Size
    BY <1>2, <1>5
  <2> QED
    BY <1>1, <1>5, <2>1, <2>2
<1> QED
  BY <1>4, <1>5

LEMMA TypeStart == Init => TypeInv
<1> SUFFICES ASSUME Init PROVE TypeInv
  OBVIOUS
<1>1. <<>> \in Seq(Byte) /\ <<>> \in Seq(Line) /\ Len(<<>>) = 0
  BY EmptySeq
<1>2. events \in Seq([head : Line, frames : Seq(Line)])
  BY EmptySeq DEF Init
<1> QED
  BY <1>1, <1>2, ScriptLength, TailerAssumption DEF Init, TypeInv, TypeOK, Cursor, Phases

LEMMA TypeStep ==
  ASSUME TypeInv, Next
  PROVE  TypeInv'
<1> USE DEF TypeInv, TypeOK
<1>1. Len(Script) \in Nat /\ 0 \in Byte /\ Byte = 0 .. 2 * Len(Script)
  BY ScriptLength DEF Byte
<1>2. CASE Write
  <2>1. wrote' \in Byte /\ base \in 0 .. wrote'
    BY <1>1, <1>2 DEF Write
  <2> QED
    BY <1>2, <2>1 DEF Write, process, ghosts
<1>3. CASE Rotate
  <2>1. base' \in 0 .. wrote /\ rotations' \in 0 .. MaxRotations
    BY <1>1, <1>3, TailerAssumption DEF Rotate
  <2> QED
    BY <1>3, <2>1 DEF Rotate, process, ghosts
<1>4. CASE Start
  <2>1. StartOffset \in Byte
    BY <1>4, StartType
  <2>2. cursor' \in [offset : Byte, partial : Seq(Byte), recent : Seq(Line)] /\ Len(cursor'.recent) <= RecentMax
    <3>1. <<>> \in Seq(Byte) /\ <<>> \in Seq(Line) /\ Len(<<>>) = 0
      BY EmptySeq
    <3> QED
      BY <1>4, <2>1, <3>1, TailerAssumption DEF Start, Cursor
  <2>3. starts' \in 0 .. MaxStarts /\ phase' = "idle"
    BY <1>4, TailerAssumption DEF Start
  <2> QED
    BY <1>4, <2>2, <2>3 DEF Start, file, ghosts, Phases
<1>5. CASE EndOfProcess
  <2>1. cursor' \in [offset : Byte, partial : Seq(Byte), recent : Seq(Line)] /\ Len(cursor'.recent) <= RecentMax
    <3>1. <<>> \in Seq(Byte) /\ <<>> \in Seq(Line) /\ Len(<<>>) = 0
      BY EmptySeq
    <3> QED
      BY <1>1, <1>5, <3>1, TailerAssumption DEF EndOfProcess, Cursor
  <2> QED
    BY <1>1, <1>5, <2>1 DEF EndOfProcess, file, Phases
<1>6. CASE Stat
  <2>1. cursor' = AfterStat /\ UNCHANGED <<wrote, base, rotations, saved, starts, read, unsaved, again, events>>
    BY <1>6 DEF Stat, file, ghosts
  <2>2. cursor' \in [offset : Byte, partial : Seq(Byte), recent : Seq(Line)] /\ cursor'.recent = cursor.recent
    BY <2>1, StatLeaves
  <2>3. Size \in Byte /\ AfterStat.offset <= Size /\ AfterStat.offset \in Nat /\ Size \in Nat
    <3>1. Size \in Byte /\ AfterStat.offset <= Size /\ AfterStat.offset \in Byte
      BY SizeType, StatLeaves
    <3> QED
      BY <1>1, <3>1
  <2>4. phase' \in Phases /\ measured' \in Byte /\ (phase' = "reading" => cursor'.offset < measured')
    <3>1. CASE UNCHANGED <<phase, measured>>
      BY <1>6, <3>1 DEF Stat
    <3>2. CASE Size # AfterStat.offset /\ phase' = "reading" /\ measured' = Size
      BY <2>1, <2>3, <3>2 DEF Phases
    <3> QED
      BY <1>6, <3>1, <3>2 DEF Stat
  <2> QED
    BY <2>1, <2>2, <2>4
<1>7. CASE ReadFails
  BY <1>1, <1>7 DEF ReadFails, file, ghosts, Phases
<1>8. CASE Read
  <2>1. PICK text, lines, found : ReadOf(text, lines, found)
    BY <1>8, ReadBinds
  <2>2. cursor' \in [offset : Byte, partial : Seq(Byte), recent : Seq(Line)] /\ Len(cursor'.recent) <= RecentMax
    BY <2>1 DEF ReadOf
  <2>3. read' \in Seq(Line)
    BY <2>1, ConcatProperties DEF ReadOf
  <2>4. events' \in Seq([head : Line, frames : Seq(Line)])
    <3>1. events \in Seq(Report) /\ SetToSeq(found) \in Seq(Report) /\ events' = events \o SetToSeq(found)
      BY <2>1 DEF ReadOf, Report
    <3>2. events' \in Seq(Report)
      BY <3>1, ConcatProperties
    <3> QED
      BY <3>2 DEF Report
  <2>5. UNCHANGED <<wrote, base, rotations, saved, starts>> /\ measured' = 0 /\ phase' = "saving"
    BY <1>8 DEF Read, ReadSucceeds, file
  <2>6. unsaved' \subseteq Line /\ again' \subseteq Line
    <3>1. ToSet(lines) \subseteq Line
      BY <2>1, ElementOfSeq DEF ReadOf, ToSet
    <3> QED
      BY <2>1, <3>1 DEF ReadOf
  <2> QED
    BY <1>1, <2>2, <2>3, <2>4, <2>5, <2>6 DEF Phases
<1>9. CASE Save
  <2>1. cursor.offset \in Byte
    OBVIOUS
  <2> QED
    BY <1>9, <2>1 DEF Save, file, Phases
<1> QED
  BY <1>2, <1>3, <1>4, <1>5, <1>6, <1>7, <1>8, <1>9 DEF Next, Poll

LEMMA TypeStays ==
  ASSUME TypeInv, [Next]_vars
  PROVE  TypeInv'
<1>1. CASE Next
  BY <1>1, TypeStep
<1>2. CASE UNCHANGED vars
  BY <1>2 DEF vars, file, process, ghosts, TypeInv, TypeOK
<1> QED
  BY <1>1, <1>2

\* A step of the observers is one of the tailer, or leaves it alone.
LEMMA TailerSteps ==
  /\ ObserversInit => Init
  /\ [ObserversNext]_observersVars => [Next]_vars
<1>1. ObserversInit => Init
  BY DEF ObserversInit
<1>2. [ObserversNext]_observersVars => [Next]_vars
  BY DEF ObserversNext, Agent, Run, observersVars
<1> QED
  BY <1>1, <1>2

\* The variables of the tailer keep their types, for every script, every window and
\* wherever the process ends and the file is rotated (LogTailer.poll, consume, start).
THEOREM TailerTypes == ObserversSpec => []TypeInv
<1>1. ObserversInit => TypeInv
  BY TailerSteps, TypeStart
<1>2. TypeInv /\ [ObserversNext]_observersVars => TypeInv'
  BY TailerSteps, TypeStays
<1> QED
  BY <1>1, <1>2, PTL DEF ObserversSpec

-----------------------------------------------------------------------------
(***************************************************************************)
(* No line is read twice.  The edge is how far the log has been read; the  *)
(* lines that are settled, since they will not be read again, are up to    *)
(* it, the half line that was kept ends there, and the saved offset is not *)
(* before those that were read before it was saved.                        *)
(***************************************************************************)
Edge == IF cursor.offset <= Size THEN base + cursor.offset ELSE base

Settled(i) == read[i] # Unknown /\ read[i] \notin again

\* What was read, what of it is settled, and what of that was saved, ends before a byte.
ReadUpTo(byte) == \A i \in DOMAIN read : TextOf(read[i]) <= byte

SettledUpTo(byte) == \A i \in DOMAIN read : Settled(i) => TextOf(read[i]) <= byte

SavedUpTo(byte) ==
  \A i \in DOMAIN read : Settled(i) /\ read[i] \notin unsaved => TextOf(read[i]) <= byte

HalfLine ==
  /\ Ascends(cursor.partial)
  /\ \A j \in DOMAIN cursor.partial :
       cursor.partial[j] # Unknown =>
         /\ cursor.partial[j] <= base + cursor.offset
         /\ cursor.partial[j] <= wrote
         /\ \A i \in DOMAIN read : Settled(i) => TextOf(read[i]) < cursor.partial[j]

TailInv ==
  /\ phase = "down" => cursor.partial = <<>> /\ unsaved = {}
  /\ NoLineTwice
  /\ HalfLine
  /\ ReadUpTo(wrote)
  /\ phase = "reading" /\ Size < measured => ReadUpTo(base)
  /\ phase # "down" => SettledUpTo(Edge)
  /\ saved # None => SavedUpTo(base + saved)

LEMMA EdgeType ==
  ASSUME TypeInv
  PROVE  /\ Edge \in Nat /\ base <= Edge /\ Edge <= wrote /\ Edge <= base + cursor.offset
         /\ base + cursor.offset \in Nat
<1> QED
  BY SizeType DEF Edge

LEMMA ReadType ==
  ASSUME TypeInv
  PROVE  /\ read \in Seq(Line) /\ \A i \in DOMAIN read : read[i] \in Nat
         /\ cursor.partial \in Seq(Byte) /\ \A j \in DOMAIN cursor.partial : cursor.partial[j] \in Nat
         /\ saved # None => saved \in Nat
<1>1. read \in Seq(Line) /\ cursor.partial \in Seq(Byte) /\ saved \in Byte \cup {None}
  BY DEF TypeInv, TypeOK
<1>2. /\ \A i \in DOMAIN read : read[i] \in Line
      /\ \A j \in DOMAIN cursor.partial : cursor.partial[j] \in Byte
  BY <1>1, ElementOfSeq
<1> QED
  BY <1>1, <1>2, ScriptLength

LEMMA ReadFurther ==
  ASSUME TypeInv, NEW a \in Nat, NEW b \in Nat, a <= b
  PROVE  /\ ReadUpTo(a) => ReadUpTo(b)
         /\ SettledUpTo(a) => SettledUpTo(b)
         /\ SavedUpTo(a) => SavedUpTo(b)
<1>1. \A i \in DOMAIN read : TextOf(read[i]) <= a => TextOf(read[i]) <= b
  BY ReadType DEF TextOf
<1> QED
  BY <1>1 DEF ReadUpTo, SettledUpTo, SavedUpTo

LEMMA TailStart == Init => TailInv
<1> SUFFICES ASSUME Init PROVE TailInv
  OBVIOUS
<1>1. DOMAIN read = {} /\ cursor.partial = <<>> /\ DOMAIN cursor.partial = {}
  BY DEF Init, Cursor
<1> QED
  BY <1>1 DEF Init, TailInv, NoLineTwice, HalfLine, ReadUpTo, SettledUpTo, SavedUpTo, Ascends

\* A step that reads nothing, and keeps the half line with the offset behind it or
\* drops it.
LEMMA HalfLineStays ==
  ASSUME TypeInv, HalfLine, UNCHANGED read, again \subseteq again',
         base' \in Nat, base <= base', wrote' \in Nat, wrote <= wrote',
         \/ cursor'.partial = cursor.partial /\ cursor'.offset = cursor.offset
         \/ cursor'.partial = <<>>
  PROVE  HalfLine'
<1>1. CASE cursor'.partial = <<>>
  <2>1. DOMAIN (cursor'.partial) = {}
    BY <1>1
  <2> QED
    BY <2>1 DEF HalfLine, Ascends
<1>2. CASE cursor'.partial = cursor.partial /\ cursor'.offset = cursor.offset
  <2>1. wrote \in Nat /\ base \in Nat /\ cursor.offset \in Nat
    BY SizeType
  <2>2. ASSUME NEW j \in DOMAIN cursor.partial, cursor.partial[j] # Unknown
        PROVE  cursor.partial[j] <= base' + cursor.offset /\ cursor.partial[j] <= wrote'
    <3>1. cursor.partial[j] <= base + cursor.offset /\ cursor.partial[j] <= wrote
      BY <2>2 DEF HalfLine
    <3>2. cursor.partial[j] \in Nat
      BY ReadType
    <3> QED
      BY <2>1, <3>1, <3>2
  <2>3. Ascends(cursor.partial)'
    BY <1>2 DEF HalfLine, Ascends
  <2>4. \A i \in DOMAIN read : Settled(i)' => Settled(i)
    BY DEF Settled
  <2> HIDE DEF Settled
  <2> QED
    BY <1>2, <2>2, <2>3, <2>4 DEF HalfLine
<1> QED
  BY <1>1, <1>2

\* Of a step that reads nothing it is enough to know where the edge and the saved offset
\* go, and that no line becomes settled.
LEMMA QuietTail ==
  ASSUME TypeInv, TypeInv', TailInv, UNCHANGED read, again \subseteq again',
         base <= base', wrote <= wrote',
         \/ cursor'.partial = cursor.partial /\ cursor'.offset = cursor.offset
         \/ cursor'.partial = <<>>,
         phase' = "down" => cursor'.partial = <<>> /\ unsaved' = {},
         (phase = "reading" /\ Size < measured => ReadUpTo(base)) =>
           (phase' = "reading" /\ Size' < measured' => ReadUpTo(base')),
         phase' # "down" => SettledUpTo(Edge'),
         saved' # None =>
           \A i \in DOMAIN read :
             Settled(i) /\ read[i] \notin again' /\ read[i] \notin unsaved'
               => TextOf(read[i]) <= base' + saved'
  PROVE  TailInv'
<1>1. wrote \in Nat /\ base \in Nat /\ wrote' \in Nat /\ base' \in Nat
  BY ScriptLength DEF TypeInv, TypeOK, Byte
<1>2. HalfLine'
  BY <1>1, HalfLineStays DEF TailInv
<1>3. NoLineTwice'
  BY DEF TailInv, NoLineTwice
<1>4. \A byte : ReadUpTo(byte)' <=> ReadUpTo(byte)
  BY DEF ReadUpTo
<1>5. \A i \in DOMAIN read : Settled(i)' => Settled(i) /\ read[i] \notin again'
  BY DEF Settled
<1>6. ReadUpTo(wrote)'
  BY <1>1, <1>4, ReadFurther DEF TailInv
<1>7. phase' = "reading" /\ Size' < measured' => ReadUpTo(base)'
  BY <1>4 DEF TailInv
<1> HIDE DEF Settled, Edge, Size
<1>8. phase' # "down" => SettledUpTo(Edge)'
  BY <1>5 DEF SettledUpTo
<1>9. saved' # None => SavedUpTo(base + saved)'
  BY <1>5 DEF SavedUpTo
<1> QED
  BY <1>2, <1>3, <1>6, <1>7, <1>8, <1>9 DEF TailInv

\* What was saved stays so when the rotation moves the log on.
LEMMA SavedStays ==
  ASSUME TypeInv, TailInv, base' \in Nat, base <= base', saved' = saved, unsaved \subseteq unsaved'
  PROVE  saved' # None =>
           \A i \in DOMAIN read :
             Settled(i) /\ read[i] \notin again' /\ read[i] \notin unsaved'
               => TextOf(read[i]) <= base' + saved'
<1> SUFFICES ASSUME saved # None, NEW i \in DOMAIN read, Settled(i), read[i] \notin unsaved
             PROVE  TextOf(read[i]) <= base' + saved
  OBVIOUS
<1>1. TextOf(read[i]) <= base + saved
  BY DEF TailInv, SavedUpTo
<1>2. read[i] \in Nat /\ saved \in Nat /\ base \in Nat
  BY ReadType, SizeType
<1> QED
  BY <1>1, <1>2 DEF TextOf

LEMMA TailWrite ==
  ASSUME TypeInv, TypeInv', TailInv, Write
  PROVE  TailInv'
<1>1. /\ wrote' = wrote + 1
      /\ UNCHANGED <<base, phase, cursor, measured, saved, read, unsaved, again>>
  BY DEF Write, process, ghosts
<1>2. /\ Edge <= Edge' /\ Size' = Size + 1 /\ Edge \in Nat /\ Edge' \in Nat
      /\ wrote \in Nat /\ base \in Nat /\ Size \in Nat /\ measured \in Nat
  <2>1. /\ wrote \in Nat /\ base \in Nat /\ Size \in Nat /\ measured \in Nat
        /\ cursor.offset \in Nat
    BY SizeType, ScriptLength
  <2>2. Size' = Size + 1
    BY <1>1, <2>1 DEF Size
  <2> HIDE DEF Size
  <2> QED
    BY <1>1, <2>1, <2>2, SizeType DEF Edge
<1> HIDE DEF Edge, Size
<1>3. phase' # "down" => SettledUpTo(Edge')
  BY <1>1, <1>2, ReadFurther DEF TailInv
<1>4. Size' < measured' => Size < measured
  BY <1>1, <1>2
<1>5. ReadUpTo(base') <=> ReadUpTo(base)
  BY <1>1
<1> QED
  BY <1>1, <1>2, <1>3, <1>4, <1>5, SavedStays, QuietTail DEF TailInv

LEMMA TailRotate ==
  ASSUME TypeInv, TypeInv', TailInv, Rotate
  PROVE  TailInv'
<1>1. /\ base' = wrote
      /\ UNCHANGED <<wrote, phase, cursor, measured, saved, read, unsaved, again>>
  BY DEF Rotate, process, ghosts
<1>2. /\ wrote \in Nat /\ cursor.offset \in Nat /\ base \in Nat /\ base <= wrote
  BY SizeType
<1>3. Edge' = wrote
  <2>1. Size' = 0
    BY <1>1, <1>2 DEF Size
  <2> QED
    BY <1>1, <1>2, <2>1 DEF Edge
<1> HIDE DEF Edge
<1>4. ReadUpTo(base') /\ SettledUpTo(Edge')
  BY <1>1, <1>3 DEF TailInv, ReadUpTo, SettledUpTo
<1> QED
  BY <1>1, <1>2, <1>4, SavedStays, QuietTail DEF TailInv

LEMMA TailBegins ==
  ASSUME TypeInv, TypeInv', TailInv, Start
  PROVE  TailInv'
<1>1. /\ phase = "down" /\ phase' = "idle" /\ cursor' = Cursor(StartOffset)
      /\ UNCHANGED <<wrote, base, measured, saved, read, unsaved, again>>
  BY DEF Start, file, ghosts
<1>2. cursor'.partial = <<>> /\ cursor'.offset = StartOffset
  BY <1>1 DEF Cursor
<1>3. /\ wrote \in Nat /\ base \in Nat /\ Size \in Nat /\ wrote = base + Size /\ Size' = Size
  BY <1>1, SizeType DEF Size
<1>4. SettledUpTo(Edge')
  <2>1. CASE saved # None /\ saved <= Size
    <3>1. Edge' = base + saved
      BY <1>1, <1>2, <1>3, <2>1 DEF StartOffset, Edge
    <3>2. SavedUpTo(base + saved) /\ unsaved = {}
      BY <1>1, <2>1 DEF TailInv
    <3> QED
      BY <3>1, <3>2 DEF SavedUpTo, SettledUpTo
  <2>2. CASE ~(saved # None /\ saved <= Size)
    <3>1. StartOffset = Size
      BY <2>2 DEF StartOffset
    <3>2. Edge' = wrote
      BY <1>1, <1>2, <1>3, <3>1 DEF Edge
    <3> QED
      BY <3>2 DEF TailInv, ReadUpTo, SettledUpTo
  <2> QED
    BY <2>1, <2>2
<1> HIDE DEF Edge
<1> QED
  BY <1>1, <1>2, <1>3, <1>4, SavedStays, QuietTail

LEMMA TailEnds ==
  ASSUME TypeInv, TypeInv', TailInv, EndOfProcess
  PROVE  TailInv'
<1>1. /\ phase' = "down" /\ cursor' = Cursor(0)
      /\ again' = (IF saved = None THEN again ELSE again \cup unsaved) /\ unsaved' = {}
      /\ UNCHANGED <<wrote, base, saved, read>>
  BY DEF EndOfProcess, file
<1>2. cursor'.partial = <<>>
  BY <1>1 DEF Cursor
<1>3. wrote \in Nat /\ base \in Nat
  BY SizeType
<1>4. ASSUME saved' # None, NEW i \in DOMAIN read, Settled(i), read[i] \notin again'
      PROVE  TextOf(read[i]) <= base' + saved'
  <2>1. read[i] \notin unsaved
    BY <1>1, <1>4
  <2> QED
    BY <1>1, <1>4, <2>1 DEF TailInv, SavedUpTo
<1> HIDE DEF Settled
<1> QED
  BY <1>1, <1>2, <1>3, <1>4, QuietTail

LEMMA TailStat ==
  ASSUME TypeInv, TypeInv', TailInv, Stat
  PROVE  TailInv'
<1>1. /\ phase = "idle" /\ phase' \in {"idle", "reading"} /\ cursor' = AfterStat
      /\ UNCHANGED <<wrote, base, saved, read, unsaved, again>>
      /\ phase' = "reading" => measured' = Size
  BY DEF Stat, file, ghosts
<1>2. /\ wrote \in Nat /\ base \in Nat /\ Size \in Nat /\ wrote = base + Size /\ Size' = Size
      /\ cursor.offset \in Nat
  BY <1>1, SizeType DEF Size
<1>3. /\ Edge' = Edge
      /\ \/ cursor'.partial = cursor.partial /\ cursor'.offset = cursor.offset
         \/ cursor'.partial = <<>>
  <2>1. CASE AfterStat = cursor /\ cursor.offset <= Size
    BY <1>1, <1>2, <2>1 DEF Edge
  <2>2. CASE AfterStat = [offset |-> 0, partial |-> <<>>, recent |-> cursor.recent] /\ Size < cursor.offset
    BY <1>1, <1>2, <2>2 DEF Edge
  <2> QED
    BY <2>1, <2>2, StatLeaves
<1> HIDE DEF Edge
<1>4. ~(phase' = "reading" /\ Size' < measured')
  BY <1>1, <1>2
<1>5. SettledUpTo(Edge')
  BY <1>1, <1>3 DEF TailInv
<1> HIDE DEF Size
<1> QED
  BY <1>1, <1>2, <1>3, <1>4, <1>5, SavedStays, QuietTail

LEMMA TailSave ==
  ASSUME TypeInv, TypeInv', TailInv, Save
  PROVE  TailInv'
<1>1. /\ phase = "saving" /\ phase' = "idle"
      /\ UNCHANGED <<wrote, base, cursor, measured, read, again>>
      /\ \/ saved' = cursor.offset /\ unsaved' = {}
         \/ UNCHANGED <<saved, unsaved>>
  BY DEF Save, file
<1>2. Edge' = Edge /\ wrote \in Nat /\ base \in Nat
  BY <1>1, SizeType DEF Edge, Size
<1>3. SettledUpTo(Edge)
  BY <1>1 DEF TailInv
<1>4. saved' # None =>
        \A i \in DOMAIN read :
          Settled(i) /\ read[i] \notin again' /\ read[i] \notin unsaved'
            => TextOf(read[i]) <= base' + saved'
  <2>1. CASE saved' = cursor.offset /\ unsaved' = {}
    <3>1. SettledUpTo(base + cursor.offset)
      BY <1>3, EdgeType, ReadFurther
    <3> QED
      BY <1>1, <2>1, <3>1 DEF SettledUpTo
  <2>2. CASE UNCHANGED <<saved, unsaved>>
    BY <1>1, <1>2, <2>2, SavedStays
  <2> QED
    BY <1>1, <2>1, <2>2
<1> HIDE DEF Edge, Settled
<1> QED
  BY <1>1, <1>2, <1>3, <1>4, QuietTail

LEMMA TailReadFails ==
  ASSUME TypeInv, TypeInv', TailInv, ReadFails
  PROVE  TailInv'
<1>1. /\ phase = "reading" /\ phase' = "idle"
      /\ UNCHANGED <<wrote, base, cursor, saved, read, unsaved, again>>
  BY DEF ReadFails, file, ghosts
<1>2. Edge' = Edge /\ wrote \in Nat /\ base \in Nat
  BY <1>1, SizeType DEF Edge, Size
<1>3. SettledUpTo(Edge')
  BY <1>1, <1>2 DEF TailInv
<1> HIDE DEF Edge
<1> QED
  BY <1>1, <1>2, <1>3, SavedStays, QuietTail

\* What a read brings: the known bytes of its text are in the order of the log and behind
\* the settled lines, and so are its known lines, with the half line behind them.
LEMMA ReadGoesOn ==
  ASSUME TypeInv, TailInv, phase = "reading", NEW text, NEW lines, NEW found,
         ReadOf(text, lines, found)
  PROVE  /\ Ascends(lines) /\ Ascends(Rest(text))
         /\ \A m \in DOMAIN lines :
              /\ lines[m] \in Nat /\ TextOf(lines[m]) <= wrote
              /\ measured <= Size => TextOf(lines[m]) <= base + measured
              /\ lines[m] # Unknown =>
                   /\ \A i \in DOMAIN read : Settled(i) => read[i] < lines[m]
                   /\ \A j \in DOMAIN Rest(text) :
                        Rest(text)[j] # Unknown => TextOf(lines[m]) < Rest(text)[j]
         /\ \A j \in DOMAIN Rest(text) :
              Rest(text)[j] # Unknown =>
                /\ Rest(text)[j] <= base + measured /\ Rest(text)[j] <= wrote
                /\ \A i \in DOMAIN read : Settled(i) => TextOf(read[i]) < Rest(text)[j]
<1>1. /\ wrote \in Nat /\ base \in Nat /\ Size \in Nat /\ wrote = base + Size
      /\ cursor.offset \in Nat /\ measured \in Nat /\ cursor.offset < measured
  BY SizeType DEF Size, TypeInv
<1> DEFINE edge == base + cursor.offset
<1>2. edge \in Nat /\ edge <= base + measured /\ SettledUpTo(edge)
  <2>1. SettledUpTo(Edge)
    BY DEF TailInv
  <2> QED
    BY <1>1, <2>1, EdgeType, ReadFurther
<1>3. /\ Chunk \in Seq(Byte) /\ DOMAIN Chunk = 1 .. measured - cursor.offset
      /\ \A i \in DOMAIN Chunk :
           Chunk[i] # Unknown => cursor.offset + i <= Size /\ Chunk[i] = edge + i
  BY ChunkType
<1>4. /\ cursor.partial \in Seq(Byte) /\ read \in Seq(Line)
      /\ text = cursor.partial \o Chunk /\ text \in Seq(Byte)
      /\ lines = LinesOf(HeadOf(text)) /\ lines \in Seq(Line)
      /\ Rest(text) \in Seq(Byte)
  BY DEF ReadOf, TypeInv, TypeOK
<1>5. /\ \A j \in DOMAIN cursor.partial : cursor.partial[j] \in Nat
      /\ \A i \in DOMAIN read : read[i] \in Nat
      /\ \A i \in DOMAIN Chunk : i \in Nat \ {0} /\ i <= measured - cursor.offset
  BY <1>1, <1>3, ReadType
\* A known byte of what was read from the file.
<1>6. ASSUME NEW i \in DOMAIN Chunk, Chunk[i] # Unknown
      PROVE  /\ Chunk[i] \in Nat /\ edge < Chunk[i]
             /\ Chunk[i] <= base + measured /\ Chunk[i] <= wrote
  <2>1. Chunk[i] = edge + i /\ cursor.offset + i <= Size /\ i \in Nat \ {0} /\ i <= measured - cursor.offset
    BY <1>3, <1>5, <1>6
  <2> QED
    BY <1>1, <2>1
<1>7. ASSUME NEW j \in DOMAIN cursor.partial, cursor.partial[j] # Unknown
      PROVE  /\ cursor.partial[j] \in Nat /\ cursor.partial[j] <= edge /\ cursor.partial[j] <= wrote
             /\ \A i \in DOMAIN read : Settled(i) => TextOf(read[i]) < cursor.partial[j]
  BY <1>5, <1>7 DEF TailInv, HalfLine
<1> HIDE DEF edge
\* A known byte of the text: it is behind what is settled.
<1>8. ASSUME NEW k \in DOMAIN text, text[k] # Unknown
      PROVE  /\ text[k] \in Nat /\ text[k] <= base + measured /\ text[k] <= wrote
             /\ \A i \in DOMAIN read : Settled(i) => TextOf(read[i]) < text[k]
  <2>1. \/ k \in DOMAIN cursor.partial /\ text[k] = cursor.partial[k]
        \/ \E i \in DOMAIN Chunk : text[k] = Chunk[i]
    <3>1. k \in DOMAIN (cursor.partial \o Chunk)
      BY <1>4
    <3>2. \/ k \in DOMAIN cursor.partial /\ (cursor.partial \o Chunk)[k] = cursor.partial[k]
          \/ /\ k - Len(cursor.partial) \in DOMAIN Chunk
             /\ (cursor.partial \o Chunk)[k] = Chunk[k - Len(cursor.partial)]
      BY <1>3, <1>4, <3>1, MembersOfBoth
    <3> QED
      BY <1>4, <3>2
  <2>2. CASE k \in DOMAIN cursor.partial /\ text[k] = cursor.partial[k]
    <3>1. /\ text[k] \in Nat /\ text[k] <= edge /\ text[k] <= wrote
          /\ \A i \in DOMAIN read : Settled(i) => TextOf(read[i]) < text[k]
      BY <1>7, <1>8, <2>2
    <3> QED
      BY <1>1, <1>2, <3>1
  <2>3. CASE \E i \in DOMAIN Chunk : text[k] = Chunk[i]
    <3>1. text[k] \in Nat /\ edge < text[k] /\ text[k] <= base + measured /\ text[k] <= wrote
      BY <1>6, <1>8, <2>3
    <3>2. ASSUME NEW r \in DOMAIN read, Settled(r) PROVE TextOf(read[r]) < text[k]
      <4>1. TextOf(read[r]) <= edge /\ read[r] \in Nat
        BY <1>2, <1>5, <3>2 DEF SettledUpTo
      <4> QED
        BY <1>2, <3>1, <4>1 DEF TextOf
    <3> QED
      BY <3>1, <3>2
  <2> QED
    BY <2>1, <2>2, <2>3
<1>9. Ascends(text)
  <2>1. cursor.partial \in Seq(Nat) /\ Chunk \in Seq(Nat)
    BY <1>3, <1>4, ScriptLength, SeqMonotonic
  <2>2. Ascends(cursor.partial)
    BY DEF TailInv, HalfLine
  <2>3. Ascends(Chunk)
    BY <1>2, <1>3, <1>5 DEF Ascends
  <2>4. Before(cursor.partial, Chunk)
    BY <1>2, <1>6, <1>7 DEF Before
  <2> QED
    BY <1>4, <2>1, <2>2, <2>3, <2>4, AscendsOn
<1>10. /\ HeadOf(text) \in Seq(Byte) /\ DOMAIN HeadOf(text) = 1 .. Complete(text)
       /\ \A i \in DOMAIN HeadOf(text) : HeadOf(text)[i] = text[i]
       /\ DOMAIN Rest(text) = 1 .. Len(text) - Complete(text)
       /\ \A i \in DOMAIN Rest(text) : Rest(text)[i] = text[Complete(text) + i]
       /\ Complete(text) \in 0 .. Len(text)
       /\ Len(text) \in Nat /\ DOMAIN text = 1 .. Len(text)
  BY <1>4, HeadOfType, RestType, CompleteType, LenProperties
<1>11. /\ \A i \in DOMAIN HeadOf(text) : i \in DOMAIN text
       /\ \A j \in DOMAIN Rest(text) : Complete(text) + j \in DOMAIN text
       /\ \A i \in DOMAIN HeadOf(text), j \in DOMAIN Rest(text) : i < Complete(text) + j
       /\ \A i, j \in DOMAIN Rest(text) : i < j => Complete(text) + i < Complete(text) + j
  BY <1>10
<1>12. Ascends(HeadOf(text)) /\ Ascends(Rest(text))
  BY <1>9, <1>10, <1>11 DEF Ascends
<1>13. Ascends(lines)
  BY <1>4, <1>10, <1>12, LinesOfType
<1>14. ASSUME NEW m \in DOMAIN lines, lines[m] # Unknown
       PROVE  \E i \in DOMAIN HeadOf(text) : text[i] # Unknown /\ TextOf(lines[m]) = text[i]
  <2>1. \E i \in DOMAIN HeadOf(text) :
          HeadOf(text)[i] # Unknown /\ TextOf(lines[m]) = HeadOf(text)[i]
    BY <1>4, <1>10, <1>14, LinesOfType
  <2> QED
    BY <1>10, <2>1
<1>15. \A m \in DOMAIN lines : lines[m] \in Nat
  <2>1. \A m \in DOMAIN lines : lines[m] \in Line
    BY <1>4, ElementOfSeq
  <2> QED
    BY <2>1, ScriptLength
<1>16. ASSUME NEW m \in DOMAIN lines, lines[m] # Unknown
       PROVE  /\ TextOf(lines[m]) <= base + measured /\ TextOf(lines[m]) <= wrote
              /\ \A i \in DOMAIN read : Settled(i) => read[i] < lines[m]
              /\ \A j \in DOMAIN Rest(text) :
                   Rest(text)[j] # Unknown => TextOf(lines[m]) < Rest(text)[j]
  <2>1. PICK i \in DOMAIN HeadOf(text) : text[i] # Unknown /\ TextOf(lines[m]) = text[i]
    BY <1>14, <1>16
  <2>2. i \in DOMAIN text
    BY <1>11
  <2>3. ASSUME NEW r \in DOMAIN read, Settled(r) PROVE read[r] < lines[m]
    <3>1. TextOf(read[r]) < TextOf(lines[m]) /\ read[r] \in Nat /\ lines[m] \in Nat
      BY <1>5, <1>8, <1>15, <2>1, <2>2, <2>3
    <3> QED
      BY <3>1 DEF TextOf
  <2>4. ASSUME NEW j \in DOMAIN Rest(text), Rest(text)[j] # Unknown
        PROVE  TextOf(lines[m]) < Rest(text)[j]
    BY <1>9, <1>10, <1>11, <2>1, <2>2, <2>4 DEF Ascends
  <2> QED
    BY <1>8, <2>1, <2>2, <2>3, <2>4
<1>17. ASSUME NEW m \in DOMAIN lines
       PROVE  TextOf(lines[m]) <= base + measured /\ TextOf(lines[m]) <= wrote
  <2>1. CASE lines[m] = Unknown
    BY <1>1, <2>1 DEF TextOf, Unknown
  <2> QED
    BY <1>16, <2>1
<1>18. \A j \in DOMAIN Rest(text) :
         Rest(text)[j] # Unknown =>
           /\ Rest(text)[j] <= base + measured /\ Rest(text)[j] <= wrote
           /\ \A i \in DOMAIN read : Settled(i) => TextOf(read[i]) < Rest(text)[j]
  BY <1>8, <1>10, <1>11
<1> QED
  BY <1>12, <1>13, <1>15, <1>16, <1>17, <1>18

LEMMA TailRead ==
  ASSUME TypeInv, TypeInv', TailInv, Read
  PROVE  TailInv'
<1>1. /\ phase = "reading" /\ phase' = "saving" /\ measured' = 0
      /\ UNCHANGED <<wrote, base, saved>>
  BY DEF Read, ReadSucceeds, file
<1>2. PICK text, lines, found : ReadOf(text, lines, found)
  BY ReadBinds
<1> DEFINE rest == Rest(text)
<1>3. /\ cursor'.offset = measured /\ cursor'.partial = rest
      /\ read' = read \o lines /\ lines \in Seq(Line) /\ read \in Seq(Line) /\ rest \in Seq(Byte)
      /\ unsaved' = unsaved \cup ToSet(lines)
      /\ again' = IF Size < measured THEN again \cup ToSet(lines) ELSE again
  BY <1>2 DEF ReadOf, TypeInv, TypeOK
<1>4. /\ Ascends(lines) /\ Ascends(rest)
      /\ \A m \in DOMAIN lines :
           /\ lines[m] \in Nat /\ TextOf(lines[m]) <= wrote
           /\ measured <= Size => TextOf(lines[m]) <= base + measured
           /\ lines[m] # Unknown =>
                /\ \A i \in DOMAIN read : Settled(i) => read[i] < lines[m]
                /\ \A j \in DOMAIN rest : rest[j] # Unknown => TextOf(lines[m]) < rest[j]
      /\ \A j \in DOMAIN rest :
           rest[j] # Unknown =>
             /\ rest[j] <= base + measured /\ rest[j] <= wrote
             /\ \A i \in DOMAIN read : Settled(i) => TextOf(read[i]) < rest[j]
  BY <1>1, <1>2, ReadGoesOn
<1> HIDE DEF rest
<1>5. /\ wrote \in Nat /\ base \in Nat /\ Size \in Nat /\ wrote = base + Size /\ Size' = Size
      /\ measured \in Nat /\ cursor.offset < measured /\ cursor.offset \in Nat
      /\ \A i \in DOMAIN read : read[i] \in Nat
  BY <1>1, SizeType, ReadType DEF Size, TypeInv
\* Each line of read' was read before or is one of this text.
<1>6. ASSUME NEW k \in DOMAIN read'
      PROVE  \/ k \in DOMAIN read /\ read'[k] = read[k]
             \/ /\ k > Len(read) /\ k - Len(read) \in DOMAIN lines
                /\ read'[k] = lines[k - Len(read)] /\ read'[k] \in ToSet(lines)
  <2>1. k \in DOMAIN (read \o lines)
    BY <1>3
  <2> QED
    BY <1>3, <2>1, MembersOfBoth DEF ToSet
<1>7. ASSUME NEW k \in DOMAIN read', Settled(k)'
      PROVE  \/ k \in DOMAIN read /\ read'[k] = read[k] /\ Settled(k)
             \/ /\ measured <= Size /\ k > Len(read) /\ k - Len(read) \in DOMAIN lines
                /\ read'[k] = lines[k - Len(read)] /\ read'[k] \in ToSet(lines)
  <2>1. read'[k] # Unknown /\ read'[k] \notin again'
    BY <1>7 DEF Settled
  <2>2. again \subseteq again' /\ (Size < measured => ToSet(lines) \subseteq again')
    BY <1>3
  <2>3. ~(Size < measured) => measured <= Size
    BY <1>5
  <2> QED
    BY <1>6, <2>1, <2>2, <2>3 DEF Settled
<1>8. NoLineTwice'
  <2> SUFFICES ASSUME NEW i \in DOMAIN read', NEW j \in DOMAIN read', i < j,
                      read'[i] # Unknown, read'[j] # Unknown, read'[i] \notin again'
               PROVE  read'[i] < read'[j]
    BY DEF NoLineTwice
  <2>1. i \in Nat /\ j \in Nat /\ Len(read) \in Nat /\ DOMAIN read = 1 .. Len(read)
    <3>1. read' \in Seq(Line)
      BY DEF TypeInv, TypeOK
    <3> QED
      BY <1>3, <3>1, LenProperties
  <2>2. again \subseteq again'
    BY <1>3
  <2>3. CASE j \in DOMAIN read /\ read'[j] = read[j]
    <3>1. i \in DOMAIN read /\ read'[i] = read[i]
      BY <1>6, <2>1, <2>3
    <3> QED
      BY <2>2, <2>3, <3>1 DEF TailInv, NoLineTwice
  <2>4. CASE j > Len(read) /\ j - Len(read) \in DOMAIN lines /\ read'[j] = lines[j - Len(read)]
    <3>1. CASE i \in DOMAIN read /\ read'[i] = read[i]
      <4>1. Settled(i)
        BY <2>2, <3>1 DEF Settled
      <4> QED
        BY <1>4, <2>4, <3>1, <4>1
    <3>2. CASE i > Len(read) /\ i - Len(read) \in DOMAIN lines /\ read'[i] = lines[i - Len(read)]
      <4>1. i - Len(read) < j - Len(read)
        BY <2>1
      <4> QED
        BY <1>4, <2>4, <3>2, <4>1 DEF Ascends
    <3> QED
      BY <1>6, <3>1, <3>2
  <2> QED
    BY <1>6, <2>3, <2>4
<1>9. ReadUpTo(wrote)'
  <2> SUFFICES ASSUME NEW k \in DOMAIN read' PROVE TextOf(read'[k]) <= wrote
    BY <1>1 DEF ReadUpTo
  <2> QED
    BY <1>4, <1>6 DEF TailInv, ReadUpTo
<1>10. SettledUpTo(Edge)'
  <2> SUFFICES ASSUME NEW k \in DOMAIN read', Settled(k)' PROVE TextOf(read'[k]) <= Edge'
    BY DEF SettledUpTo
  <2>1. CASE measured <= Size
    <3>1. Edge' = base + measured
      BY <1>1, <1>3, <1>5, <2>1 DEF Edge
    <3>2. SettledUpTo(base + measured)
      <4>1. SettledUpTo(Edge) /\ base + measured \in Nat /\ Edge <= base + measured
        BY <1>1, <1>5 DEF TailInv, Edge
      <4>2. Edge \in Nat
        BY EdgeType
      <4> HIDE DEF Edge
      <4> QED
        BY <4>1, <4>2, ReadFurther
    <3> HIDE DEF Edge
    <3> QED
      BY <1>4, <1>7, <2>1, <3>1, <3>2 DEF SettledUpTo
  <2>2. CASE Size < measured
    <3>1. Edge' = base
      BY <1>1, <1>3, <1>5, <2>2 DEF Edge
    <3>2. ReadUpTo(base) /\ ~(measured <= Size)
      BY <1>1, <1>5, <2>2 DEF TailInv
    <3> HIDE DEF Edge
    <3> QED
      BY <1>7, <3>1, <3>2 DEF ReadUpTo
  <2> QED
    BY <1>5, <2>1, <2>2
<1>11. saved # None => SavedUpTo(base + saved)'
  <2> SUFFICES ASSUME saved # None, NEW k \in DOMAIN read', Settled(k)', read'[k] \notin unsaved'
               PROVE  TextOf(read'[k]) <= base + saved
    BY <1>1 DEF SavedUpTo
  <2>1. k \in DOMAIN read /\ read'[k] = read[k] /\ Settled(k) /\ read[k] \notin unsaved
    BY <1>3, <1>7
  <2> QED
    BY <2>1 DEF TailInv, SavedUpTo
<1>12. HalfLine'
  <2> SUFFICES ASSUME NEW j \in DOMAIN rest, rest[j] # Unknown
               PROVE  /\ rest[j] <= base + measured /\ rest[j] <= wrote
                      /\ \A i \in DOMAIN read' : Settled(i)' => TextOf(read'[i]) < rest[j]
    BY <1>1, <1>3, <1>4 DEF HalfLine
  <2>1. ASSUME NEW i \in DOMAIN read', Settled(i)' PROVE TextOf(read'[i]) < rest[j]
    <3>1. read'[i] # Unknown
      BY <2>1 DEF Settled
    <3> QED
      BY <1>4, <1>7, <2>1, <3>1
  <2> QED
    BY <1>4, <2>1
<1>13. saved' = saved /\ base' = base /\ phase' # "down" /\ phase' # "reading"
  BY <1>1
<1> HIDE DEF Edge, ReadUpTo, Settled
<1> QED
  BY <1>8, <1>9, <1>10, <1>11, <1>12, <1>13 DEF TailInv

LEMMA TailStep ==
  ASSUME TypeInv, TypeInv', TailInv, Next
  PROVE  TailInv'
<1> QED
  BY TailWrite, TailRotate, TailBegins, TailEnds, TailStat, TailRead, TailReadFails, TailSave DEF Next, Poll

LEMMA TailStays ==
  ASSUME TypeInv, TypeInv', TailInv, [Next]_vars
  PROVE  TailInv'
<1>1. CASE Next
  BY <1>1, TailStep
<1>2. CASE UNCHANGED vars
  BY <1>2 DEF vars, file, process, ghosts, TailInv, NoLineTwice, HalfLine, ReadUpTo,
              SettledUpTo, SavedUpTo, Settled, Edge, Size, Ascends
<1> QED
  BY <1>1, <1>2

\* The invariant of the tailer, wherever the process ends and the file is rotated (the
\* offset that poll moves, saveOffsets saves and start resumes).
THEOREM TailGoesOn == ObserversSpec => [](TypeInv /\ TailInv)
<1>1. ObserversInit => TypeInv /\ TailInv
  BY TailerSteps, TypeStart, TailStart
<1>2. TypeInv /\ TailInv /\ [ObserversNext]_observersVars => TypeInv' /\ TailInv'
  BY TailerSteps, TypeStays, TailStays
<1> QED
  BY <1>1, <1>2, PTL DEF ObserversSpec

\* No line is read twice or out of order, over any number of polls, rotations and restarts,
\* but for the lines that an end before a save, or a rotation between stat and read, sets
\* the offset back behind (the offset of poll, saveOffsets and start).
THEOREM NoLineIsReadTwice == ObserversSpec => []NoLineTwice
<1>1. TailInv => NoLineTwice
  BY DEF TailInv
<1>2. ObserversSpec => [](TypeInv /\ TailInv)
  BY TailGoesOn
<1> QED
  BY <1>1, <1>2, PTL

-----------------------------------------------------------------------------
(***************************************************************************)
(* No error is reported twice.  A report empties the window; what comes    *)
(* into it afterwards was not read before, unless it is read again.        *)
(***************************************************************************)
IsIn(line, s) == \E j \in DOMAIN s : s[j] = line

\* A report of a line that is known and not read again.
Stands(e) == e.head # Unknown /\ e.head \notin again

ReportInv ==
  /\ \A i \in DOMAIN events : events[i].head = Unknown \/ IsIn(events[i].head, read)
  /\ \A i \in DOMAIN events : Stands(events[i]) => ~IsIn(events[i].head, cursor.recent)
  /\ \A j \in DOMAIN cursor.recent : IsIn(cursor.recent[j], read)
  /\ ReportedOnce

LEMMA ReportStart == Init => ReportInv
<1> SUFFICES ASSUME Init PROVE ReportInv
  OBVIOUS
<1>1. DOMAIN events = {} /\ DOMAIN cursor.recent = {}
  BY DEF Init, Cursor
<1> QED
  BY <1>1 DEF ReportInv, ReportedOnce

\* A step that reads nothing and reports nothing keeps the window or empties it.
LEMMA QuietStep ==
  ASSUME ReportInv, UNCHANGED <<read, events>>, again \subseteq again',
         cursor'.recent = cursor.recent \/ cursor'.recent = <<>>
  PROVE  ReportInv'
<1>1. \A i \in DOMAIN events : Stands(events[i])' => Stands(events[i])
  BY DEF Stands
<1>2. ReportedOnce'
  BY DEF ReportInv, ReportedOnce
<1> HIDE DEF Stands
<1>3. CASE cursor'.recent = cursor.recent
  BY <1>1, <1>2, <1>3 DEF ReportInv, IsIn
<1>4. CASE cursor'.recent = <<>>
  <2>1. DOMAIN (cursor'.recent) = {}
    BY <1>4
  <2> QED
    BY <1>2, <2>1 DEF ReportInv, IsIn
<1> QED
  BY <1>3, <1>4

\* The text that a read is searched in, the window and the new lines behind it: it has no
\* line that was reported and is not read again.
LEMMA WindowGoesOn ==
  ASSUME TypeInv, NoLineTwice', ReportInv,
         NEW text, NEW lines, NEW found, ReadOf(text, lines, found),
         NEW all, all = cursor.recent \o lines
  PROVE  /\ all \in Seq(Line)
         /\ \A k \in DOMAIN all : IsIn(all[k], read')
         /\ \A i \in DOMAIN events, k \in DOMAIN all :
              events[i].head = all[k] /\ all[k] # Unknown => all[k] \in again'
<1>1. /\ cursor.recent \in Seq(Line) /\ read \in Seq(Line) /\ lines \in Seq(Line)
      /\ read' = read \o lines /\ again \subseteq again'
  BY DEF ReadOf, TypeInv, TypeOK
<1>2. all \in Seq(Line)
  BY <1>1, ConcatProperties
<1>3. ASSUME NEW k \in DOMAIN all
      PROVE  \/ \E j \in DOMAIN cursor.recent : all[k] = cursor.recent[j]
             \/ \E m \in DOMAIN lines : all[k] = lines[m]
  <2>1. k \in DOMAIN (cursor.recent \o lines)
    OBVIOUS
  <2>2. \/ k \in DOMAIN cursor.recent /\ (cursor.recent \o lines)[k] = cursor.recent[k]
        \/ /\ k - Len(cursor.recent) \in DOMAIN lines
           /\ (cursor.recent \o lines)[k] = lines[k - Len(cursor.recent)]
    BY <1>1, <2>1, MembersOfBoth
  <2> QED
    BY <2>2
<1>4. /\ \A j \in DOMAIN read : j \in DOMAIN read' /\ read'[j] = read[j]
      /\ \A m \in DOMAIN lines : Len(read) + m \in DOMAIN read' /\ read'[Len(read) + m] = lines[m]
  BY <1>1, PlacesOfBoth
<1>5. ASSUME NEW k \in DOMAIN all PROVE IsIn(all[k], read')
  <2>1. CASE \E j \in DOMAIN cursor.recent : all[k] = cursor.recent[j]
    <3>1. PICK j \in DOMAIN read : read[j] = all[k]
      BY <2>1 DEF ReportInv, IsIn
    <3> QED
      BY <1>4, <3>1 DEF IsIn
  <2>2. CASE \E m \in DOMAIN lines : all[k] = lines[m]
    BY <1>4, <2>2 DEF IsIn
  <2> QED
    BY <1>3, <2>1, <2>2
<1>6. ASSUME NEW i \in DOMAIN events, NEW k \in DOMAIN all,
             events[i].head = all[k], all[k] # Unknown, all[k] \notin again'
      PROVE  FALSE
  <2>1. CASE \E j \in DOMAIN cursor.recent : all[k] = cursor.recent[j]
    <3>1. Stands(events[i])
      BY <1>1, <1>6 DEF Stands
    <3> QED
      BY <1>6, <2>1, <3>1 DEF ReportInv, IsIn
  <2>2. CASE \E m \in DOMAIN lines : all[k] = lines[m]
    <3>1. PICK m \in DOMAIN lines : all[k] = lines[m]
      BY <2>2
    <3>2. PICK p \in DOMAIN read : read[p] = all[k]
      BY <1>6 DEF ReportInv, IsIn
    <3>3. /\ p \in DOMAIN read' /\ read'[p] = all[k]
          /\ Len(read) + m \in DOMAIN read' /\ read'[Len(read) + m] = all[k]
      BY <1>4, <3>1, <3>2
    <3>4. p < Len(read) + m
      BY <1>1, LenProperties
    <3>5. all[k] < all[k]
      BY <1>6, <3>3, <3>4 DEF NoLineTwice
    <3>6. all[k] \in Nat
      <4>1. all[k] \in Line
        BY <1>2, ElementOfSeq
      <4> QED
        BY <4>1, ScriptLength
    <3> QED
      BY <3>5, <3>6
  <2> QED
    BY <1>3, <2>1, <2>2
<1> QED
  BY <1>2, <1>5, <1>6

LEMMA ReportRead ==
  ASSUME TypeInv, NoLineTwice', ReportInv, Read
  PROVE  ReportInv'
<1>1. PICK text, lines, found : ReadOf(text, lines, found)
  BY ReadBinds
<1> DEFINE all == cursor.recent \o lines
           last == LastOf(all, RecentMax)
<1>2. /\ cursor'.recent = Window(lines, found) /\ read' = read \o lines
      /\ events' = events \o SetToSeq(found) /\ found = ErrorBlock(last)
      /\ read \in Seq(Line) /\ lines \in Seq(Line) /\ again \subseteq again'
      /\ Window(lines, found) = IF found # {} THEN <<>> ELSE last
  BY <1>1 DEF ReadOf, TypeInv, TypeOK, Window
<1>3. /\ all \in Seq(Line)
      /\ \A k \in DOMAIN all : IsIn(all[k], read')
      /\ \A i \in DOMAIN events, k \in DOMAIN all :
           events[i].head = all[k] /\ all[k] # Unknown => all[k] \in again'
  BY <1>1, WindowGoesOn
<1> HIDE DEF all
<1>4. /\ last \in Seq(Line)
      /\ \A j \in DOMAIN last : \E k \in DOMAIN all : last[j] = all[k]
  BY <1>3, TailerAssumption, LastOfType
<1> HIDE DEF last
<1>5. /\ \A j \in DOMAIN last : IsIn(last[j], read')
      /\ \A i \in DOMAIN events, j \in DOMAIN last :
           events[i].head = last[j] /\ last[j] # Unknown => last[j] \in again'
  BY <1>3, <1>4
<1>6. \A i \in DOMAIN events : events[i].head = Unknown \/ IsIn(events[i].head, read')
  <2> SUFFICES ASSUME NEW i \in DOMAIN events, events[i].head # Unknown
               PROVE  IsIn(events[i].head, read')
    OBVIOUS
  <2>1. PICK j \in DOMAIN read : read[j] = events[i].head
    BY DEF ReportInv, IsIn
  <2>2. j \in DOMAIN (read \o lines) /\ (read \o lines)[j] = read[j]
    BY <1>2, PlacesOfBoth
  <2> QED
    BY <1>2, <2>1, <2>2 DEF IsIn
<1>7. \A i, j \in DOMAIN events :
        i # j /\ events[i].head # Unknown /\ events[i].head = events[j].head =>
          events[i].head \in again'
  BY <1>2 DEF ReportInv, ReportedOnce
<1>8. CASE found = {}
  <2>1. SetToSeq(found) = <<>>
    <3>1. found \in SUBSET Report /\ \A x, y \in found : x = y
      BY <1>8
    <3> QED
      BY <1>8, <3>1, SeqOfOne
  <2>2. events' = events
    <3>1. events \in Seq(Report)
      BY DEF TypeInv, TypeOK, Report
    <3> QED
      BY <1>2, <2>1, <3>1, ConcatEmptySeq
  <2>3. cursor'.recent = last
    BY <1>2, <1>8
  <2>4. \A i \in DOMAIN events' : Stands(events[i])' => ~IsIn(events'[i].head, last)
    BY <1>5, <2>2 DEF Stands, IsIn
  <2>5. ReportedOnce'
    BY <1>7, <2>2 DEF ReportedOnce
  <2> HIDE DEF Stands
  <2> QED
    BY <1>5, <1>6, <2>2, <2>3, <2>4, <2>5 DEF ReportInv, IsIn
<1>9. CASE found # {}
  <2>1. PICK b : b \in Report /\ HeadIsIn(b, last) /\ found = {b}
    <3>1. PICK b \in found : TRUE
      BY <1>9
    <3>2. b \in Report /\ HeadIsIn(b, last) /\ \A c \in found : b = c
      BY <1>2, <1>4, <3>1, ErrorBlockType
    <3> QED
      BY <3>1, <3>2
  <2>2. SetToSeq(found) \in Seq(Report) /\ Len(SetToSeq(found)) = 1 /\ SetToSeq(found)[1] = b
    <3>1. found \in SUBSET Report /\ \A x, y \in found : x = y
      BY <2>1
    <3> QED
      BY <1>9, <2>1, <3>1, SeqOfOne
  <2>3. events \in Seq(Report)
    BY DEF TypeInv, TypeOK, Report
  <2>4. ASSUME NEW i \in DOMAIN events'
        PROVE  \/ i \in DOMAIN events /\ events'[i] = events[i]
               \/ i = Len(events) + 1 /\ events'[i] = b
    <3>1. DOMAIN SetToSeq(found) = {1}
      BY <2>2, LenProperties
    <3>2. \/ i \in DOMAIN events /\ events'[i] = events[i]
          \/ /\ i > Len(events) /\ i - Len(events) \in DOMAIN SetToSeq(found)
             /\ events'[i] = SetToSeq(found)[i - Len(events)]
      <4>1. i \in DOMAIN (events \o SetToSeq(found))
        BY <1>2
      <4> QED
        BY <1>2, <2>2, <2>3, <4>1, MembersOfBoth
    <3>3. i \in Nat /\ Len(events) \in Nat
      <4>1. events' \in Seq(Report)
        BY <1>2, <2>2, <2>3, ConcatProperties
      <4> QED
        BY <2>3, <4>1, LenProperties
    <3>4. CASE i - Len(events) \in DOMAIN SetToSeq(found) /\ events'[i] = SetToSeq(found)[i - Len(events)]
      <4>1. i - Len(events) = 1
        BY <3>1, <3>4
      <4>2. i = Len(events) + 1
        BY <3>3, <4>1
      <4> QED
        BY <2>2, <3>4, <4>1, <4>2
    <3> QED
      BY <3>2, <3>4
  <2>5. b.head = Unknown \/ IsIn(b.head, read')
    BY <1>5, <2>1 DEF HeadIsIn
  <2>6. b.head # Unknown => \A i \in DOMAIN events : events[i].head = b.head => b.head \in again'
    BY <1>5, <2>1 DEF HeadIsIn
  <2>7. ReportedOnce'
    <3> SUFFICES ASSUME NEW i \in DOMAIN events', NEW j \in DOMAIN events', i # j,
                        events'[i].head # Unknown, events'[i].head = events'[j].head
                 PROVE  events'[i].head \in again'
      BY DEF ReportedOnce
    <3>1. CASE i \in DOMAIN events /\ events'[i] = events[i]
      <4>1. CASE j \in DOMAIN events /\ events'[j] = events[j]
        BY <1>7, <3>1, <4>1
      <4>2. CASE j = Len(events) + 1 /\ events'[j] = b
        BY <2>6, <3>1, <4>2
      <4> QED
        BY <2>4, <4>1, <4>2
    <3>2. CASE i = Len(events) + 1 /\ events'[i] = b
      <4>1. j \in DOMAIN events /\ events'[j] = events[j]
        BY <2>4, <3>2
      <4> QED
        BY <2>6, <3>2, <4>1
    <3> QED
      BY <2>4, <3>1, <3>2
  <2>8. \A i \in DOMAIN events' : events'[i].head = Unknown \/ IsIn(events'[i].head, read')
    <3> SUFFICES ASSUME NEW i \in DOMAIN events'
                 PROVE  events'[i].head = Unknown \/ IsIn(events'[i].head, read')
      OBVIOUS
    <3>1. CASE i \in DOMAIN events /\ events'[i] = events[i]
      BY <1>6, <3>1 DEF IsIn
    <3>2. CASE events'[i] = b
      BY <2>5, <3>2 DEF IsIn
    <3> QED
      BY <2>4, <3>1, <3>2
  <2>9. cursor'.recent = <<>> /\ DOMAIN (cursor'.recent) = {}
    BY <1>2, <1>9
  <2> QED
    BY <2>7, <2>8, <2>9 DEF ReportInv, IsIn
<1> QED
  BY <1>8, <1>9

LEMMA ReportStays ==
  ASSUME TypeInv, NoLineTwice', ReportInv, [Next]_vars
  PROVE  ReportInv'
<1>1. CASE Read
  BY <1>1, ReportRead
<1>2. CASE Write \/ Rotate \/ ReadFails \/ Save
  <2>1. UNCHANGED <<cursor, read, again, events>>
    BY <1>2 DEF Write, Rotate, ReadFails, Save, process, ghosts
  <2> QED
    BY <2>1, QuietStep
<1>3. CASE Start
  <2>1. cursor'.recent = <<>> /\ UNCHANGED <<read, again, events>>
    BY <1>3 DEF Start, Cursor, ghosts
  <2> QED
    BY <2>1, QuietStep
<1>4. CASE EndOfProcess
  <2>1. cursor'.recent = <<>> /\ again \subseteq again' /\ UNCHANGED <<read, events>>
    BY <1>4 DEF EndOfProcess, Cursor
  <2> QED
    BY <2>1, QuietStep
<1>5. CASE Stat
  <2>1. cursor' = AfterStat /\ UNCHANGED <<read, again, events>>
    BY <1>5 DEF Stat, ghosts
  <2>2. cursor'.recent = cursor.recent
    BY <2>1, StatLeaves
  <2> QED
    BY <2>1, <2>2, QuietStep
<1>6. CASE UNCHANGED vars
  <2>1. UNCHANGED <<cursor, read, again, events>>
    BY <1>6 DEF vars, process, ghosts
  <2> QED
    BY <2>1, QuietStep
<1> QED
  BY <1>1, <1>2, <1>3, <1>4, <1>5, <1>6 DEF Next, Poll

\* No error is reported twice, however many reads its report is cut into and whether or
\* not the process is restarted meanwhile, unless its header is read again (the window
\* that consume empties).
THEOREM ErrorsAreReportedOnce == ObserversSpec => []ReportedOnce
<1>1. ObserversInit => ReportInv
  BY TailerSteps, ReportStart
<1>2. NoLineTwice' /\ TypeInv /\ ReportInv /\ [ObserversNext]_observersVars => ReportInv'
  BY TailerSteps, ReportStays
<1>3. ObserversSpec => [](TypeInv /\ TailInv)
  BY TailGoesOn
<1>4. ReportInv => ReportedOnce
  BY DEF ReportInv
<1>5. TailInv => NoLineTwice
  BY DEF TailInv
<1> QED
  BY <1>1, <1>2, <1>3, <1>4, <1>5, PTL DEF ObserversSpec

-----------------------------------------------------------------------------
(***************************************************************************)
(* A report has its own frames.  While the log was not rotated the window  *)
(* is a stretch of it, without a gap: what is lost with a restart is lost  *)
(* before the window begins.  So the parser is given no mixture that was   *)
(* not in the log.                                                         *)
(***************************************************************************)
OwnFrames(e) == e.head # Unknown /\ e.frames # <<>> => Err(Head(e.frames)) = Err(e.head)

\* The lines behind the a-th, without a gap.
Stretch(ls, a) == \A i \in DOMAIN ls : ls[i] = a + i

LEMMA FirstPicked ==
  ASSUME NEW ls \in Seq(Line), NEW from \in Nat \ {0}, NEW to \in Nat, to <= Len(ls), NEW kind,
         Pick(ls, from, to, kind) # <<>>
  PROVE  \E p \in from .. to :
           /\ Kind(ls[p]) = kind /\ Head(Pick(ls, from, to, kind)) = ls[p]
           /\ \A j \in from .. p - 1 : Kind(ls[j]) # kind
<1> DEFINE P == {i \in from .. to : Kind(ls[i]) = kind}
           s == Pick(ls, from, to, kind)
<1>1. DOMAIN ls = 1 .. Len(ls) /\ Len(ls) \in Nat
  BY LenProperties
<1>2. P \in SUBSET (DOMAIN ls) /\ P \subseteq from .. to /\ \A i \in P : Kind(ls[i]) = kind
  BY <1>1
<1>3. \A i \in from .. to : i \notin P => Kind(ls[i]) # kind
  OBVIOUS
<1>4. s = Selected(ls, P)
  BY DEF Pick
<1> HIDE DEF P, s
<1>5. s \in Seq(Line) /\ DOMAIN s = 1 .. Cardinality(P) /\ Cardinality(P) \in Nat
  BY <1>2, <1>4, SelectedType
<1>6. PICK f \in [1 .. Cardinality(P) -> P] :
        /\ \A n \in 1 .. Cardinality(P) : s[n] = ls[f[n]]
        /\ \A m, n \in 1 .. Cardinality(P) : m < n => f[m] < f[n]
        /\ \A p \in P : \E n \in 1 .. Cardinality(P) : f[n] = p
  BY <1>2, <1>4, SelectedPlaces
<1>7. 1 \in 1 .. Cardinality(P)
  <2>1. Len(s) = Cardinality(P) /\ Len(s) # 0
    BY <1>5, EmptySeq, LenProperties DEF s
  <2> QED
    BY <1>5, <2>1
<1>8. f[1] \in P /\ Head(s) = ls[f[1]]
  <2>1. Head(s) = s[1]
    BY <1>5, HeadTailProperties DEF s
  <2> QED
    BY <1>6, <1>7, <2>1
<1>9. ASSUME NEW j \in from .. f[1] - 1 PROVE Kind(ls[j]) # kind
  <2>1. f[1] \in from .. to
    BY <1>2, <1>8
  <2>2. j \in from .. to /\ j < f[1]
    BY <2>1
  <2>3. ASSUME j \in P PROVE FALSE
    <3>1. PICK n \in 1 .. Cardinality(P) : f[n] = j
      BY <1>6, <2>3
    <3>2. n = 1 \/ 1 < n
      BY <1>5
    <3>3. f[1] <= f[n]
      <4>1. f[n] \in from .. to
        BY <2>2, <3>1
      <4> QED
        BY <1>6, <1>7, <2>1, <3>2, <4>1
    <3> QED
      BY <2>1, <2>2, <3>1, <3>3
  <2> QED
    BY <1>3, <2>2, <2>3
<1>10. f[1] \in from .. to /\ Kind(ls[f[1]]) = kind
  BY <1>2, <1>8
<1> QED
  BY <1>8, <1>9, <1>10 DEF s

\* What is in a stretch is in the log.
LEMMA StretchInScript ==
  ASSUME NEW ls \in Seq(Line), NEW a \in Nat, Stretch(ls, a)
  PROVE  \A i \in DOMAIN ls : ls[i] = a + i /\ ls[i] \in DOMAIN Script /\ ls[i] # Unknown
<1> SUFFICES ASSUME NEW i \in DOMAIN ls
             PROVE  ls[i] = a + i /\ ls[i] \in DOMAIN Script /\ ls[i] # Unknown
  OBVIOUS
<1>1. ls[i] \in Line /\ i \in Nat \ {0}
  BY LenProperties, ElementOfSeq
<1>2. DOMAIN Script = 1 .. Len(Script) /\ Len(Script) \in Nat
  BY ScriptAssumption, LenProperties
<1>3. ls[i] = a + i
  BY DEF Stretch
<1> QED
  BY <1>1, <1>2, <1>3 DEF Line, Unknown

\* A line of the log between two that are in a stretch is in it as well.
LEMMA Between ==
  ASSUME NEW a \in Nat, NEW x \in Nat, NEW y \in Nat, NEW j \in (a + x) + 1 .. (a + y) - 1
  PROVE  j - a \in x + 1 .. y - 1 /\ a + (j - a) = j
<1> QED
  OBVIOUS

LEMMA NodeReportIsOwn ==
  ASSUME Unmixed, NEW ls \in Seq(Line), NEW a \in Nat, Stretch(ls, a), NEW b \in NodeBlock(ls)
  PROVE  OwnFrames(b)
<1>1. PICK i \in DOMAIN ls :
        /\ Kind(ls[i]) = "head" /\ NodeFrames(ls, i) # <<>>
        /\ b = [head |-> ls[i], frames |-> NodeFrames(ls, i)]
  BY DEF NodeBlock, First
<1> DEFINE to == Min({Len(ls), i + FrameReach})
<1>2. DOMAIN ls = 1 .. Len(ls) /\ Len(ls) \in Nat /\ i \in Nat \ {0} /\ FrameReach \in Nat
  BY LenProperties, ScriptAssumption
<1>3. to \in {Len(ls), i + FrameReach} /\ \A x \in {Len(ls), i + FrameReach} : to <= x
  <2>1. {Len(ls), i + FrameReach} \in SUBSET Nat
    BY <1>2
  <2> QED
    BY <2>1, LeastPlace
<1>4. NodeFrames(ls, i) = Pick(ls, i + 1, to, "frame")
  BY DEF NodeFrames
<1> HIDE DEF to
<1>5. to \in Nat /\ to <= Len(ls) /\ to <= i + FrameReach /\ i + 1 \in Nat \ {0}
  BY <1>2, <1>3
<1>6. PICK p \in i + 1 .. to :
        /\ Kind(ls[p]) = "frame" /\ Head(NodeFrames(ls, i)) = ls[p]
        /\ \A j \in i + 1 .. p - 1 : Kind(ls[j]) # "frame"
  BY <1>1, <1>4, <1>5, FirstPicked
<1>7. p \in DOMAIN ls /\ p \in Nat /\ i < p /\ p <= i + FrameReach
  BY <1>2, <1>5
<1> DEFINE h == ls[i]
           f == ls[p]
<1>8. h \in DOMAIN Script /\ f \in DOMAIN Script /\ h = a + i /\ f = a + p
  BY <1>7, StretchInScript
<1>9. h < f /\ f <= h + FrameReach
  BY <1>2, <1>7, <1>8
<1>10. ASSUME NEW j \in h + 1 .. f - 1 PROVE Kind(j) # "frame"
  <2>1. j \in (a + i) + 1 .. (a + p) - 1 /\ i \in Nat /\ p <= Len(ls)
    BY <1>2, <1>7, <1>8
  <2> HIDE DEF h, f
  <2>2. j - a \in i + 1 .. p - 1 /\ a + (j - a) = j
    BY <1>7, <2>1, Between
  <2>3. j - a \in i + 1 .. p - 1 /\ j - a \in DOMAIN ls /\ a + (j - a) = j
    BY <1>2, <1>7, <2>1, <2>2
  <2>4. ls[j - a] = j
    BY <2>3, StretchInScript
  <2> QED
    BY <1>6, <2>3, <2>4
<1> HIDE DEF h, f
<1>11. Err(f) = Err(h)
  BY <1>1, <1>6, <1>8, <1>9, <1>10 DEF Unmixed, h, f
<1> QED
  BY <1>1, <1>6, <1>11 DEF OwnFrames, h, f

LEMMA PythonReportIsOwn ==
  ASSUME Unmixed, NEW ls \in Seq(Line), NEW a \in Nat, Stretch(ls, a), NEW b \in PythonBlock(ls),
         b.head # Unknown, b.frames # <<>>
  PROVE  Err(Head(b.frames)) = Err(b.head)
<1> DEFINE Message(line) == IF Kind(line) = "head" THEN line ELSE Unknown
<1>1. PICK i \in DOMAIN ls :
        /\ Kind(ls[i]) = "trace"
        /\ b = [head   |-> Message(ls[TracebackEnd(ls, i)]),
                frames |-> Pick(ls, i + 1, TracebackEnd(ls, i), "pyframe")]
  BY DEF PythonBlock, First
<1> DEFINE e == TracebackEnd(ls, i)
           stops == {j \in i + 1 .. Len(ls) : Kind(ls[j]) \in {"head", "text", "trace"}}
<1>2. DOMAIN ls = 1 .. Len(ls) /\ Len(ls) \in Nat /\ i \in Nat \ {0} /\ i <= Len(ls)
  BY LenProperties
<1>3. e \in DOMAIN ls /\ \A j \in stops : e <= j
  <2>1. {Len(ls)} \cup stops \in SUBSET Nat /\ {Len(ls)} \cup stops # {}
    BY <1>2
  <2>2. \A j \in {Len(ls)} \cup stops : Min({Len(ls)} \cup stops) <= j
    BY <2>1, LeastPlace
  <2>3. e = Min({Len(ls)} \cup stops)
    BY DEF TracebackEnd
  <2> QED
    BY <2>2, <2>3, TracebackEndType
<1>4. b.head = Message(ls[e]) /\ b.frames = Pick(ls, i + 1, e, "pyframe")
  BY <1>1
<1> HIDE DEF e
<1>5. Kind(ls[e]) = "head" /\ b.head = ls[e]
  BY <1>4
<1>6. e \in Nat /\ e <= Len(ls) /\ i + 1 \in Nat \ {0}
  BY <1>2, <1>3
<1>7. PICK p \in i + 1 .. e :
        /\ Kind(ls[p]) = "pyframe" /\ Head(b.frames) = ls[p]
        /\ \A j \in i + 1 .. p - 1 : Kind(ls[j]) # "pyframe"
  BY <1>4, <1>6, FirstPicked
<1>8. p \in DOMAIN ls /\ p \in Nat /\ i < p /\ p < e
  <2>1. p # e
    BY <1>5, <1>7
  <2> QED
    BY <1>2, <1>6, <2>1
<1> DEFINE t == ls[i]
           f == ls[p]
           h == ls[e]
<1>9. /\ t \in DOMAIN Script /\ f \in DOMAIN Script /\ h \in DOMAIN Script
      /\ t = a + i /\ f = a + p /\ h = a + e
  BY <1>3, <1>8, StretchInScript
<1>10. t < f /\ f < h
  BY <1>2, <1>6, <1>8, <1>9
<1>11. ASSUME NEW j \in t + 1 .. f - 1 PROVE Kind(j) # "pyframe"
  <2>1. j \in (a + i) + 1 .. (a + p) - 1 /\ i \in Nat /\ p <= Len(ls)
    BY <1>2, <1>8, <1>9
  <2> HIDE DEF t, f, h
  <2>2. j - a \in i + 1 .. p - 1 /\ a + (j - a) = j
    BY <1>8, <2>1, Between
  <2>3. j - a \in i + 1 .. p - 1 /\ j - a \in DOMAIN ls /\ a + (j - a) = j
    BY <1>2, <1>8, <2>1, <2>2
  <2>4. ls[j - a] = j
    BY <2>3, StretchInScript
  <2> QED
    BY <1>7, <2>3, <2>4
<1>12. ASSUME NEW j \in t + 1 .. h - 1 PROVE Kind(j) \notin {"head", "text", "trace"}
  <2>1. j - a \in i + 1 .. Len(ls) /\ j - a < e /\ j - a \in DOMAIN ls /\ a + (j - a) = j
    BY <1>2, <1>6, <1>9
  <2>2. ls[j - a] = j
    BY <2>1, StretchInScript
  <2>3. j - a \notin stops
    BY <1>3, <1>6, <2>1
  <2> QED
    BY <2>1, <2>2, <2>3
<1> HIDE DEF t, f, h
<1>13. Err(f) = Err(h)
  BY <1>1, <1>5, <1>7, <1>9, <1>10, <1>11, <1>12 DEF Unmixed, t, f, h
<1> QED
  BY <1>5, <1>7, <1>13 DEF f, h

LEMMA ReportIsOwn ==
  ASSUME Unmixed, NEW ls \in Seq(Line), NEW a \in Nat, Stretch(ls, a), NEW b \in ErrorBlock(ls)
  PROVE  OwnFrames(b)
<1>1. CASE NodeBlock(ls) # {}
  BY <1>1, NodeReportIsOwn DEF ErrorBlock
<1>2. CASE NodeBlock(ls) = {}
  <2>1. b \in PythonBlock(ls)
    BY <1>2 DEF ErrorBlock
  <2> QED
    BY <2>1, PythonReportIsOwn DEF OwnFrames
<1> QED
  BY <1>1, <1>2

\* The bytes behind the s-th, without a gap.
ByteRun(text, s) == \A k \in DOMAIN text : text[k] = s + k

LEMMA CompleteOfRun ==
  ASSUME NEW text \in Seq(Byte), NEW s \in Nat, ByteRun(text, s), Complete(text) # 0
  PROVE  \E e \in Nat : 2 * e = s + Complete(text)
<1> DEFINE S == {0} \cup {i \in DOMAIN text : IsNewline(text[i])}
           c == Complete(text)
<1>1. DOMAIN text = 1 .. Len(text) /\ Len(text) \in Nat
  BY LenProperties
<1>2. S \in SUBSET (0 .. Len(text)) /\ S # {}
  BY <1>1
<1>3. c = Max(S)
  BY DEF Complete
<1> HIDE DEF S, c
<1>4. c \in S
  BY <1>1, <1>2, <1>3, GreatestPlace
<1>5. c \in DOMAIN text /\ IsNewline(text[c])
  BY <1>4 DEF S, c
<1>6. (s + c) % 2 = 0 /\ c \in Nat
  BY <1>1, <1>5 DEF IsNewline, ByteRun
<1>7. (s + c) \div 2 \in Nat /\ 2 * ((s + c) \div 2) = s + c
  BY <1>6
<1> QED
  BY <1>7 DEF c

LEMMA LinesOfNone ==
  ASSUME NEW text, DOMAIN text = {}
  PROVE  LinesOf(text) = <<>>
<1> DEFINE P == {i \in DOMAIN text : ~IsNewline(text[i]) /\ (i = 1 \/ IsNewline(text[i - 1]))}
<1>1. P = {} /\ Cardinality(P) = 0
  BY FS_EmptySet
<1> HIDE DEF P
<1>2. \A all : Selected(all, P) = <<>>
  BY <1>1 DEF Selected
<1> QED
  BY <1>2 DEF LinesOf, P

\* Bytes without a gap, up to a newline, are lines without a gap: those that begin in it.
LEMMA LinesOfRun ==
  ASSUME NEW text \in Seq(Byte), NEW s \in Nat, ByteRun(text, s),
         NEW e \in Nat, 2 * e = s + Len(text),
         NEW u \in Nat, s = 2 * u \/ s = 2 * u - 1
  PROVE  u <= e /\ Stretch(LinesOf(text), u) /\ Len(LinesOf(text)) = e - u
<1> DEFINE Line1(i) == IF text[i] = Unknown THEN Unknown ELSE (text[i] + 1) \div 2
           all == [i \in DOMAIN text |-> Line1(i)]
           P == {i \in DOMAIN text : ~IsNewline(text[i]) /\ (i = 1 \/ IsNewline(text[i - 1]))}
           l == Len(text)
           n == e - u
           At(m) == 2 * (u + m) - 1 - s
           f == [m \in 1 .. n |-> At(m)]
<1>1. DOMAIN text = 1 .. l /\ l \in Nat
  BY LenProperties
<1>2. u <= e /\ n \in Nat
  BY <1>1
<1>3. LinesOf(text) = Selected(all, P)
  BY DEF LinesOf
<1> HIDE DEF l
<1>4. ASSUME NEW i \in 1 .. l
      PROVE  i \in P <=> (s + i) % 2 = 1
  <2>1. text[i] = s + i /\ i \in Nat \ {0}
    BY <1>1 DEF ByteRun
  <2>2. ~IsNewline(text[i]) <=> (s + i) % 2 = 1
    BY <2>1 DEF IsNewline, Unknown
  <2>3. ASSUME i # 1 PROVE text[i - 1] = s + (i - 1) /\ i - 1 \in Nat \ {0}
    <3>1. i - 1 \in 1 .. l /\ i - 1 \in Nat \ {0}
      BY <1>1, <2>1, <2>3
    <3> QED
      BY <1>1, <3>1 DEF ByteRun
  <2>4. i # 1 /\ (s + i) % 2 = 1 => (s + (i - 1)) % 2 = 0
    BY <2>1
  <2>5. i # 1 /\ (s + i) % 2 = 1 => IsNewline(text[i - 1])
    BY <2>3, <2>4 DEF IsNewline, Unknown
  <2> QED
    BY <1>1, <2>2, <2>5
<1>5. ASSUME NEW m \in 1 .. n
      PROVE  At(m) \in 1 .. l /\ (s + At(m)) % 2 = 1 /\ (s + At(m) + 1) \div 2 = u + m
  <2>1. m \in Nat \ {0} /\ m <= e - u
    BY <1>2
  <2>2. At(m) \in Int /\ At(m) >= 1
    BY <2>1
  <2>3. At(m) <= l
    BY <1>1, <2>1 DEF l
  <2>4. s + At(m) = 2 * (u + m) - 1 /\ s + At(m) + 1 = 2 * (u + m) /\ u + m \in Nat
    BY <2>1
  <2>5. (2 * (u + m) - 1) % 2 = 1 /\ (2 * (u + m)) \div 2 = u + m
    BY <2>1
  <2> HIDE DEF At
  <2>6. (s + At(m)) % 2 = 1 /\ (s + At(m) + 1) \div 2 = u + m
    BY <2>4, <2>5
  <2> QED
    BY <1>1, <2>2, <2>3, <2>6
<1>6. ASSUME NEW i \in 1 .. l, (s + i) % 2 = 1
      PROVE  \E m \in 1 .. n : At(m) = i
  <2> DEFINE k == (s + i + 1) \div 2
  <2>1. i \in Nat \ {0} /\ i <= l
    BY <1>1
  <2>2. k \in Nat /\ 2 * k = s + i + 1
    BY <1>6, <2>1
  <2> HIDE DEF k
  <2>3. k >= u + 1 /\ k <= e
    BY <1>1, <2>1, <2>2 DEF l
  <2>4. k - u \in 1 .. n /\ At(k - u) = i
    BY <1>2, <2>1, <2>2, <2>3
  <2> QED
    BY <2>4
<1> HIDE DEF At, P, n
<1>7. f \in [1 .. n -> P] /\ \A m \in 1 .. n : f[m] = At(m) /\ At(m) \in P
  BY <1>4, <1>5
<1>8. ASSUME NEW i \in 1 .. n, NEW j \in 1 .. n, i < j PROVE f[i] < f[j]
  <2>1. i \in Nat /\ j \in Nat
    BY <1>2
  <2>2. At(i) < At(j)
    BY <1>8, <2>1 DEF At
  <2> QED
    BY <1>7, <2>2
<1>9. \A p \in P : \E m \in 1 .. n : f[m] = p
  <2> SUFFICES ASSUME NEW p \in P PROVE \E m \in 1 .. n : f[m] = p
    OBVIOUS
  <2>1. p \in 1 .. l
    BY <1>1 DEF P
  <2> QED
    BY <1>4, <1>6, <1>7, <2>1
<1> HIDE DEF f
<1>10. P \in SUBSET Int
  BY <1>1 DEF P
<1>11. Cardinality(P) = n /\ \A m \in 1 .. n : Nth(P, m) = f[m]
  BY <1>2, <1>7, <1>8, <1>9, <1>10, NthIsUnique
<1>12. ASSUME NEW m \in 1 .. n PROVE all[f[m]] = u + m
  <2>1. f[m] = At(m) /\ At(m) \in 1 .. l
    BY <1>5, <1>7
  <2>2. text[f[m]] = s + At(m) /\ s + At(m) # 0
    BY <1>1, <2>1 DEF ByteRun
  <2> QED
    BY <1>1, <1>5, <2>1, <2>2 DEF Unknown
<1> HIDE DEF all
<1>13. /\ DOMAIN LinesOf(text) = 1 .. n /\ Len(LinesOf(text)) = n
       /\ \A m \in 1 .. n : LinesOf(text)[m] = u + m
  <2>1. LinesOf(text) = [m \in 1 .. n |-> all[Nth(P, m)]]
    BY <1>3, <1>11 DEF Selected
  <2>2. LinesOf(text) = [m \in 1 .. n |-> u + m]
    BY <1>11, <1>12, <2>1
  <2> QED
    BY <1>2, <2>2
<1> QED
  BY <1>2, <1>13 DEF Stretch, n

LEMMA StretchOn ==
  ASSUME NEW r \in Seq(Line), NEW ls \in Seq(Line), NEW a \in Nat,
         Stretch(r, a), Stretch(ls, a + Len(r))
  PROVE  Stretch(r \o ls, a) /\ Len(r \o ls) = Len(r) + Len(ls)
<1>1. Len(r) \in Nat /\ Len(ls) \in Nat /\ Len(r \o ls) = Len(r) + Len(ls) /\ r \o ls \in Seq(Line)
  BY LenProperties, ConcatProperties
<1>2. ASSUME NEW i \in DOMAIN (r \o ls) PROVE (r \o ls)[i] = a + i
  <2>1. \/ i \in DOMAIN r /\ (r \o ls)[i] = r[i]
        \/ i - Len(r) \in DOMAIN ls /\ (r \o ls)[i] = ls[i - Len(r)]
    BY MembersOfBoth
  <2>2. i \in Nat /\ (a + Len(r)) + (i - Len(r)) = a + i
    BY <1>1, LenProperties
  <2> QED
    BY <2>1, <2>2 DEF Stretch
<1> QED
  BY <1>1, <1>2 DEF Stretch

\* Where the half line that was kept begins.
HalfAt == cursor.offset - Len(cursor.partial)

\* Lines without a gap, up to a byte.
UpTo(ls, byte) ==
  ls # <<>> => \E a \in Nat : Stretch(ls, a) /\ 2 * (a + Len(ls)) = byte

WindowInv ==
  base = 0 =>
    /\ cursor.offset <= wrote
    /\ phase = "reading" => measured <= wrote
    /\ Len(cursor.partial) <= cursor.offset
    /\ ByteRun(cursor.partial, HalfAt)
    /\ UpTo(cursor.recent, HalfAt)

LEMMA WindowStart == Init => WindowInv
<1> SUFFICES ASSUME Init PROVE WindowInv
  OBVIOUS
<1>1. /\ cursor.offset = 0 /\ cursor.partial = <<>> /\ cursor.recent = <<>>
      /\ wrote = 0 /\ phase = "down"
  BY DEF Init, Cursor
<1>2. Len(cursor.partial) = 0 /\ DOMAIN cursor.partial = {}
  BY <1>1
<1> QED
  BY <1>1, <1>2 DEF WindowInv, ByteRun, UpTo

\* The text of a read goes on where the half line began.
LEMMA TextOfRead ==
  ASSUME TypeInv, WindowInv, base = 0, phase = "reading",
         NEW text, text = cursor.partial \o Chunk, text \in Seq(Byte)
  PROVE  HalfAt \in Nat /\ ByteRun(text, HalfAt) /\ HalfAt + Len(text) = measured
<1>1. /\ wrote \in Nat /\ Size = wrote /\ cursor.offset \in Nat /\ measured \in Nat
      /\ cursor.offset < measured /\ measured <= Size
  BY SizeType DEF Size, TypeInv, WindowInv
<1>2. /\ Chunk \in Seq(Byte) /\ DOMAIN Chunk = 1 .. measured - cursor.offset
      /\ \A i \in DOMAIN Chunk : Chunk[i] = base + cursor.offset + i
  BY <1>1, ChunkType
<1>3. cursor.partial \in Seq(Byte)
  BY DEF TypeInv, TypeOK
<1>4. /\ Len(cursor.partial) \in Nat /\ Len(Chunk) \in Nat
      /\ DOMAIN Chunk = 1 .. Len(Chunk)
      /\ Len(text) = Len(cursor.partial) + Len(Chunk)
  BY <1>2, <1>3, LenProperties, ConcatProperties
<1>5. Len(Chunk) = measured - cursor.offset
  BY <1>1, <1>2, <1>4
<1>6. Len(cursor.partial) <= cursor.offset
  BY DEF WindowInv
<1>7. HalfAt \in Nat /\ HalfAt + Len(text) = measured /\ cursor.offset = HalfAt + Len(cursor.partial)
  <2> DEFINE n == Len(cursor.partial)
             m == Len(Chunk)
             o == cursor.offset
  <2>1. n \in Nat /\ m \in Nat /\ o \in Nat /\ m = measured - o /\ n <= o /\ measured \in Nat
    BY <1>1, <1>4, <1>5, <1>6
  <2>2. Len(text) = n + m /\ HalfAt = o - n
    BY <1>4 DEF HalfAt
  <2> HIDE DEF n, m, o
  <2>3. HalfAt \in Nat /\ HalfAt + Len(text) = measured /\ o = HalfAt + n
    BY <2>1, <2>2
  <2> QED
    BY <2>3 DEF n, o
<1> HIDE DEF HalfAt
<1>8. ASSUME NEW k \in DOMAIN text PROVE text[k] = HalfAt + k
  <2>1. k \in DOMAIN (cursor.partial \o Chunk) /\ k \in Nat
    BY LenProperties
  <2>2. CASE k \in DOMAIN cursor.partial /\ (cursor.partial \o Chunk)[k] = cursor.partial[k]
    BY <2>2 DEF WindowInv, ByteRun, UpTo
  <2>3. CASE /\ k - Len(cursor.partial) \in DOMAIN Chunk
             /\ (cursor.partial \o Chunk)[k] = Chunk[k - Len(cursor.partial)]
    <3>1. text[k] = base + cursor.offset + (k - Len(cursor.partial))
      BY <1>2, <2>3
    <3> QED
      BY <1>4, <1>7, <2>1, <3>1
  <2>4. \/ k \in DOMAIN cursor.partial /\ (cursor.partial \o Chunk)[k] = cursor.partial[k]
        \/ /\ k - Len(cursor.partial) \in DOMAIN Chunk
           /\ (cursor.partial \o Chunk)[k] = Chunk[k - Len(cursor.partial)]
    BY <1>2, <1>3, <2>1, MembersOfBoth
  <2> QED
    BY <2>2, <2>3, <2>4
<1> QED
  BY <1>7, <1>8 DEF ByteRun

\* The lines of a read go on where lines up to the half line ended.
LEMMA LinesGoOn ==
  ASSUME TypeInv, WindowInv, base = 0, phase = "reading",
         NEW text, NEW lines, NEW found, ReadOf(text, lines, found),
         NEW before \in Seq(Line), UpTo(before, HalfAt)
  PROVE  before \o lines \in Seq(Line) /\ UpTo(before \o lines, HalfAt + Complete(text))
<1> DEFINE c == Complete(text)
           head == HeadOf(text)
<1>1. /\ text = cursor.partial \o Chunk /\ text \in Seq(Byte)
      /\ lines = LinesOf(head) /\ lines \in Seq(Line)
  BY DEF ReadOf
<1>2. HalfAt \in Nat /\ ByteRun(text, HalfAt)
  BY <1>1, TextOfRead
<1>3. c \in 0 .. Len(text) /\ Len(text) \in Nat
  BY <1>1, CompleteType, LenProperties
<1>4. /\ head \in Seq(Byte) /\ DOMAIN head = 1 .. c /\ Len(head) = c
      /\ \A i \in DOMAIN head : head[i] = text[i]
  BY <1>1, <1>3, HeadOfType, CutInTwo DEF HeadOf
<1>5. ByteRun(head, HalfAt)
  <2>1. DOMAIN text = 1 .. Len(text)
    BY <1>1, LenProperties
  <2>2. \A i \in 1 .. c : i \in 1 .. Len(text)
    BY <1>3
  <2> QED
    BY <1>2, <1>4, <2>1, <2>2 DEF ByteRun
<1> HIDE DEF head
<1>6. \A s \in Seq(Line) : Len(s) \in Nat /\ (Len(s) = 0 <=> s = <<>>)
  BY LenProperties, EmptySeq
<1>7. before # <<>> =>
        \E a \in Nat : Stretch(before, a) /\ 2 * (a + Len(before)) = HalfAt
  BY DEF UpTo
<1>8. CASE c = 0
  <2>1. lines = <<>>
    <3>1. DOMAIN head = {}
      BY <1>4, <1>8
    <3> QED
      BY <1>1, <3>1, LinesOfNone
  <2>2. before \o lines = before
    BY <1>1, <2>1, ConcatEmptySeq
  <2>3. HalfAt + c = HalfAt
    BY <1>2, <1>8
  <2> HIDE DEF c
  <2> QED
    BY <2>2, <2>3 DEF c
<1>9. CASE c # 0
  <2>1. PICK e \in Nat : 2 * e = HalfAt + c
    BY <1>1, <1>2, <1>9, CompleteOfRun
  <2>2. PICK u \in Nat : HalfAt = 2 * u \/ HalfAt = 2 * u - 1
    <3>1. (HalfAt + 1) \div 2 \in Nat
      BY <1>2
    <3>2. HalfAt = 2 * ((HalfAt + 1) \div 2) \/ HalfAt = 2 * ((HalfAt + 1) \div 2) - 1
      BY <1>2
    <3> QED
      BY <3>1, <3>2
  <2>3. u <= e /\ Stretch(lines, u) /\ Len(lines) = e - u
    <3>1. 2 * e = HalfAt + Len(head)
      BY <1>4, <2>1
    <3> QED
      BY <1>1, <1>2, <1>4, <1>5, <2>2, <3>1, LinesOfRun
  <2>4. PICK a \in Nat : Stretch(before, a) /\ a + Len(before) = u
    <3>1. CASE before = <<>>
      <4>1. DOMAIN before = {} /\ Len(before) = 0
        BY <3>1
      <4> QED
        BY <4>1 DEF Stretch
    <3>2. CASE before # <<>>
      <4>1. PICK a \in Nat : Stretch(before, a) /\ 2 * (a + Len(before)) = HalfAt
        BY <1>7, <3>2
      <4>2. a + Len(before) = u
        <5>1. Len(before) \in Nat
          BY <1>6
        <5> QED
          BY <2>2, <4>1, <5>1
      <4> QED
        BY <4>1, <4>2
    <3> QED
      BY <3>1, <3>2
  <2>5. /\ Stretch(before \o lines, a)
        /\ Len(before \o lines) = Len(before) + Len(lines)
    BY <1>1, <2>3, <2>4, StretchOn
  <2>6. 2 * (a + Len(before \o lines)) = HalfAt + c
    <3>1. Len(before) \in Nat
      BY <1>6
    <3> QED
      BY <2>1, <2>3, <2>4, <2>5, <3>1
  <2>7. before \o lines \in Seq(Line)
    BY <1>1, ConcatProperties
  <2> QED
    BY <2>5, <2>6, <2>7 DEF UpTo
<1> QED
  BY <1>8, <1>9

\* And so is the window that LastOf cuts from it.
LEMMA WindowIsStretch ==
  ASSUME TypeInv, WindowInv, base = 0, phase = "reading",
         NEW text, NEW lines, NEW found, ReadOf(text, lines, found)
  PROVE  LET last == LastOf(cursor.recent \o lines, RecentMax)
         IN  last \in Seq(Line) /\ UpTo(last, HalfAt + Complete(text))
<1> DEFINE all == cursor.recent \o lines
           last == LastOf(all, RecentMax)
           end == HalfAt + Complete(text)
<1>1. all \in Seq(Line) /\ UpTo(all, end)
  <2>1. cursor.recent \in Seq(Line) /\ UpTo(cursor.recent, HalfAt)
    BY DEF TypeInv, TypeOK, WindowInv
  <2> QED
    BY <2>1, LinesGoOn
<1> HIDE DEF all, end
<1>3. /\ last \in Seq(Line)
      /\ \E k \in Nat :
           /\ k + Len(last) = Len(all)
           /\ \A i \in DOMAIN last : k + i \in DOMAIN all /\ last[i] = all[k + i]
  BY <1>1, TailerAssumption, LastOfType
<1> HIDE DEF last
<1>4. PICK k \in Nat :
        /\ k + Len(last) = Len(all)
        /\ \A i \in DOMAIN last : k + i \in DOMAIN all /\ last[i] = all[k + i]
  BY <1>3
<1>5. Len(last) \in Nat /\ Len(all) \in Nat /\ DOMAIN last = 1 .. Len(last)
  BY <1>1, <1>3, LenProperties
<1>6. ASSUME last # <<>>
      PROVE  \E a \in Nat : Stretch(last, a) /\ 2 * (a + Len(last)) = end
  <2>1. all # <<>>
    <3>1. Len(last) # 0
      BY <1>3, <1>6, EmptySeq
    <3>2. Len(all) # 0
      BY <1>4, <1>5, <3>1
    <3> QED
      BY <3>2
  <2>2. PICK a \in Nat : Stretch(all, a) /\ 2 * (a + Len(all)) = end
    BY <1>1, <2>1 DEF UpTo
  <2>3. ASSUME NEW i \in DOMAIN last PROVE last[i] = (a + k) + i
    <3>1. last[i] = a + (k + i) /\ i \in Nat
      BY <1>4, <1>5, <2>2 DEF Stretch
    <3> QED
      BY <3>1
  <2>4. (a + k) + Len(last) = a + Len(all) /\ a + k \in Nat
    BY <1>4, <1>5
  <2> QED
    BY <2>2, <2>3, <2>4 DEF Stretch
<1> QED
  BY <1>3, <1>6 DEF UpTo, last, all, end

\* The half line that a read leaves.
LEMMA HalfLineLeft ==
  ASSUME TypeInv, WindowInv, base = 0, phase = "reading",
         NEW text, NEW lines, NEW found, ReadOf(text, lines, found)
  PROVE  /\ HalfAt' = HalfAt + Complete(text)
         /\ Len(cursor'.partial) <= cursor'.offset
         /\ ByteRun(cursor'.partial, HalfAt')
<1> DEFINE c == Complete(text)
<1>1. /\ text = cursor.partial \o Chunk /\ text \in Seq(Byte)
      /\ cursor'.offset = measured /\ cursor'.partial = Rest(text)
  BY DEF ReadOf
<1>2. HalfAt \in Nat /\ ByteRun(text, HalfAt) /\ HalfAt + Len(text) = measured
  BY <1>1, TextOfRead
<1>3. c \in 0 .. Len(text) /\ Len(text) \in Nat /\ DOMAIN text = 1 .. Len(text)
  BY <1>1, CompleteType, LenProperties
<1>4. /\ Rest(text) \in Seq(Byte) /\ DOMAIN Rest(text) = 1 .. Len(text) - c
      /\ \A i \in DOMAIN Rest(text) : Rest(text)[i] = text[c + i]
  BY <1>1, RestType
<1> HIDE DEF c
<1>5. Len(Rest(text)) = Len(text) - c
  <2>1. DOMAIN Rest(text) = 1 .. Len(Rest(text)) /\ Len(Rest(text)) \in Nat
    BY <1>4, LenProperties
  <2>2. Len(text) - c \in Nat
    BY <1>3
  <2> QED
    BY <1>4, <2>1, <2>2
<1>6. HalfAt' = HalfAt + c /\ Len(cursor'.partial) <= cursor'.offset
  <2>1. HalfAt' = measured - (Len(text) - c) /\ Len(cursor'.partial) = Len(text) - c
    BY <1>1, <1>5 DEF HalfAt
  <2> HIDE DEF HalfAt
  <2> QED
    BY <1>1, <1>2, <1>3, <2>1
<1> HIDE DEF HalfAt
<1>7. ASSUME NEW i \in DOMAIN Rest(text) PROVE Rest(text)[i] = (HalfAt + c) + i
  <2>1. c + i \in DOMAIN text /\ i \in Nat /\ c \in Nat
    BY <1>3, <1>4
  <2>2. Rest(text)[i] = HalfAt + (c + i)
    BY <1>2, <1>4, <2>1 DEF ByteRun
  <2> QED
    BY <1>2, <2>1, <2>2
<1> QED
  BY <1>1, <1>6, <1>7 DEF ByteRun, c

LEMMA WindowRead ==
  ASSUME TypeInv, WindowInv, Read
  PROVE  WindowInv'
<1> SUFFICES ASSUME base = 0 PROVE WindowInv'
  BY DEF WindowInv, Read, file
<1>1. phase = "reading" /\ phase' = "saving" /\ wrote' = wrote
  BY DEF Read, ReadSucceeds, file
<1>2. PICK text, lines, found : ReadOf(text, lines, found)
  BY ReadBinds
<1>3. /\ cursor'.offset = measured
      /\ cursor'.recent \in {<<>>, LastOf(cursor.recent \o lines, RecentMax)}
  BY <1>2 DEF ReadOf, Window
<1>4. /\ HalfAt' = HalfAt + Complete(text)
      /\ Len(cursor'.partial) <= cursor'.offset /\ ByteRun(cursor'.partial, HalfAt')
  BY <1>1, <1>2, HalfLineLeft
<1>5. UpTo(cursor'.recent, HalfAt')
  <2>1. UpTo(LastOf(cursor.recent \o lines, RecentMax), HalfAt + Complete(text))
    BY <1>1, <1>2, WindowIsStretch
  <2> HIDE DEF HalfAt
  <2> QED
    BY <1>3, <1>4, <2>1 DEF UpTo
<1>6. cursor'.offset <= wrote'
  BY <1>1, <1>3 DEF WindowInv
<1> QED
  BY <1>1, <1>4, <1>5, <1>6 DEF WindowInv

LEMMA WindowStays ==
  ASSUME TypeInv, TypeInv', WindowInv, [Next]_vars
  PROVE  WindowInv'
<1> SUFFICES ASSUME base' = 0 PROVE WindowInv'
  BY DEF WindowInv
<1>0. wrote \in Nat /\ base \in Nat /\ Size = wrote - base
  BY SizeType
\* A cursor that reads from where it stands, with nothing kept.
<1>1. ASSUME NEW at \in Nat, at <= wrote', cursor' = Cursor(at), phase' # "reading",
             base = 0
      PROVE  WindowInv'
  <2>1. /\ cursor'.offset = at /\ cursor'.partial = <<>> /\ cursor'.recent = <<>>
        /\ Len(cursor'.partial) = 0 /\ DOMAIN (cursor'.partial) = {}
    BY <1>1 DEF Cursor
  <2> QED
    BY <1>1, <2>1 DEF WindowInv, ByteRun, UpTo
<1>2. CASE Read
  BY <1>2, WindowRead
<1>3. CASE Write
  <2>1. wrote' = wrote + 1 /\ UNCHANGED <<base, phase, cursor, measured>>
    BY <1>3 DEF Write, process
  <2>2. cursor.offset \in Nat /\ measured \in Nat
    BY SizeType
  <2> QED
    BY <1>0, <2>1, <2>2 DEF WindowInv, HalfAt
<1>4. CASE Rotate
  <2>1. base' = wrote /\ wrote - base > 0
    BY <1>0, <1>4 DEF Rotate
  <2> QED
    BY <1>0, <2>1
<1>5. CASE ReadFails \/ Save
  <2>1. UNCHANGED <<wrote, base, cursor>> /\ phase' = "idle"
    BY <1>5 DEF ReadFails, Save, file
  <2> QED
    BY <2>1 DEF WindowInv, HalfAt
<1>6. CASE Start
  <2>1. phase' = "idle" /\ cursor' = Cursor(StartOffset) /\ UNCHANGED <<wrote, base>>
    BY <1>6 DEF Start, file
  <2>2. StartOffset \in Nat /\ StartOffset <= wrote
    <3>1. saved # None => saved \in Nat
      BY ScriptLength DEF TypeInv, TypeOK
    <3> QED
      BY <1>0, <2>1, <3>1 DEF StartOffset
  <2> QED
    BY <1>1, <2>1, <2>2
<1>7. CASE EndOfProcess
  <2>1. phase' = "down" /\ cursor' = Cursor(0) /\ UNCHANGED <<wrote, base>>
    BY <1>7 DEF EndOfProcess, file
  <2> QED
    BY <1>0, <1>1, <2>1
<1>8. CASE Stat
  <2>1. cursor' = AfterStat /\ UNCHANGED <<wrote, base>>
    BY <1>8 DEF Stat, file
  <2>2. cursor' = cursor
    <3>1. cursor.offset <= Size /\ cursor.offset \in Nat
      BY <1>0, <2>1, SizeType DEF WindowInv
    <3> QED
      BY <1>0, <2>1, <3>1 DEF AfterStat
  <2>3. phase' = "reading" => measured' <= wrote'
    BY <1>0, <1>8, <2>1 DEF Stat, WindowInv
  <2> QED
    BY <2>1, <2>2, <2>3 DEF WindowInv, HalfAt
<1>9. CASE UNCHANGED vars
  BY <1>9 DEF vars, file, process, WindowInv, HalfAt
<1> QED
  BY <1>2, <1>3, <1>4, <1>5, <1>6, <1>7, <1>8, <1>9 DEF Next, Poll

\* The reports that were made while the log was not rotated.
FramesInv == base = 0 => \A i \in DOMAIN events : OwnFrames(events[i])

LEMMA FramesRead ==
  ASSUME Unmixed, TypeInv, WindowInv, FramesInv, Read
  PROVE  FramesInv'
<1> SUFFICES ASSUME base = 0, NEW i \in DOMAIN events' PROVE OwnFrames(events'[i])
  BY DEF FramesInv, Read, file
<1>1. phase = "reading"
  BY DEF Read, ReadSucceeds
<1>2. PICK text, lines, found : ReadOf(text, lines, found)
  BY ReadBinds
<1> DEFINE last == LastOf(cursor.recent \o lines, RecentMax)
<1>3. found = ErrorBlock(last) /\ events' = events \o SetToSeq(found)
  BY <1>2 DEF ReadOf
<1>4. last \in Seq(Line) /\ UpTo(last, HalfAt + Complete(text))
  BY <1>1, <1>2, WindowIsStretch
<1> HIDE DEF last
<1>5. \E a \in Nat : Stretch(last, a)
  <2>1. last = <<>> => Stretch(last, 0)
    BY DEF Stretch
  <2> QED
    BY <1>4, <2>1 DEF UpTo
<1>6. \A b \in found : b \in Report /\ OwnFrames(b) /\ \A d \in found : b = d
  BY <1>3, <1>4, <1>5, ReportIsOwn, ErrorBlockType
<1>7. SetToSeq(found) \in Seq(found)
  <2>1. found \in SUBSET found /\ \A x, y \in found : x = y
    BY <1>6
  <2> QED
    BY <2>1, SeqOfOne
<1>8. SetToSeq(found) \in Seq(Report) /\ events \in Seq(Report)
  BY <1>2 DEF ReadOf, TypeInv, TypeOK, Report
<1>9. i \in DOMAIN (events \o SetToSeq(found))
  BY <1>3
<1>10. CASE i \in DOMAIN events /\ (events \o SetToSeq(found))[i] = events[i]
  BY <1>3, <1>10 DEF FramesInv
<1>11. CASE /\ i - Len(events) \in DOMAIN SetToSeq(found)
            /\ (events \o SetToSeq(found))[i] = SetToSeq(found)[i - Len(events)]
  <2>1. events'[i] \in found
    BY <1>3, <1>7, <1>11, ElementOfSeq
  <2> QED
    BY <1>6, <2>1
<1> QED
  BY <1>8, <1>9, <1>10, <1>11, MembersOfBoth

LEMMA FramesStay ==
  ASSUME Unmixed, TypeInv, WindowInv, FramesInv, [Next]_vars
  PROVE  FramesInv'
<1>1. CASE Read
  BY <1>1, FramesRead
<1>2. CASE Rotate
  <2>1. base' = wrote /\ wrote - base > 0
    BY <1>2 DEF Rotate, Size
  <2>2. wrote \in Nat /\ base \in Nat
    BY SizeType
  <2> QED
    BY <2>1, <2>2 DEF FramesInv
<1>3. CASE Write \/ Start \/ EndOfProcess \/ Stat \/ ReadFails \/ Save \/ UNCHANGED vars
  <2>1. UNCHANGED <<base, events>>
    BY <1>3 DEF Write, Start, EndOfProcess, Stat, ReadFails, Save, file, process, vars
  <2> QED
    BY <2>1 DEF FramesInv
<1> QED
  BY <1>1, <1>2, <1>3 DEF Next, Poll

\* A report names the top frame of the error it names, however the polls cut the log and
\* wherever the process ends, as long as the file is not rotated and the log itself does
\* not mislead (the window that consume keeps, parseErrorBlock).
THEOREM ReportsHaveTheirFrames ==
  ASSUME Unmixed
  PROVE  ObserversSpec => []TopFrameIsOwn
<1>1. ObserversInit => WindowInv /\ FramesInv
  <2>1. Init => DOMAIN events = {}
    BY DEF Init
  <2> QED
    BY <2>1, TailerSteps, WindowStart DEF FramesInv
<1>2. /\ TypeInv /\ TypeInv' /\ WindowInv /\ FramesInv /\ [ObserversNext]_observersVars
      => WindowInv' /\ FramesInv'
  BY TailerSteps, WindowStays, FramesStay
<1>3. FramesInv => TopFrameIsOwn
  BY DEF FramesInv, TopFrameIsOwn, OwnFrames, ToSet
<1> QED
  BY <1>1, <1>2, <1>3, TailerTypes, PTL DEF ObserversSpec

-----------------------------------------------------------------------------
(***************************************************************************)
(* What a restart skips is all that is skipped: a process that is never    *)
(* started again reads on from where it began, without a gap.              *)
(***************************************************************************)
OneLifeInv ==
  base = 0 =>
    /\ starts = 0 => phase = "down" /\ read = <<>>
    /\ phase # "down" => UpTo(read, HalfAt)
    /\ \E a \in Nat : Stretch(read, a)

LEMMA NoGapInStretch ==
  ASSUME TypeInv, NEW a \in Nat, Stretch(read, a)
  PROVE  NoGap
<1> SUFFICES ASSUME NEW i \in DOMAIN read, i > 1 PROVE read[i] = read[i - 1] + 1
  BY DEF NoGap
<1>1. read \in Seq(Line) /\ DOMAIN read = 1 .. Len(read) /\ Len(read) \in Nat
  BY LenProperties DEF TypeInv, TypeOK
<1>2. i \in Nat /\ i - 1 \in DOMAIN read
  BY <1>1
<1>3. read[i] = a + i /\ read[i - 1] = a + (i - 1)
  BY <1>2 DEF Stretch
<1> QED
  BY <1>2, <1>3

LEMMA OneLifeStart == Init => OneLifeInv
<1> SUFFICES ASSUME Init PROVE OneLifeInv
  OBVIOUS
<1>1. Stretch(read, 0)
  BY DEF Init, Stretch
<1> QED
  BY <1>1 DEF Init, OneLifeInv

LEMMA OneLifeStays ==
  ASSUME MaxStarts \in {0, 1}, TypeInv, TypeInv', WindowInv, OneLifeInv, [Next]_vars
  PROVE  OneLifeInv'
<1> SUFFICES ASSUME base' = 0 PROVE OneLifeInv'
  BY DEF OneLifeInv
<1>0. wrote \in Nat /\ base \in Nat /\ Size = wrote - base /\ starts \in Nat
  BY SizeType DEF TypeInv, TypeOK
<1>1. CASE Read
  <2>1. PICK text, lines, found : ReadOf(text, lines, found)
    BY <1>1, ReadBinds
  <2>2. phase = "reading" /\ base = 0 /\ starts' = starts /\ starts # 0
    BY <1>1 DEF Read, ReadSucceeds, file, OneLifeInv
  <2>3. read' = read \o lines /\ read \in Seq(Line) /\ UpTo(read, HalfAt)
    BY <2>1, <2>2 DEF ReadOf, TypeInv, TypeOK, OneLifeInv
  <2>4. UpTo(read', HalfAt + Complete(text))
    BY <2>1, <2>2, <2>3, LinesGoOn
  <2>5. HalfAt' = HalfAt + Complete(text)
    BY <2>1, <2>2, HalfLineLeft
  <2>6. \E a \in Nat : Stretch(read', a)
    <3>1. read' = <<>> => Stretch(read', 0)
      BY DEF Stretch
    <3> QED
      BY <2>4, <3>1 DEF UpTo
  <2>7. UpTo(read', HalfAt')
    BY <2>4, <2>5 DEF UpTo
  <2> QED
    BY <2>2, <2>6, <2>7 DEF OneLifeInv, UpTo
<1>2. CASE Start
  <2>1. starts = 0 /\ starts' = 1 /\ base = 0 /\ read' = read
    BY <1>0, <1>2 DEF Start, file, ghosts
  <2>2. read' = <<>>
    BY <2>1 DEF OneLifeInv
  <2>3. Stretch(read', 0)
    BY <2>2 DEF Stretch
  <2> QED
    BY <2>1, <2>2, <2>3 DEF OneLifeInv, UpTo
<1>3. CASE EndOfProcess
  <2>1. phase' = "down" /\ UNCHANGED <<base, starts, read>>
    BY <1>3 DEF EndOfProcess, file
  <2> QED
    BY <2>1 DEF OneLifeInv, Stretch
<1>4. CASE Rotate
  <2>1. base' = wrote /\ wrote - base > 0
    BY <1>0, <1>4 DEF Rotate
  <2> QED
    BY <1>0, <2>1
<1>5. CASE Write \/ ReadFails \/ Save \/ Stat \/ UNCHANGED vars
  <2>1. UNCHANGED <<base, starts, read>> /\ (phase' = "down" <=> phase = "down")
    BY <1>5 DEF Write, ReadFails, Save, Stat, file, process, ghosts, vars
  <2>2. cursor' = cursor
    <3>1. CASE Stat
      <4>1. cursor' = AfterStat /\ cursor.offset <= Size /\ cursor.offset \in Nat
        BY <1>0, <2>1, <3>1, SizeType DEF Stat, WindowInv
      <4> QED
        BY <1>0, <4>1 DEF AfterStat
    <3> QED
      BY <1>5, <3>1 DEF Write, ReadFails, Save, process, vars
  <2> QED
    BY <2>1, <2>2 DEF OneLifeInv, UpTo, Stretch, HalfAt
<1> QED
  BY <1>1, <1>2, <1>3, <1>4, <1>5 DEF Next, Poll

\* A process that is started once leaves out no line behind the first that it read, however
\* the polls cut the log: the gap that NoGap is about comes from a restart (start, poll).
THEOREM OneLifeLeavesNothingOut ==
  ASSUME MaxStarts \in {0, 1}
  PROVE  ObserversSpec => []NoGap
<1>1. ObserversInit => WindowInv /\ OneLifeInv
  BY TailerSteps, WindowStart, OneLifeStart
<1>2. /\ TypeInv /\ TypeInv' /\ WindowInv /\ OneLifeInv /\ [ObserversNext]_observersVars
      => WindowInv' /\ OneLifeInv'
  BY TailerSteps, WindowStays, OneLifeStays
<1>3. TypeInv /\ OneLifeInv => NoGap
  BY NoGapInStretch DEF OneLifeInv, NoGap
<1> QED
  BY <1>1, <1>2, <1>3, TailerTypes, PTL DEF ObserversSpec

-----------------------------------------------------------------------------
(***************************************************************************)
(* Recursive functions: there is one if each step leads from a member of A *)
(* to a member of A, and what is led from one place to the next holds at   *)
(* all of them.                                                            *)
(***************************************************************************)
IsRun(f, A, N, a, step) ==
  f \in [0 .. N -> A] /\ f[0] = a /\ \A n \in 1 .. N : f[n] = step[<<n, f[n - 1]>>]

LEMMA Iterates ==
  ASSUME NEW A, NEW N \in Nat, NEW a \in A, NEW step \in [(1 .. N) \X A -> A]
  PROVE  \E f : IsRun(f, A, N, a, step)
<1> DEFINE S == {K \in 0 .. N : ~\E f : IsRun(f, A, K, a, step)}
<1>1. SUFFICES S = {}
  BY DEF S
<1>2. SUFFICES ASSUME S # {} PROVE FALSE
  OBVIOUS
<1>3. PICK K \in S : \A L \in S : K <= L
  <2>1. S \in SUBSET Nat
    OBVIOUS
  <2> HIDE DEF S
  <2> QED
    BY <1>2, <2>1, LeastMember
<1>4. K \in 0 .. N /\ ~\E f : IsRun(f, A, K, a, step)
  OBVIOUS
<1>5. CASE K = 0
  <2>1. IsRun([n \in 0 .. 0 |-> a], A, 0, a, step)
    BY DEF IsRun
  <2> QED
    BY <1>4, <1>5, <2>1
<1>6. CASE K # 0
  <2>1. K - 1 \in 0 .. N /\ ~(K <= K - 1)
    BY <1>4, <1>6
  <2>2. K - 1 \notin S
    BY <1>3, <2>1
  <2>3. PICK f : IsRun(f, A, K - 1, a, step)
    BY <2>1, <2>2
  <2> DEFINE g == [n \in 0 .. K |-> IF n = K THEN step[<<K, f[K - 1]>>] ELSE f[n]]
  <2>4. \A n \in 0 .. K : n # K => n \in 0 .. K - 1
    BY <1>4
  <2>5. K \in 1 .. N /\ f[K - 1] \in A /\ step[<<K, f[K - 1]>>] \in A
    BY <1>4, <1>6, <2>3 DEF IsRun
  <2>6. g \in [0 .. K -> A]
    BY <2>3, <2>4, <2>5 DEF IsRun
  <2>7. g[0] = a
    BY <1>4, <1>6, <2>3 DEF IsRun
  <2>8. ASSUME NEW n \in 1 .. K PROVE g[n] = step[<<n, g[n - 1]>>]
    <3>1. n - 1 \in 0 .. K /\ n - 1 # K /\ n \in 0 .. K
      BY <1>4
    <3>2. g[n - 1] = f[n - 1]
      BY <3>1
    <3>3. CASE n = K
      BY <3>1, <3>2, <3>3
    <3>4. CASE n # K
      <4>1. n \in 1 .. K - 1 /\ g[n] = f[n]
        BY <1>4, <3>1, <3>4
      <4> QED
        BY <2>3, <3>2, <4>1 DEF IsRun
    <3> QED
      BY <3>3, <3>4
  <2>9. IsRun(g, A, K, a, step)
    BY <2>6, <2>7, <2>8 DEF IsRun
  <2> QED
    BY <1>4, <2>9
<1> QED
  BY <1>5, <1>6

LEMMA Climbs ==
  ASSUME NEW N \in Nat, NEW f, NEW A, f[0] \in A[0],
         \A n \in 1 .. N : f[n - 1] \in A[n - 1] => f[n] \in A[n]
  PROVE  \A n \in 0 .. N : f[n] \in A[n]
<1> DEFINE S == {n \in 0 .. N : f[n] \notin A[n]}
<1>1. SUFFICES ASSUME S # {} PROVE FALSE
  OBVIOUS
<1>2. PICK n \in S : \A m \in S : n <= m
  <2>1. S \in SUBSET Nat
    OBVIOUS
  <2> HIDE DEF S
  <2> QED
    BY <1>1, <2>1, LeastMember
<1>3. n # 0 /\ n \in 0 .. N
  OBVIOUS
<1>4. n \in 1 .. N /\ n - 1 \in 0 .. N /\ ~(n <= n - 1)
  BY <1>3
<1>5. f[n - 1] \in A[n - 1]
  BY <1>2, <1>4
<1> QED
  BY <1>4, <1>5

-----------------------------------------------------------------------------
(***************************************************************************)
(* What redaction returns.                                                 *)
(***************************************************************************)
Text == Word \cup Marker

\* The provers do not know that a string literal is in STRING.
Names ==
  STRING \cup {"email", "bearer_token", "jwt_like_token", "api_key_param", "credit_card_like",
               "aws_access_key", "ipv4"}

Installable == [name : Names, find : Seq(SUBSET Text) \ {<<>>}, with : Seq(Text)]

LEMMA StepType ==
  ASSUME NEW pattern \in Installable, NEW text \in Seq(Text), NEW i \in 1 .. Len(text),
         NEW acc \in [out : Seq(Text), skip : Nat]
  PROVE  Step(acc, pattern, text, i) \in [out : Seq(Text), skip : Nat]
<1>1. text[i] \in Text
  BY LenProperties, ElementOfSeq
<1>2. Append(acc.out, text[i]) \in Seq(Text)
  BY <1>1, AppendProperties
<1>3. acc.out \o pattern.with \in Seq(Text)
  BY ConcatProperties DEF Installable
<1>4. Len(pattern.find) - 1 \in Nat
  <2>1. pattern.find \in Seq(SUBSET Text) /\ pattern.find # <<>>
    BY DEF Installable
  <2>2. Len(pattern.find) \in Nat /\ Len(pattern.find) # 0
    BY <2>1, LenProperties, EmptySeq
  <2> QED
    BY <2>2
<1>5. CASE acc.skip > 0
  <2>1. acc.skip - 1 \in Nat
    BY <1>5
  <2> QED
    BY <1>5, <2>1 DEF Step
<1>6. CASE ~(acc.skip > 0)
  BY <1>2, <1>3, <1>4, <1>6 DEF Step
<1> QED
  BY <1>5, <1>6

LEMMA ReplacedType ==
  ASSUME NEW pattern \in Installable, NEW text \in Seq(Text)
  PROVE  Replaced(text, pattern) \in Seq(Text)
<1> DEFINE N == Len(text)
           A == [out : Seq(Text), skip : Nat]
           a == [out |-> <<>>, skip |-> 0]
           step == [x \in (1 .. N) \X A |-> Step(x[2], pattern, text, x[1])]
           F(f) == [i \in 0 .. N |-> IF i = 0 THEN a ELSE Step(f[i - 1], pattern, text, i)]
           g == CHOOSE f : f = F(f)
<1>1. N \in Nat
  BY LenProperties
<1>2. a \in A
  BY EmptySeq
<1>3. \A i \in 1 .. N, acc \in A : Step(acc, pattern, text, i) \in A
  BY StepType
<1> HIDE DEF N, A, a
<1>4. step \in [(1 .. N) \X A -> A]
  BY <1>3
<1>5. PICK f : IsRun(f, A, N, a, step)
  <2> HIDE DEF step
  <2> QED
    BY <1>1, <1>2, <1>4, Iterates
<1>6. f = F(f)
  <2>1. \A n \in 0 .. N : n = 0 \/ (n \in 1 .. N /\ n - 1 \in 0 .. N)
    BY <1>1
  <2>2. \A n \in 1 .. N : f[n] = Step(f[n - 1], pattern, text, n)
    <3> SUFFICES ASSUME NEW n \in 1 .. N PROVE f[n] = Step(f[n - 1], pattern, text, n)
      OBVIOUS
    <3>1. f[n - 1] \in A /\ f[n] = step[<<n, f[n - 1]>>]
      <4>1. n - 1 \in 0 .. N
        BY <1>1
      <4> HIDE DEF step
      <4> QED
        BY <1>5, <4>1 DEF IsRun
    <3> QED
      BY <3>1
  <2>3. f \in [0 .. N -> A] /\ f[0] = a
    BY <1>5 DEF IsRun
  <2> QED
    BY <2>1, <2>2, <2>3
<1>7. g = F(g)
  <2> HIDE DEF F
  <2> QED
    BY <1>6
<1> HIDE DEF g
<1>8. g[0] = a /\ \A n \in 1 .. N : g[n] = Step(g[n - 1], pattern, text, n)
  BY <1>1, <1>7
<1> DEFINE B == [n \in 0 .. N |-> A]
<1>9. \A n \in 0 .. N : g[n] \in B[n]
  <2>1. g[0] \in B[0]
    BY <1>1, <1>2, <1>8
  <2>2. \A n \in 1 .. N : g[n - 1] \in B[n - 1] => g[n] \in B[n]
    <3>1. \A n \in 1 .. N : n \in 0 .. N /\ n - 1 \in 0 .. N
      BY <1>1
    <3> QED
      BY <1>3, <1>8, <3>1
  <2> HIDE DEF B
  <2> QED
    BY <1>1, <2>1, <2>2, Climbs
<1>10. g[N] \in A
  BY <1>1, <1>9
<1>11. Replaced(text, pattern) = g[N].out
  BY DEF Replaced, g, a, N
<1> QED
  BY <1>10, <1>11 DEF A

LEMMA InstallType ==
  ASSUME NEW patterns \in Seq(Installable),
         NEW user \in [name : STRING, find : Seq(SUBSET Text) \ {<<>>}, with : Seq(Text), unsafe : BOOLEAN]
  PROVE  Install(patterns, user) \in Seq(Installable)
<1> DEFINE new == Pattern(user.name, user.find, user.with)
           same == {i \in DOMAIN patterns : patterns[i].name = user.name}
<1>1. new \in Installable
  BY DEF Pattern, Installable, Names
<1>2. Append(patterns, new) \in Seq(Installable)
  BY <1>1, AppendProperties
<1>3. [i \in DOMAIN patterns |-> IF i \in same THEN new ELSE patterns[i]] \in Seq(Installable)
  <2>1. DOMAIN patterns = 1 .. Len(patterns) /\ Len(patterns) \in Nat /\ \A i \in DOMAIN patterns : patterns[i] \in Installable
    BY LenProperties, ElementOfSeq
  <2> HIDE DEF new, same
  <2> QED
    BY <1>1, <2>1
<1> QED
  BY <1>2, <1>3 DEF Install

LEMMA DefaultPatternsType == DefaultPatterns \in Seq(Installable)
<1>1. \A S \in SUBSET Text : <<S>> \in Seq(SUBSET Text) \ {<<>>}
  OBVIOUS
<1>2. \A S, T \in SUBSET Text : <<S, T>> \in Seq(SUBSET Text) \ {<<>>}
  OBVIOUS
<1>3. \A x \in Text : <<x>> \in Seq(Text)
  OBVIOUS
<1>4. \A x, y \in Text : <<x, y>> \in Seq(Text)
  OBVIOUS
<1>5. /\ {"mail"} \in SUBSET Text /\ {"Bearer"} \in SUBSET Text /\ TokenWord \in SUBSET Text
      /\ {"jwt"} \in SUBSET Text /\ {"key="} \in SUBSET Text /\ Text \in SUBSET Text
      /\ {"card"} \in SUBSET Text /\ {"aws"} \in SUBSET Text /\ {"ip"} \in SUBSET Text
  BY DEF Text, Word, TokenWord
<1>6. /\ "[EMAIL]" \in Text /\ "Bearer" \in Text /\ "[TOKEN]" \in Text /\ "[JWT]" \in Text
      /\ "key=" \in Text /\ "[SECRET]" \in Text /\ "[CARD]" \in Text /\ "[AWS_KEY]" \in Text
      /\ "[IP]" \in Text
  BY DEF Text, Word, Marker
<1>7. \A name \in Names, find \in Seq(SUBSET Text) \ {<<>>}, with \in Seq(Text) :
        Pattern(name, find, with) \in Installable
  BY DEF Pattern, Installable
<1>8. /\ Pattern("email", <<{"mail"}>>, <<"[EMAIL]">>) \in Installable
      /\ Pattern("bearer_token", <<{"Bearer"}, TokenWord>>, <<"Bearer", "[TOKEN]">>) \in Installable
      /\ Pattern("jwt_like_token", <<{"jwt"}>>, <<"[JWT]">>) \in Installable
      /\ Pattern("api_key_param", <<{"key="}, Text>>, <<"key=", "[SECRET]">>) \in Installable
      /\ Pattern("credit_card_like", <<{"card"}>>, <<"[CARD]">>) \in Installable
      /\ Pattern("aws_access_key", <<{"aws"}>>, <<"[AWS_KEY]">>) \in Installable
      /\ Pattern("ipv4", <<{"ip"}>>, <<"[IP]">>) \in Installable
  <2> HIDE DEF Text
  <2>1. Pattern("email", <<{"mail"}>>, <<"[EMAIL]">>) \in Installable
    <3>1. <<{"mail"}>> \in Seq(SUBSET Text) \ {<<>>}
      BY <1>1, <1>2, <1>5
    <3>2. <<"[EMAIL]">> \in Seq(Text)
      BY <1>3, <1>4, <1>6
    <3>3. "email" \in Names
      BY DEF Names
    <3> QED
      BY <1>7, <3>1, <3>2, <3>3
  <2>2. Pattern("bearer_token", <<{"Bearer"}, TokenWord>>, <<"Bearer", "[TOKEN]">>) \in Installable
    <3>1. <<{"Bearer"}, TokenWord>> \in Seq(SUBSET Text) \ {<<>>}
      BY <1>1, <1>2, <1>5
    <3>2. <<"Bearer", "[TOKEN]">> \in Seq(Text)
      BY <1>3, <1>4, <1>6
    <3>3. "bearer_token" \in Names
      BY DEF Names
    <3> QED
      BY <1>7, <3>1, <3>2, <3>3
  <2>3. Pattern("jwt_like_token", <<{"jwt"}>>, <<"[JWT]">>) \in Installable
    <3>1. <<{"jwt"}>> \in Seq(SUBSET Text) \ {<<>>}
      BY <1>1, <1>2, <1>5
    <3>2. <<"[JWT]">> \in Seq(Text)
      BY <1>3, <1>4, <1>6
    <3>3. "jwt_like_token" \in Names
      BY DEF Names
    <3> QED
      BY <1>7, <3>1, <3>2, <3>3
  <2>4. Pattern("api_key_param", <<{"key="}, Text>>, <<"key=", "[SECRET]">>) \in Installable
    <3>1. <<{"key="}, Text>> \in Seq(SUBSET Text) \ {<<>>}
      BY <1>1, <1>2, <1>5
    <3>2. <<"key=", "[SECRET]">> \in Seq(Text)
      BY <1>3, <1>4, <1>6
    <3>3. "api_key_param" \in Names
      BY DEF Names
    <3> QED
      BY <1>7, <3>1, <3>2, <3>3
  <2>5. Pattern("credit_card_like", <<{"card"}>>, <<"[CARD]">>) \in Installable
    <3>1. <<{"card"}>> \in Seq(SUBSET Text) \ {<<>>}
      BY <1>1, <1>2, <1>5
    <3>2. <<"[CARD]">> \in Seq(Text)
      BY <1>3, <1>4, <1>6
    <3>3. "credit_card_like" \in Names
      BY DEF Names
    <3> QED
      BY <1>7, <3>1, <3>2, <3>3
  <2>6. Pattern("aws_access_key", <<{"aws"}>>, <<"[AWS_KEY]">>) \in Installable
    <3>1. <<{"aws"}>> \in Seq(SUBSET Text) \ {<<>>}
      BY <1>1, <1>2, <1>5
    <3>2. <<"[AWS_KEY]">> \in Seq(Text)
      BY <1>3, <1>4, <1>6
    <3>3. "aws_access_key" \in Names
      BY DEF Names
    <3> QED
      BY <1>7, <3>1, <3>2, <3>3
  <2>7. Pattern("ipv4", <<{"ip"}>>, <<"[IP]">>) \in Installable
    <3>1. <<{"ip"}>> \in Seq(SUBSET Text) \ {<<>>}
      BY <1>1, <1>2, <1>5
    <3>2. <<"[IP]">> \in Seq(Text)
      BY <1>3, <1>4, <1>6
    <3>3. "ipv4" \in Names
      BY DEF Names
    <3> QED
      BY <1>7, <3>1, <3>2, <3>3
  <2> QED
    BY <2>1, <2>2, <2>3, <2>4, <2>5, <2>6, <2>7
<1>9. \A p1, p2, p3, p4, p5, p6, p7 \in Installable : <<p1, p2, p3, p4, p5, p6, p7>> \in Seq(Installable)
  OBVIOUS
<1> QED
  BY <1>8, <1>9 DEF DefaultPatterns, Text

LEMMA PatternsType == Patterns \in Seq(Installable)
<1> DEFINE N == Len(UserPatterns)
           A == Seq(Installable)
           a == DefaultPatterns
           step == [x \in (1 .. N) \X A |-> Install(x[2], UserPatterns[x[1]])]
           F(f) == [n \in 0 .. N |-> IF n = 0 THEN a ELSE Install(f[n - 1], UserPatterns[n])]
           g == CHOOSE f : f = F(f)
<1>1. N \in Nat
  BY RedactionAssumption, LenProperties
<1>2. a \in A
  BY DefaultPatternsType
<1>3. \A n \in 1 .. N, acc \in A : Install(acc, UserPatterns[n]) \in A
  <2>1. UserPatterns \in Seq([name : STRING, find : Seq(SUBSET Text) \ {<<>>}, with : Seq(Text), unsafe : BOOLEAN])
    BY RedactionAssumption DEF Text
  <2>2. \A n \in 1 .. N : UserPatterns[n] \in [name : STRING, find : Seq(SUBSET Text) \ {<<>>}, with : Seq(Text), unsafe : BOOLEAN]
    BY <2>1, ElementOfSeq
  <2> QED
    BY <2>2, InstallType
<1> HIDE DEF N, A, a
<1>4. step \in [(1 .. N) \X A -> A]
  BY <1>3
<1>5. PICK f : IsRun(f, A, N, a, step)
  <2> HIDE DEF step
  <2> QED
    BY <1>1, <1>2, <1>4, Iterates
<1>6. f = F(f)
  <2>1. \A n \in 0 .. N : n = 0 \/ (n \in 1 .. N /\ n - 1 \in 0 .. N)
    BY <1>1
  <2>2. \A n \in 1 .. N : f[n] = Install(f[n - 1], UserPatterns[n])
    <3> SUFFICES ASSUME NEW n \in 1 .. N PROVE f[n] = Install(f[n - 1], UserPatterns[n])
      OBVIOUS
    <3>1. f[n - 1] \in A /\ f[n] = step[<<n, f[n - 1]>>]
      <4>1. n - 1 \in 0 .. N
        BY <1>1
      <4> HIDE DEF step
      <4> QED
        BY <1>5, <4>1 DEF IsRun
    <3> QED
      BY <3>1
  <2>3. f \in [0 .. N -> A] /\ f[0] = a
    BY <1>5 DEF IsRun
  <2> QED
    BY <2>1, <2>2, <2>3
<1>7. g = F(g)
  <2> HIDE DEF F
  <2> QED
    BY <1>6
<1> HIDE DEF g
<1>8. g[0] = a /\ \A n \in 1 .. N : g[n] = Install(g[n - 1], UserPatterns[n])
  BY <1>1, <1>7
<1> DEFINE B == [n \in 0 .. N |-> A]
<1>9. \A n \in 0 .. N : g[n] \in B[n]
  <2>1. g[0] \in B[0]
    BY <1>1, <1>2, <1>8
  <2>2. \A n \in 1 .. N : g[n - 1] \in B[n - 1] => g[n] \in B[n]
    <3>1. \A n \in 1 .. N : n \in 0 .. N /\ n - 1 \in 0 .. N
      BY <1>1
    <3> QED
      BY <1>3, <1>8, <3>1
  <2> HIDE DEF B
  <2> QED
    BY <1>1, <2>1, <2>2, Climbs
<1>10. g[N] \in A
  BY <1>1, <1>9
<1>11. Patterns = g[N]
  BY DEF Patterns, g, a, N
<1> QED
  BY <1>10, <1>11 DEF A

LEMMA RedactType ==
  ASSUME NEW text \in Seq(Text), NEW count \in 0 .. Len(Patterns)
  PROVE  Redact(text, count) \in Seq(Text)
<1> DEFINE N == count
           A == Seq(Text)
           step == [x \in (1 .. N) \X A |-> Replaced(x[2], Patterns[x[1]])]
           F(f) == [n \in 0 .. N |-> IF n = 0 THEN text ELSE Replaced(f[n - 1], Patterns[n])]
           g == CHOOSE f : f = F(f)
<1>1. N \in Nat /\ N <= Len(Patterns)
  BY PatternsType, LenProperties
<1>2. text \in A
  OBVIOUS
<1>3. \A n \in 1 .. N, acc \in A : Replaced(acc, Patterns[n]) \in A
  <2>1. \A n \in 1 .. N : Patterns[n] \in Installable
    <3>1. \A n \in 1 .. Len(Patterns) : Patterns[n] \in Installable
      BY PatternsType, ElementOfSeq
    <3> QED
      BY <1>1, <3>1, PatternsType, LenProperties
  <2> QED
    BY <2>1, ReplacedType
<1> HIDE DEF N, A
<1>4. step \in [(1 .. N) \X A -> A]
  BY <1>3
<1>5. PICK f : IsRun(f, A, N, text, step)
  <2> HIDE DEF step
  <2> QED
    BY <1>1, <1>2, <1>4, Iterates
<1>6. f = F(f)
  <2>1. \A n \in 0 .. N : n = 0 \/ (n \in 1 .. N /\ n - 1 \in 0 .. N)
    BY <1>1
  <2>2. \A n \in 1 .. N : f[n] = Replaced(f[n - 1], Patterns[n])
    <3> SUFFICES ASSUME NEW n \in 1 .. N PROVE f[n] = Replaced(f[n - 1], Patterns[n])
      OBVIOUS
    <3>1. f[n - 1] \in A /\ f[n] = step[<<n, f[n - 1]>>]
      <4>1. n - 1 \in 0 .. N
        BY <1>1
      <4> HIDE DEF step
      <4> QED
        BY <1>5, <4>1 DEF IsRun
    <3> QED
      BY <3>1
  <2>3. f \in [0 .. N -> A] /\ f[0] = text
    BY <1>5 DEF IsRun
  <2> QED
    BY <2>1, <2>2, <2>3
<1>7. g = F(g)
  <2> HIDE DEF F
  <2> QED
    BY <1>6
<1> HIDE DEF g
<1>8. g[0] = text /\ \A n \in 1 .. N : g[n] = Replaced(g[n - 1], Patterns[n])
  BY <1>1, <1>7
<1> DEFINE B == [n \in 0 .. N |-> A]
<1>9. \A n \in 0 .. N : g[n] \in B[n]
  <2>1. g[0] \in B[0]
    BY <1>1, <1>2, <1>8
  <2>2. \A n \in 1 .. N : g[n - 1] \in B[n - 1] => g[n] \in B[n]
    <3>1. \A n \in 1 .. N : n \in 0 .. N /\ n - 1 \in 0 .. N
      BY <1>1
    <3> QED
      BY <1>3, <1>8, <3>1
  <2> HIDE DEF B
  <2> QED
    BY <1>1, <2>1, <2>2, Climbs
<1>10. g[N] \in A
  BY <1>1, <1>9
<1>11. Redact(text, count) = g[N]
  BY DEF Redact, g, N
<1> QED
  BY <1>10, <1>11 DEF A

-----------------------------------------------------------------------------
(***************************************************************************)
(* The ring buffer.                                                        *)
(***************************************************************************)
\* The one sequence is what the other ends with.
Ending(s, t) ==
  \E k \in Nat : /\ k + Len(s) = Len(t)
                 /\ \A i \in DOMAIN s : k + i \in DOMAIN t /\ s[i] = t[k + i]

LEMMA EndOfEnding ==
  ASSUME NEW S, NEW r \in Seq(S), NEW s, NEW t, Ending(r, s), Ending(s, t)
  PROVE  Ending(r, t)
<1>1. PICK k \in Nat : /\ k + Len(r) = Len(s)
                       /\ \A i \in DOMAIN r : k + i \in DOMAIN s /\ r[i] = s[k + i]
  BY DEF Ending
<1>2. PICK n \in Nat : /\ n + Len(s) = Len(t)
                       /\ \A i \in DOMAIN s : n + i \in DOMAIN t /\ s[i] = t[n + i]
  BY DEF Ending
<1>3. DOMAIN r \subseteq Nat /\ Len(r) \in Nat
  BY LenProperties
<1>4. ASSUME NEW i \in DOMAIN r PROVE (n + k) + i \in DOMAIN t /\ r[i] = t[(n + k) + i]
  <2>1. n + (k + i) = (n + k) + i
    BY <1>3
  <2>2. k + i \in DOMAIN s /\ r[i] = s[k + i]
    BY <1>1
  <2>3. n + (k + i) \in DOMAIN t /\ s[k + i] = t[n + (k + i)]
    BY <1>2, <2>2
  <2> QED
    BY <2>1, <2>2, <2>3
<1>5. n + k \in Nat /\ (n + k) + Len(r) = Len(t)
  BY <1>1, <1>2, <1>3
<1> QED
  BY <1>4, <1>5 DEF Ending

LEMMA FromType ==
  ASSUME NEW S, NEW es \in Seq(S), NEW m \in 1 .. Len(es) + 1
  PROVE  /\ From(es, m) \in Seq(S) /\ Len(From(es, m)) = Len(es) + 1 - m
         /\ Ending(From(es, m), es)
<1> DEFINE l == Len(es)
           r == SubSeq(es, m, l)
<1>1. l \in Nat /\ DOMAIN es = 1 .. l /\ \A i \in 1 .. l : es[i] \in S
  BY LenProperties
<1>2. m \in Nat \ {0} /\ m <= l + 1
  BY <1>1
<1> HIDE DEF l
<1>3. /\ r \in Seq(S) /\ Len(r) = (IF m <= l THEN l - m + 1 ELSE 0)
      /\ \A i \in 1 .. l - m + 1 : r[i] = es[m + i - 1]
  <2>1. m \in Int /\ l \in Int /\ \A i \in m .. l : es[i] \in S
    BY <1>1, <1>2
  <2> QED
    BY <2>1, SubSeqProperties
<1> HIDE DEF r
<1>4. Len(r) = l + 1 - m
  BY <1>1, <1>2, <1>3
<1>5. DOMAIN r = 1 .. Len(r) /\ Len(r) \in Nat
  BY <1>3, LenProperties
<1>6. ASSUME NEW i \in DOMAIN r PROVE (m - 1) + i \in DOMAIN es /\ r[i] = es[(m - 1) + i]
  <2>1. i \in 1 .. l - m + 1
    BY <1>1, <1>2, <1>4, <1>5
  <2>2. (m - 1) + i = m + i - 1 /\ (m - 1) + i \in 1 .. l
    BY <1>1, <1>2, <2>1
  <2> QED
    BY <1>1, <1>3, <2>1, <2>2
<1>7. m - 1 \in Nat /\ (m - 1) + Len(r) = l
  BY <1>1, <1>2, <1>4
<1>8. From(es, m) = r
  BY DEF From, r, l
<1> QED
  BY <1>3, <1>4, <1>6, <1>7, <1>8 DEF Ending, l

\* The entries that are left of a ring whose running count is right.
Young(es, time) ==
  From(es, Min({i \in DOMAIN es : es[i].at + MaxAge >= time} \cup {Len(es) + 1}))

Fitting(es) ==
  From(es, Min({i \in DOMAIN es : i = Len(es) \/ Bytes(From(es, i)) <= MaxBytes} \cup {Len(es) + 1}))

Left(es, time) == Fitting(Young(es, time))

Grown(es, e) == Left(Append(es, e), e.at)

LEMMA YoungType ==
  ASSUME NEW S, NEW es \in Seq(S), NEW time
  PROVE  Young(es, time) \in Seq(S) /\ Ending(Young(es, time), es)
<1> DEFINE P == {i \in DOMAIN es : es[i].at + MaxAge >= time} \cup {Len(es) + 1}
<1>1. Len(es) \in Nat /\ DOMAIN es = 1 .. Len(es)
  BY LenProperties
<1>2. P \in SUBSET Nat /\ P # {} /\ P \subseteq 1 .. Len(es) + 1
  BY <1>1
<1>3. Young(es, time) = From(es, Min(P))
  BY DEF Young
<1> HIDE DEF P
<1>4. Min(P) \in 1 .. Len(es) + 1
  BY <1>2, LeastPlace
<1> QED
  BY <1>3, <1>4, FromType

LEMMA FittingType ==
  ASSUME NEW S, NEW es \in Seq(S)
  PROVE  /\ Fitting(es) \in Seq(S) /\ Ending(Fitting(es), es)
         /\ Len(Fitting(es)) > 1 => Bytes(Fitting(es)) <= MaxBytes
<1> DEFINE P == {i \in DOMAIN es : i = Len(es) \/ Bytes(From(es, i)) <= MaxBytes} \cup {Len(es) + 1}
<1>1. Len(es) \in Nat /\ DOMAIN es = 1 .. Len(es)
  BY LenProperties
<1>2. P \in SUBSET Nat /\ P # {} /\ P \subseteq 1 .. Len(es) + 1
  BY <1>1
<1>3. Fitting(es) = From(es, Min(P))
  BY DEF Fitting
<1>4. \A m \in P : m = Len(es) \/ m = Len(es) + 1 \/ Bytes(From(es, m)) <= MaxBytes
  OBVIOUS
<1> HIDE DEF P
<1>5. Min(P) \in P
  BY <1>2, LeastPlace
<1>6. Min(P) \in 1 .. Len(es) + 1
  BY <1>2, <1>5
<1>7. /\ From(es, Min(P)) \in Seq(S) /\ Len(From(es, Min(P))) = Len(es) + 1 - Min(P)
      /\ Ending(From(es, Min(P)), es)
  BY <1>6, FromType
<1>8. Min(P) = Len(es) \/ Min(P) = Len(es) + 1 => ~(Len(From(es, Min(P))) > 1)
  BY <1>1, <1>7
<1> QED
  BY <1>3, <1>4, <1>5, <1>7, <1>8

LEMMA LeftType ==
  ASSUME NEW S, NEW es \in Seq(S), NEW time
  PROVE  /\ Left(es, time) \in Seq(S) /\ Ending(Left(es, time), es)
         /\ Len(Left(es, time)) > 1 => Bytes(Left(es, time)) <= MaxBytes
<1>1. Young(es, time) \in Seq(S) /\ Ending(Young(es, time), es)
  BY YoungType
<1>2. /\ Left(es, time) \in Seq(S) /\ Ending(Left(es, time), Young(es, time))
      /\ Len(Left(es, time)) > 1 => Bytes(Left(es, time)) <= MaxBytes
  BY <1>1, FittingType DEF Left
<1> QED
  BY <1>1, <1>2, EndOfEnding

\* A push keeps an end of what there was, with the new entry behind it, and the bound.
LEMMA GrownType ==
  ASSUME NEW S, NEW es \in Seq(S), NEW e \in S
  PROVE  /\ Grown(es, e) \in Seq(S) /\ Ending(Grown(es, e), Append(es, e))
         /\ Len(Grown(es, e)) > 1 => Bytes(Grown(es, e)) <= MaxBytes
<1>1. Append(es, e) \in Seq(S)
  BY AppendProperties
<1> QED
  BY <1>1, LeftType DEF Grown

-----------------------------------------------------------------------------
(***************************************************************************)
(* The size of a buffer.                                                   *)
(***************************************************************************)
IsSum(f, es) ==
  f[0] = 0 /\ \A n \in 1 .. Len(es) : f[n] = f[n - 1] + Len(es[n].message) + Overhead

LEMMA MessageType ==
  ASSUME NEW e \in LogEntry
  PROVE  Len(e.message) \in Nat /\ e.at \in Nat /\ Overhead \in Nat
<1>1. e.message \in Seq(Word \cup Marker) /\ e.at \in Nat
  BY DEF LogEntry
<1> QED
  BY <1>1, LenProperties, RingBufferAssumption

LEMMA BytesSum ==
  ASSUME NEW es \in Seq(LogEntry)
  PROVE  \E f : IsSum(f, es) /\ (\A n \in 0 .. Len(es) : f[n] \in Nat) /\ Bytes(es) = f[Len(es)]
<1> DEFINE N == Len(es)
           step == [x \in (1 .. N) \X Nat |-> x[2] + Len(es[x[1]].message) + Overhead]
           F(f) == [n \in 0 .. N |-> IF n = 0 THEN 0 ELSE f[n - 1] + Len(es[n].message) + Overhead]
           g == CHOOSE f : f = F(f)
<1>1. N \in Nat /\ 0 \in Nat
  BY LenProperties
<1>2. \A n \in 1 .. N, sum \in Nat : sum + Len(es[n].message) + Overhead \in Nat
  <2>1. \A n \in 1 .. N : es[n] \in LogEntry
    BY ElementOfSeq
  <2>2. \A n \in 1 .. N : Len(es[n].message) \in Nat /\ Overhead \in Nat
    BY <2>1, MessageType, RingBufferAssumption
  <2> QED
    BY <2>2
<1> HIDE DEF N
<1>3. step \in [(1 .. N) \X Nat -> Nat]
  BY <1>2
<1>4. PICK f : IsRun(f, Nat, N, 0, step)
  <2> HIDE DEF step
  <2> QED
    BY <1>1, <1>3, Iterates
<1>5. f = F(f)
  <2>1. \A n \in 0 .. N : n = 0 \/ (n \in 1 .. N /\ n - 1 \in 0 .. N)
    BY <1>1
  <2>2. \A n \in 1 .. N : f[n] = f[n - 1] + Len(es[n].message) + Overhead
    <3> SUFFICES ASSUME NEW n \in 1 .. N PROVE f[n] = f[n - 1] + Len(es[n].message) + Overhead
      OBVIOUS
    <3>1. f[n - 1] \in Nat /\ f[n] = step[<<n, f[n - 1]>>]
      <4>1. n - 1 \in 0 .. N
        BY <1>1
      <4> HIDE DEF step
      <4> QED
        BY <1>4, <4>1 DEF IsRun
    <3> QED
      BY <3>1
  <2>3. f \in [0 .. N -> Nat] /\ f[0] = 0
    BY <1>4 DEF IsRun
  <2> QED
    BY <2>1, <2>2, <2>3
<1>6. g = F(g)
  <2> HIDE DEF F
  <2> QED
    BY <1>5
<1> HIDE DEF g
<1>7. g[0] = 0 /\ \A n \in 1 .. N : g[n] = g[n - 1] + Len(es[n].message) + Overhead
  BY <1>1, <1>6
<1>8. IsSum(g, es)
  BY <1>7 DEF IsSum, N
<1> DEFINE A == [n \in 0 .. N |-> Nat]
<1>9. \A n \in 0 .. N : g[n] \in A[n]
  <2>1. g[0] \in A[0]
    BY <1>1, <1>7
  <2>2. \A n \in 1 .. N : g[n - 1] \in A[n - 1] => g[n] \in A[n]
    <3>1. \A n \in 1 .. N : n \in 0 .. N /\ n - 1 \in 0 .. N
      BY <1>1
    <3> QED
      BY <1>2, <1>7, <3>1
  <2> HIDE DEF A
  <2> QED
    BY <1>1, <2>1, <2>2, Climbs
<1>10. \A n \in 0 .. N : g[n] \in Nat
  BY <1>9
<1>11. Bytes(es) = g[N]
  BY DEF Bytes, g, N
<1> QED
  BY <1>8, <1>10, <1>11 DEF N

\* An end of a buffer is not larger than the buffer.
LEMMA BytesOfEnd ==
  ASSUME NEW es \in Seq(LogEntry), NEW r \in Seq(LogEntry), Ending(r, es)
  PROVE  Bytes(r) \in Nat /\ Bytes(es) \in Nat /\ Bytes(r) <= Bytes(es)
<1>1. PICK f : IsSum(f, es) /\ (\A n \in 0 .. Len(es) : f[n] \in Nat) /\ Bytes(es) = f[Len(es)]
  BY BytesSum
<1>2. PICK g : IsSum(g, r) /\ (\A n \in 0 .. Len(r) : g[n] \in Nat) /\ Bytes(r) = g[Len(r)]
  BY BytesSum
<1>3. PICK k \in Nat : /\ k + Len(r) = Len(es)
                       /\ \A i \in DOMAIN r : k + i \in DOMAIN es /\ r[i] = es[k + i]
  BY DEF Ending
<1>4. /\ Len(es) \in Nat /\ DOMAIN es = 1 .. Len(es) /\ Len(r) \in Nat /\ DOMAIN r = 1 .. Len(r)
      /\ \A i \in 1 .. Len(r) : r[i] \in LogEntry
  BY LenProperties, ElementOfSeq
<1> DEFINE A == [n \in 0 .. Len(r) |-> {x \in Nat : x <= f[k + n]}]
<1>5. g[0] \in A[0]
  <2>1. k + 0 \in 0 .. Len(es) /\ 0 \in 0 .. Len(r)
    BY <1>3, <1>4
  <2>2. f[k + 0] \in Nat
    BY <1>1, <2>1
  <2> QED
    BY <1>2, <2>1, <2>2 DEF IsSum
<1>6. \A n \in 1 .. Len(r) : g[n - 1] \in A[n - 1] => g[n] \in A[n]
  <2> SUFFICES ASSUME NEW n \in 1 .. Len(r), g[n - 1] \in A[n - 1] PROVE g[n] \in A[n]
    OBVIOUS
  <2>1. /\ n \in 0 .. Len(r) /\ n - 1 \in 0 .. Len(r)
        /\ k + n \in 1 .. Len(es) /\ k + n \in 0 .. Len(es) /\ k + (n - 1) \in 0 .. Len(es)
        /\ (k + n) - 1 = k + (n - 1) /\ n \in DOMAIN r
    BY <1>3, <1>4
  <2>2. g[n - 1] <= f[k + (n - 1)] /\ g[n - 1] \in Nat /\ f[k + (n - 1)] \in Nat
    BY <1>1, <2>1
  <2> DEFINE w == Len(r[n].message)
  <2>3. w \in Nat /\ Overhead \in Nat
    BY <1>4, MessageType
  <2>4. g[n] = g[n - 1] + w + Overhead
    BY <1>2 DEF IsSum
  <2>5. f[k + n] = f[k + (n - 1)] + w + Overhead
    <3>1. f[k + n] = f[(k + n) - 1] + Len(es[k + n].message) + Overhead
      BY <1>1, <2>1 DEF IsSum
    <3>2. es[k + n] = r[n]
      BY <1>3, <2>1
    <3> QED
      BY <2>1, <3>1, <3>2
  <2> HIDE DEF w
  <2>6. g[n] \in Nat /\ g[n] <= f[k + n]
    BY <2>2, <2>3, <2>4, <2>5
  <2> QED
    BY <2>1, <2>6
<1>7. \A n \in 0 .. Len(r) : g[n] \in A[n]
  <2> HIDE DEF A
  <2> QED
    BY <1>4, <1>5, <1>6, Climbs
<1>8. Len(r) \in 0 .. Len(r) /\ Len(es) \in 0 .. Len(es)
  BY <1>4
<1>9. g[Len(r)] <= f[k + Len(r)]
  BY <1>7, <1>8
<1> QED
  BY <1>1, <1>2, <1>3, <1>8, <1>9

LEMMA BytesAppended ==
  ASSUME NEW es \in Seq(LogEntry), NEW e \in LogEntry
  PROVE  Bytes(Append(es, e)) = Bytes(es) + Len(e.message) + Overhead
<1> DEFINE a == Append(es, e)
<1>1. /\ a \in Seq(LogEntry) /\ Len(a) = Len(es) + 1 /\ Len(es) \in Nat
      /\ \A i \in 1 .. Len(es) : a[i] = es[i]
      /\ a[Len(es) + 1] = e
  BY AppendProperties, LenProperties
<1> HIDE DEF a
<1>2. PICK f : IsSum(f, es) /\ Bytes(es) = f[Len(es)]
  BY BytesSum
<1>3. PICK g : IsSum(g, a) /\ Bytes(a) = g[Len(a)]
  BY <1>1, BytesSum
<1> DEFINE A == [n \in 0 .. Len(es) |-> {f[n]}]
<1>4. g[0] \in A[0]
  BY <1>1, <1>2, <1>3 DEF IsSum
<1>5. \A n \in 1 .. Len(es) : g[n - 1] \in A[n - 1] => g[n] \in A[n]
  <2> SUFFICES ASSUME NEW n \in 1 .. Len(es), g[n - 1] \in A[n - 1] PROVE g[n] \in A[n]
    OBVIOUS
  <2>1. n \in 0 .. Len(es) /\ n - 1 \in 0 .. Len(es) /\ n \in 1 .. Len(a)
    BY <1>1
  <2>2. g[n - 1] = f[n - 1]
    BY <2>1
  <2>3. /\ g[n] = g[n - 1] + Len(a[n].message) + Overhead
        /\ f[n] = f[n - 1] + Len(es[n].message) + Overhead
    BY <1>2, <1>3, <2>1 DEF IsSum
  <2>4. g[n] = f[n]
    BY <1>1, <2>2, <2>3
  <2> QED
    BY <2>1, <2>4
<1>6. \A n \in 0 .. Len(es) : g[n] \in A[n]
  <2> HIDE DEF A
  <2> QED
    BY <1>1, <1>4, <1>5, Climbs
<1>7. g[Len(es)] = f[Len(es)]
  BY <1>1, <1>6
<1>8. Len(es) + 1 \in 1 .. Len(a) /\ (Len(es) + 1) - 1 = Len(es)
  BY <1>1
<1>9. g[Len(es) + 1] = g[(Len(es) + 1) - 1] + Len(a[Len(es) + 1].message) + Overhead
  BY <1>3, <1>8 DEF IsSum
<1> QED
  BY <1>1, <1>2, <1>3, <1>7, <1>8, <1>9 DEF a

LEMMA BytesOfNothing == Bytes(<<>>) = 0
<1>1. <<>> \in Seq(LogEntry) /\ Len(<<>>) = 0
  BY EmptySeq
<1>2. PICK f : IsSum(f, <<>>) /\ Bytes(<<>>) = f[Len(<<>>)]
  BY <1>1, BytesSum
<1> QED
  BY <1>1, <1>2 DEF IsSum

\* What is shifted out and what stays make up the buffer.
PartOf(r, es, k) == k + Len(r) <= Len(es) /\ \A j \in 1 .. Len(r) : r[j] = es[k + j]

IsNatSum(f, es) == IsSum(f, es) /\ \A n \in 0 .. Len(es) : f[n] \in Nat

LEMMA SumOfPart ==
  ASSUME NEW es \in Seq(LogEntry), NEW r \in Seq(LogEntry), NEW k \in Nat, PartOf(r, es, k),
         NEW f, IsNatSum(f, es), NEW g, IsNatSum(g, r)
  PROVE  f[k] + g[Len(r)] = f[k + Len(r)]
<1>0. /\ k + Len(r) <= Len(es) /\ \A j \in 1 .. Len(r) : r[j] = es[k + j]
      /\ IsSum(f, es) /\ \A n \in 0 .. Len(es) : f[n] \in Nat
      /\ IsSum(g, r) /\ \A n \in 0 .. Len(r) : g[n] \in Nat
  BY DEF PartOf, IsNatSum
<1>1. /\ Len(es) \in Nat /\ Len(r) \in Nat
      /\ \A i \in 1 .. Len(r) : r[i] \in LogEntry
  BY LenProperties, ElementOfSeq
<1> DEFINE A == [n \in 0 .. Len(r) |-> {x \in Nat : f[k] + x = f[k + n]}]
<1>2. g[0] \in A[0]
  <2>1. k + 0 = k /\ k \in 0 .. Len(es) /\ 0 \in 0 .. Len(r)
    BY <1>0, <1>1
  <2>2. f[k] \in Nat
    BY <1>0, <2>1
  <2>3. g[0] = 0
    BY <1>0 DEF IsSum
  <2>4. f[k] + 0 = f[k + 0]
    BY <2>1, <2>2
  <2> QED
    BY <2>1, <2>3, <2>4
<1>3. \A n \in 1 .. Len(r) : g[n - 1] \in A[n - 1] => g[n] \in A[n]
  <2> SUFFICES ASSUME NEW n \in 1 .. Len(r), g[n - 1] \in A[n - 1] PROVE g[n] \in A[n]
    OBVIOUS
  <2>1. /\ n \in 0 .. Len(r) /\ n - 1 \in 0 .. Len(r)
        /\ k + n \in 1 .. Len(es) /\ k \in 0 .. Len(es) /\ k + (n - 1) \in 0 .. Len(es)
        /\ (k + n) - 1 = k + (n - 1)
    BY <1>0, <1>1
  <2>2. f[k] + g[n - 1] = f[k + (n - 1)] /\ g[n - 1] \in Nat /\ f[k + (n - 1)] \in Nat /\ f[k] \in Nat
    BY <1>0, <2>1
  <2> DEFINE w == Len(r[n].message)
  <2>3. w \in Nat /\ Overhead \in Nat
    BY <1>1, MessageType
  <2>4. g[n] = g[n - 1] + w + Overhead
    BY <1>0 DEF IsSum
  <2>5. f[k + n] = f[k + (n - 1)] + w + Overhead
    <3>1. f[k + n] = f[(k + n) - 1] + Len(es[k + n].message) + Overhead
      BY <1>0, <2>1 DEF IsSum
    <3>2. es[k + n] = r[n]
      BY <1>0
    <3> QED
      BY <2>1, <3>1, <3>2
  <2> HIDE DEF w
  <2>6. g[n] \in Nat /\ f[k] + g[n] = f[k + n]
    <3>1. \A x, y, z, u \in Nat : x + y = z => x + (y + u + Overhead) = z + u + Overhead
      BY <2>3
    <3>2. f[k] + (g[n - 1] + w + Overhead) = f[k + (n - 1)] + w + Overhead
      BY <2>2, <2>3, <3>1
    <3>3. g[n - 1] + w + Overhead \in Nat
      BY <2>2, <2>3
    <3> QED
      BY <2>4, <2>5, <3>2, <3>3
  <2> QED
    BY <2>1, <2>6
<1>4. \A n \in 0 .. Len(r) : g[n] \in A[n]
  <2> HIDE DEF A
  <2> QED
    BY <1>1, <1>2, <1>3, Climbs
<1>5. Len(r) \in 0 .. Len(r)
  BY <1>1
<1> QED
  BY <1>4, <1>5

LEMMA BytesOfParts ==
  ASSUME NEW es \in Seq(LogEntry), NEW m \in 1 .. Len(es) + 1
  PROVE  /\ Bytes(es) \in Nat /\ Bytes(SubSeq(es, 1, m - 1)) \in Nat /\ Bytes(From(es, m)) \in Nat
         /\ Bytes(es) - Bytes(SubSeq(es, 1, m - 1)) = Bytes(From(es, m))
<1> DEFINE h == SubSeq(es, 1, m - 1)
           r == From(es, m)
<1>1. Len(es) \in Nat /\ DOMAIN es = 1 .. Len(es) /\ m \in Nat \ {0} /\ m - 1 \in 0 .. Len(es)
  BY LenProperties
<1>2. h \in Seq(LogEntry) /\ Len(h) = m - 1 /\ \A j \in 1 .. m - 1 : h[j] = es[j]
  BY <1>1, CutInTwo
<1>3. r \in Seq(LogEntry) /\ Len(r) = Len(es) + 1 - m /\ \A j \in 1 .. Len(r) : r[j] = es[(m - 1) + j]
  <2>1. r \in Seq(LogEntry) /\ Len(r) = Len(es) + 1 - m
    BY FromType
  <2>2. m \in Int /\ Len(es) \in Int /\ \A i \in m .. Len(es) : es[i] \in LogEntry
    <3>1. \A i \in m .. Len(es) : i \in 1 .. Len(es)
      BY <1>1
    <3> QED
      BY <1>1, <3>1, ElementOfSeq
  <2>3. \A j \in 1 .. Len(es) - m + 1 : SubSeq(es, m, Len(es))[j] = es[m + j - 1]
    BY <2>2, SubSeqProperties
  <2>4. ASSUME NEW j \in 1 .. Len(r) PROVE r[j] = es[(m - 1) + j]
    <3>1. j \in 1 .. Len(es) - m + 1 /\ m + j - 1 = (m - 1) + j
      BY <1>1, <2>1
    <3> QED
      BY <2>3, <3>1 DEF From
  <2> QED
    BY <2>1, <2>4
<1> HIDE DEF h, r
<1>4. PICK f : IsNatSum(f, es) /\ Bytes(es) = f[Len(es)]
  BY BytesSum DEF IsNatSum
<1>5. PICK g : IsNatSum(g, h) /\ Bytes(h) = g[Len(h)]
  BY <1>2, BytesSum DEF IsNatSum
<1>6. PICK e : IsNatSum(e, r) /\ Bytes(r) = e[Len(r)]
  BY <1>3, BytesSum DEF IsNatSum
<1>7. f[0] + g[Len(h)] = f[0 + Len(h)]
  <2>1. 0 \in Nat /\ PartOf(h, es, 0)
    BY <1>1, <1>2 DEF PartOf
  <2> QED
    BY <1>2, <1>4, <1>5, <2>1, SumOfPart
<1>8. f[m - 1] + e[Len(r)] = f[(m - 1) + Len(r)]
  <2>1. m - 1 \in Nat /\ PartOf(r, es, m - 1)
    BY <1>1, <1>3 DEF PartOf
  <2> QED
    BY <1>3, <1>4, <1>6, <2>1, SumOfPart
<1>9. (m - 1) + Len(r) = Len(es) /\ 0 + Len(h) = m - 1
  BY <1>1, <1>2, <1>3
<1>10. Bytes(es) \in Nat /\ Bytes(h) \in Nat /\ Bytes(r) \in Nat
  <2>1. Len(es) \in 0 .. Len(es) /\ Len(h) \in 0 .. Len(h) /\ Len(r) \in 0 .. Len(r)
    BY <1>1, <1>2, <1>3
  <2> QED
    BY <1>4, <1>5, <1>6, <2>1 DEF IsNatSum
<1>11. f[0] = 0 /\ f[m - 1] \in Nat
  BY <1>1, <1>4 DEF IsSum, IsNatSum
<1>12. Bytes(h) = f[m - 1]
  <2>1. f[0 + Len(h)] = f[m - 1] /\ 0 + g[Len(h)] = f[0 + Len(h)]
    BY <1>7, <1>9, <1>11
  <2>2. 0 + Bytes(h) = Bytes(h)
    BY <1>10
  <2> QED
    BY <1>5, <2>1, <2>2
<1>13. Bytes(h) + Bytes(r) = Bytes(es)
  BY <1>4, <1>6, <1>8, <1>9, <1>12
<1>14. Bytes(es) - Bytes(h) = Bytes(r)
  BY <1>10, <1>13
<1> QED
  BY <1>10, <1>14 DEF h, r

\* The ring whose running count is right.
RingOf(es) == [entries |-> es, bytes |-> Bytes(es)]

\* It stays right however much is shifted out.
LEMMA ShiftedRing ==
  ASSUME NEW es \in Seq(LogEntry), NEW m \in 1 .. Len(es) + 1
  PROVE  ShiftedTo(RingOf(es), m) = RingOf(From(es, m))
<1>1. RingOf(es).entries = es /\ RingOf(es).bytes = Bytes(es)
  BY DEF RingOf
<1>2. Bytes(es) - Bytes(SubSeq(es, 1, m - 1)) = Bytes(From(es, m))
  BY BytesOfParts
<1> QED
  BY <1>1, <1>2 DEF ShiftedTo, RingOf

LEMMA PrunedRing ==
  ASSUME NEW es \in Seq(LogEntry), NEW time
  PROVE  Pruned(RingOf(es), time) = RingOf(Left(es, time))
<1> DEFINE P == {i \in DOMAIN es : es[i].at + MaxAge >= time} \cup {Len(es) + 1}
<1>1. Len(es) \in Nat /\ DOMAIN es = 1 .. Len(es)
  BY LenProperties
<1>2. P \in SUBSET Nat /\ P # {} /\ P \subseteq 1 .. Len(es) + 1
  BY <1>1
<1>3. RingOf(es).entries = es
  BY DEF RingOf
<1>4. OfAge(RingOf(es), time) = ShiftedTo(RingOf(es), Min(P)) /\ Young(es, time) = From(es, Min(P))
  BY <1>3 DEF OfAge, Young
<1> HIDE DEF P
<1>5. Min(P) \in 1 .. Len(es) + 1
  BY <1>2, LeastPlace
<1> DEFINE r == Young(es, time)
<1>6. OfAge(RingOf(es), time) = RingOf(r) /\ r \in Seq(LogEntry)
  BY <1>4, <1>5, ShiftedRing, FromType
<1> HIDE DEF r
<1> DEFINE Q == {i \in DOMAIN r : i = Len(r) \/ Bytes(From(r, i)) <= MaxBytes} \cup {Len(r) + 1}
<1>7. Len(r) \in Nat /\ DOMAIN r = 1 .. Len(r)
  BY <1>6, LenProperties
<1>8. RingOf(r).entries = r
  BY DEF RingOf
<1>9. {i \in DOMAIN r : i = Len(r) \/ ShiftedTo(RingOf(r), i).bytes <= MaxBytes} \cup {Len(r) + 1} = Q
  <2>1. ASSUME NEW i \in DOMAIN r PROVE ShiftedTo(RingOf(r), i).bytes = Bytes(From(r, i))
    <3>1. i \in 1 .. Len(r) + 1
      BY <1>7
    <3>2. ShiftedTo(RingOf(r), i) = RingOf(From(r, i))
      BY <1>6, <3>1, ShiftedRing
    <3> QED
      BY <3>2 DEF RingOf
  <2> QED
    BY <2>1
<1>10. OfSize(RingOf(r)) = ShiftedTo(RingOf(r), Min(Q)) /\ Fitting(r) = From(r, Min(Q))
  BY <1>8, <1>9 DEF OfSize, Fitting
<1>11. Q \in SUBSET Nat /\ Q # {} /\ Q \subseteq 1 .. Len(r) + 1
  BY <1>7
<1> HIDE DEF Q
<1>12. Min(Q) \in 1 .. Len(r) + 1
  BY <1>11, LeastPlace
<1>13. OfSize(RingOf(r)) = RingOf(Fitting(r))
  BY <1>6, <1>10, <1>12, ShiftedRing
<1> QED
  BY <1>6, <1>13 DEF Pruned, Left, r

LEMMA PushedRing ==
  ASSUME NEW es \in Seq(LogEntry), NEW e \in LogEntry
  PROVE  Push(RingOf(es), e) = RingOf(Grown(es, e))
<1> DEFINE a == Append(es, e)
<1>1. RingOf(es).entries = es /\ RingOf(es).bytes = Bytes(es)
  BY DEF RingOf
<1>2. a \in Seq(LogEntry) /\ Bytes(a) = Bytes(es) + Len(e.message) + Overhead
  BY AppendProperties, BytesAppended
<1>3. Push(RingOf(es), e) = Pruned(RingOf(a), e.at)
  BY <1>1, <1>2 DEF Push, RingOf
<1> HIDE DEF a
<1>4. Pruned(RingOf(a), e.at) = RingOf(Left(a, e.at))
  BY <1>2, PrunedRing
<1> QED
  BY <1>3, <1>4 DEF Grown, a

-----------------------------------------------------------------------------
(***************************************************************************)
(* The excerpt of the buffer.                                              *)
(***************************************************************************)
\* The one entry is the other, with what was left of its message.
CutOf(o, e) ==
  /\ o.piece = e.piece /\ o.all = e.all
  /\ \A i \in DOMAIN o.message : \E j \in DOMAIN e.message : o.message[i] = e.message[j]

LEMMA KeepingType ==
  ASSUME NEW G \in SUBSET LogEntry, \A x \in G, y \in LogEntry : CutOf(y, x) => y \in G,
         NEW acc \in [out : Seq(G), left : Nat], NEW e \in G
  PROVE  Keeping(acc, e) \in [out : Seq(G), left : Nat]
<1> DEFINE m == Min({Len(e.message), acc.left})
           kept == SubSeq(e.message, 1, m)
           o == [e EXCEPT !.message = kept]
<1>1. e \in LogEntry /\ e.message \in Seq(Text) /\ Len(e.message) \in Nat /\ acc.left \in Nat
  <2>1. e \in LogEntry
    OBVIOUS
  <2>2. e.message \in Seq(Text)
    BY <2>1 DEF LogEntry, Text
  <2> QED
    BY <2>1, <2>2, LenProperties
<1>2. m \in Nat /\ m <= Len(e.message) /\ m <= acc.left
  <2>1. {Len(e.message), acc.left} \in SUBSET Nat
    BY <1>1
  <2>2. m \in {Len(e.message), acc.left} /\ \A x \in {Len(e.message), acc.left} : m <= x
    BY <2>1, LeastPlace
  <2> QED
    BY <1>1, <2>2
<1> HIDE DEF m
<1>3. m \in 0 .. Len(e.message)
  BY <1>1, <1>2
<1>4. kept \in Seq(Text) /\ Len(kept) = m /\ \A i \in 1 .. m : kept[i] = e.message[i]
  BY <1>1, <1>3, CutInTwo
<1> HIDE DEF kept
<1>5. o \in LogEntry /\ o.message = kept /\ o.piece = e.piece /\ o.all = e.all
  BY <1>1, <1>4 DEF LogEntry, Text
<1>6. CutOf(o, e)
  <2>1. DOMAIN kept = 1 .. m /\ DOMAIN e.message = 1 .. Len(e.message)
    BY <1>1, <1>4, LenProperties
  <2>2. \A i \in 1 .. m : i \in 1 .. Len(e.message)
    BY <1>1, <1>2
  <2> HIDE DEF o
  <2> QED
    BY <1>4, <1>5, <2>1, <2>2 DEF CutOf
<1> HIDE DEF o
<1>7. o \in G
  BY <1>5, <1>6
<1>8. acc.left - Len(kept) \in Nat
  BY <1>1, <1>2, <1>4
<1>9. Append(acc.out, o) \in Seq(G)
  BY <1>7, AppendProperties
<1>10. Keeping(acc, e) \in {acc, [out |-> Append(acc.out, o), left |-> acc.left - Len(kept)]}
  BY DEF Keeping, o, kept, m
<1> QED
  BY <1>8, <1>9, <1>10

\* What holds of nothing, and of what is kept of one entry more, holds of the cut.
LEMMA CutSteps ==
  ASSUME NEW es \in Seq(LogEntry), NEW B, [out |-> <<>>, left |-> MaxChars] \in B[0],
         \A n \in 1 .. Len(es) : \A acc \in [out : Seq(LogEntry), left : Nat] :
           acc \in B[n - 1] => Keeping(acc, es[n]) \in B[n]
  PROVE  \E acc \in B[Len(es)] : Cut(es) = acc.out
<1> DEFINE N == Len(es)
           A == [out : Seq(LogEntry), left : Nat]
           a == [out |-> <<>>, left |-> MaxChars]
           step == [x \in (1 .. N) \X A |-> Keeping(x[2], es[x[1]])]
           F(f) == [n \in 0 .. N |-> IF n = 0 THEN a ELSE Keeping(f[n - 1], es[n])]
           g == CHOOSE f : f = F(f)
<1>1. N \in Nat
  BY LenProperties
<1>2. a \in A
  <2>1. <<>> \in Seq(LogEntry)
    BY EmptySeq
  <2> QED
    BY <2>1, RingBufferAssumption
<1>3. \A n \in 1 .. N, acc \in A : Keeping(acc, es[n]) \in A
  <2>1. \A n \in 1 .. N : es[n] \in LogEntry
    BY ElementOfSeq
  <2>2. LogEntry \in SUBSET LogEntry /\ \A x \in LogEntry, y \in LogEntry : CutOf(y, x) => y \in LogEntry
    OBVIOUS
  <2> QED
    BY <2>1, <2>2, KeepingType
<1> HIDE DEF N, A, a
<1>4. step \in [(1 .. N) \X A -> A]
  BY <1>3
<1>5. PICK f : IsRun(f, A, N, a, step)
  <2> HIDE DEF step
  <2> QED
    BY <1>1, <1>2, <1>4, Iterates
<1>6. f = F(f)
  <2>1. \A n \in 0 .. N : n = 0 \/ (n \in 1 .. N /\ n - 1 \in 0 .. N)
    BY <1>1
  <2>2. \A n \in 1 .. N : f[n] = Keeping(f[n - 1], es[n])
    <3> SUFFICES ASSUME NEW n \in 1 .. N PROVE f[n] = Keeping(f[n - 1], es[n])
      OBVIOUS
    <3>1. f[n - 1] \in A /\ f[n] = step[<<n, f[n - 1]>>]
      <4>1. n - 1 \in 0 .. N
        BY <1>1
      <4> HIDE DEF step
      <4> QED
        BY <1>5, <4>1 DEF IsRun
    <3> QED
      BY <3>1
  <2>3. f \in [0 .. N -> A] /\ f[0] = a
    BY <1>5 DEF IsRun
  <2> QED
    BY <2>1, <2>2, <2>3
<1>7. g = F(g)
  <2> HIDE DEF F
  <2> QED
    BY <1>6
<1> HIDE DEF g
<1>8. g[0] = a /\ \A n \in 1 .. N : g[n] = Keeping(g[n - 1], es[n])
  BY <1>1, <1>7
<1>9. \A n \in 0 .. N : g[n] \in A
  <2> DEFINE C == [n \in 0 .. N |-> A]
  <2>1. g[0] \in C[0]
    BY <1>1, <1>2, <1>8
  <2>2. \A n \in 1 .. N : g[n - 1] \in C[n - 1] => g[n] \in C[n]
    <3>1. \A n \in 1 .. N : n \in 0 .. N /\ n - 1 \in 0 .. N
      BY <1>1
    <3> QED
      BY <1>3, <1>8, <3>1
  <2> HIDE DEF C
  <2>3. \A n \in 0 .. N : g[n] \in C[n]
    BY <1>1, <2>1, <2>2, Climbs
  <2> QED
    BY <2>3 DEF C
<1>10. \A n \in 0 .. N : g[n] \in B[n]
  <2>1. g[0] \in B[0]
    BY <1>8 DEF a
  <2>2. \A n \in 1 .. N : g[n - 1] \in B[n - 1] => g[n] \in B[n]
    <3>1. \A n \in 1 .. N : n - 1 \in 0 .. N
      BY <1>1
    <3> QED
      BY <1>8, <1>9, <3>1 DEF N, A
  <2> QED
    BY <1>1, <2>1, <2>2, Climbs
<1>11. g[N] \in B[N]
  BY <1>1, <1>10
<1>12. Cut(es) = g[N].out
  BY DEF Cut, g, a, N
<1> QED
  BY <1>11, <1>12 DEF N

LEMMA CutType ==
  ASSUME NEW G \in SUBSET LogEntry, \A x \in G, y \in LogEntry : CutOf(y, x) => y \in G,
         NEW es \in Seq(G)
  PROVE  Cut(es) \in Seq(G)
<1> DEFINE A == [out : Seq(G), left : Nat]
           B == [n \in 0 .. Len(es) |-> A]
<1>1. Len(es) \in Nat /\ es \in Seq(LogEntry)
  BY LenProperties
<1>2. [out |-> <<>>, left |-> MaxChars] \in A
  BY EmptySeq, RingBufferAssumption
<1>3. \A n \in 1 .. Len(es) : \A acc \in A : Keeping(acc, es[n]) \in A
  <2>1. \A n \in 1 .. Len(es) : es[n] \in G
    BY ElementOfSeq
  <2> QED
    BY <2>1, KeepingType
<1>4. \A n \in 1 .. Len(es) : n - 1 \in 0 .. Len(es) /\ n \in 0 .. Len(es)
  BY <1>1
<1>5. 0 \in 0 .. Len(es) /\ Len(es) \in 0 .. Len(es)
  BY <1>1
<1>6. /\ [out |-> <<>>, left |-> MaxChars] \in B[0]
      /\ \A n \in 1 .. Len(es) : \A acc \in [out : Seq(LogEntry), left : Nat] :
           acc \in B[n - 1] => Keeping(acc, es[n]) \in B[n]
      /\ \A acc \in B[Len(es)] : acc.out \in Seq(G)
  <2>1. \A acc \in A : acc.out \in Seq(G)
    OBVIOUS
  <2> HIDE DEF A
  <2> QED
    BY <1>2, <1>3, <1>4, <1>5, <2>1
<1> HIDE DEF B
<1>7. \E acc \in B[Len(es)] : Cut(es) = acc.out
  BY <1>1, <1>6, CutSteps
<1> QED
  BY <1>6, <1>7

\* An excerpt has entries of the buffer, whole or cut.
LEMMA ExcerptType ==
  ASSUME NEW G \in SUBSET LogEntry, \A x \in G, y \in LogEntry : CutOf(y, x) => y \in G,
         NEW es \in Seq(G), NEW from, NEW to
  PROVE  Excerpt(RingOf(es), from, to) \in Seq(G)
<1> DEFINE pruned == Left(es, to)
           P == {i \in DOMAIN pruned : InWindow(pruned[i], from, to)}
<1>1. pruned \in Seq(G)
  BY LeftType
<1>2. Pruned(RingOf(es), to).entries = pruned
  <2>1. es \in Seq(LogEntry)
    OBVIOUS
  <2>2. Pruned(RingOf(es), to) = RingOf(pruned)
    BY <2>1, PrunedRing DEF pruned
  <2>3. RingOf(pruned).entries = pruned
    BY DEF RingOf
  <2> QED
    BY <2>2, <2>3
<1> HIDE DEF pruned
<1>3. P \in SUBSET (DOMAIN pruned)
  OBVIOUS
<1> HIDE DEF P
<1>4. Selected(pruned, P) \in Seq(G)
  BY <1>1, <1>3, SelectedType
<1>5. Inside(pruned, from, to) \in Seq(G)
  BY <1>4 DEF Inside, P
<1>6. Cut(Inside(pruned, from, to)) \in Seq(G)
  BY <1>5, CutType
<1> QED
  BY <1>2, <1>6 DEF Excerpt

-----------------------------------------------------------------------------
(***************************************************************************)
(* The pieces of a chunk on their way into the buffer.                     *)
(***************************************************************************)
\* A piece has at least one word of its line.
WholeWords == {p \in Piece : p.from \in 1 .. p.to /\ p.to <= Len(Written[p.line].words)}

LEMMA WrittenType ==
  /\ Len(Written) \in Nat /\ DOMAIN Written = 1 .. Len(Written)
  /\ \A l \in DOMAIN Written :
       /\ Written[l].words \in Seq(Word) /\ Written[l].words \in Seq(Text)
       /\ Len(Written[l].words) \in Nat /\ DOMAIN Written[l].words = 1 .. Len(Written[l].words)
       /\ Written[l].stream \in Streams
<1> DEFINE L == [stream : Streams, words : Seq(Word), kind : Blocks!Kinds, err : Nat]
<1>1. Written \in Seq(L)
  BY WrapperAssumption
<1> HIDE DEF L
<1>2. Len(Written) \in Nat /\ DOMAIN Written = 1 .. Len(Written) /\ \A l \in DOMAIN Written : Written[l] \in L
  BY <1>1, LenProperties, ElementOfSeq
<1>3. ASSUME NEW l \in DOMAIN Written
      PROVE  /\ Written[l].words \in Seq(Word) /\ Written[l].words \in Seq(Text)
             /\ Len(Written[l].words) \in Nat /\ DOMAIN Written[l].words = 1 .. Len(Written[l].words)
             /\ Written[l].stream \in Streams
  <2>1. Written[l].words \in Seq(Word) /\ Written[l].stream \in Streams
    BY <1>2 DEF L
  <2>2. Word \subseteq Text
    BY DEF Text
  <2>3. Written[l].words \in Seq(Text)
    BY <2>1, <2>2, SeqMonotonic
  <2> QED
    BY <2>1, <2>3, LenProperties
<1> QED
  BY <1>2, <1>3

LEMMA EntryOfType ==
  ASSUME clock \in Nat, NEW piece \in WholeWords, NEW count \in RedactsUpTo
  PROVE  EntryOf(piece, count) \in LogEntry
<1> DEFINE ws == Written[piece.line].words
<1>1. piece \in Piece /\ piece.line \in DOMAIN Written
  BY DEF WholeWords, Piece
<1>2. ws \in Seq(Text) /\ Len(ws) \in Nat
  BY <1>1, WrittenType
<1>3. piece.from \in Nat /\ piece.to \in Nat /\ piece.from >= 1 /\ piece.to <= Len(ws)
  BY <1>1 DEF WholeWords, Piece
<1> HIDE DEF ws
<1>4. SubSeq(ws, piece.from, piece.to) \in Seq(Text)
  <2>1. \A i \in piece.from .. piece.to : i \in 1 .. Len(ws)
    BY <1>2, <1>3
  <2>2. \A i \in piece.from .. piece.to : ws[i] \in Text
    BY <1>2, <2>1, LenProperties, ElementOfSeq
  <2>3. piece.from \in Int /\ piece.to \in Int
    BY <1>3
  <2> QED
    BY <2>2, <2>3, SubSeqProperties
<1>5. count \in 0 .. Len(Patterns)
  BY WrapperAssumption
<1>6. Redact(WordsOf(piece), count) \in Seq(Text)
  BY <1>4, <1>5, RedactType DEF WordsOf, ws
<1> QED
  BY <1>1, <1>6 DEF EntryOf, LogEntry, Text

\* The buffer after the pieces.
Filled(pieces, count) == Buffered(pieces, count).entries

\* What holds of the buffer before the pieces, and from each piece to the next, holds
\* after; and so does that its count is right.
LEMMA BufferedSteps ==
  ASSUME clock \in Nat, NEW pieces \in Seq(WholeWords), NEW count \in RedactsUpTo,
         entries \in Seq(LogEntry), bytes = Bytes(entries), NEW A, entries \in A[0],
         \A n \in 1 .. Len(pieces) : \A b \in Seq(LogEntry) :
           b \in A[n - 1] => Grown(b, EntryOf(pieces[n], count)) \in A[n]
  PROVE  /\ Filled(pieces, count) \in A[Len(pieces)]
         /\ Buffered(pieces, count) = RingOf(Filled(pieces, count))
<1> DEFINE N == Len(pieces)
           E == {RingOf(b) : b \in Seq(LogEntry)}
           a == [entries |-> entries, bytes |-> bytes]
           step == [x \in (1 .. N) \X E |-> Push(x[2], EntryOf(pieces[x[1]], count))]
           F(f) == [n \in 0 .. N |-> IF n = 0 THEN a ELSE Push(f[n - 1], EntryOf(pieces[n], count))]
           g == CHOOSE f : f = F(f)
<1>1. N \in Nat
  BY LenProperties
<1>2. a = RingOf(entries) /\ a \in E
  BY DEF RingOf
<1>3. ASSUME NEW n \in 1 .. N, NEW b \in Seq(LogEntry)
      PROVE  /\ Push(RingOf(b), EntryOf(pieces[n], count)) = RingOf(Grown(b, EntryOf(pieces[n], count)))
             /\ Grown(b, EntryOf(pieces[n], count)) \in Seq(LogEntry)
  <2>1. pieces[n] \in WholeWords
    BY ElementOfSeq
  <2>2. EntryOf(pieces[n], count) \in LogEntry
    BY <2>1, EntryOfType
  <2> QED
    BY <2>2, GrownType, PushedRing
<1>4. \A n \in 1 .. N : \A b \in Seq(LogEntry) : b \in A[n - 1] => Grown(b, EntryOf(pieces[n], count)) \in A[n]
  OBVIOUS
<1> HIDE DEF N
<1>5. step \in [(1 .. N) \X E -> E]
  <2>1. \A n \in 1 .. N, b \in E : Push(b, EntryOf(pieces[n], count)) \in E
    BY <1>3
  <2> HIDE DEF E
  <2> QED
    BY <2>1
<1>6. PICK f : IsRun(f, E, N, a, step)
  <2> HIDE DEF step, E, a
  <2> QED
    BY <1>1, <1>2, <1>5, Iterates
<1>7. f = F(f)
  <2> HIDE DEF E, a
  <2>1. \A n \in 0 .. N : n = 0 \/ (n \in 1 .. N /\ n - 1 \in 0 .. N)
    BY <1>1
  <2>2. \A n \in 1 .. N : f[n] = Push(f[n - 1], EntryOf(pieces[n], count))
    <3> SUFFICES ASSUME NEW n \in 1 .. N PROVE f[n] = Push(f[n - 1], EntryOf(pieces[n], count))
      OBVIOUS
    <3>1. f[n - 1] \in E /\ f[n] = step[<<n, f[n - 1]>>]
      <4>1. n - 1 \in 0 .. N
        BY <1>1
      <4> HIDE DEF step
      <4> QED
        BY <1>6, <4>1 DEF IsRun
    <3> QED
      BY <3>1
  <2>3. f \in [0 .. N -> E] /\ f[0] = a
    BY <1>6 DEF IsRun
  <2> QED
    BY <2>1, <2>2, <2>3
<1>8. g = F(g)
  <2> HIDE DEF F
  <2> QED
    BY <1>7
<1> HIDE DEF g
<1>9. g[0] = RingOf(entries) /\ \A n \in 1 .. N : g[n] = Push(g[n - 1], EntryOf(pieces[n], count))
  <2>1. g[0] = a /\ \A n \in 1 .. N : g[n] = Push(g[n - 1], EntryOf(pieces[n], count))
    <3> HIDE DEF a
    <3> QED
      BY <1>1, <1>8
  <2> QED
    BY <1>2, <2>1
<1> DEFINE B == [n \in 0 .. N |-> {RingOf(b) : b \in Seq(LogEntry) \cap A[n]}]
<1>10. \A n \in 0 .. N : g[n] \in B[n]
  <2>1. g[0] \in B[0]
    <3>1. 0 \in 0 .. N /\ entries \in Seq(LogEntry) \cap A[0]
      BY <1>1
    <3> QED
      BY <1>9, <3>1
  <2>2. ASSUME NEW n \in 1 .. N, g[n - 1] \in B[n - 1] PROVE g[n] \in B[n]
    <3>1. n \in 0 .. N /\ n - 1 \in 0 .. N
      BY <1>1
    <3>2. PICK b \in Seq(LogEntry) \cap A[n - 1] : g[n - 1] = RingOf(b)
      BY <2>2, <3>1
    <3> DEFINE c == Grown(b, EntryOf(pieces[n], count))
    <3>3. c \in Seq(LogEntry) \cap A[n]
      BY <1>3, <1>4, <3>2
    <3>4. g[n] = RingOf(c)
      BY <1>3, <1>9, <3>2
    <3> HIDE DEF c
    <3> QED
      BY <3>1, <3>3, <3>4
  <2> HIDE DEF B
  <2> QED
    BY <1>1, <2>1, <2>2, Climbs
<1>11. PICK b \in Seq(LogEntry) \cap A[N] : g[N] = RingOf(b)
  BY <1>1, <1>10
<1>12. Buffered(pieces, count) = g[N]
  BY DEF Buffered, g, N
<1>13. Filled(pieces, count) = b
  BY <1>11, <1>12 DEF Filled, RingOf
<1> QED
  BY <1>11, <1>12, <1>13 DEF N

LEMMA WordCountType ==
  ASSUME NEW pieces \in Seq(WholeWords)
  PROVE  WordCount(pieces) \in Nat
<1> DEFINE N == Len(pieces)
           step == [x \in (1 .. N) \X Nat |-> x[2] + pieces[x[1]].to + 1 - pieces[x[1]].from]
           F(f) == [n \in 0 .. N |-> IF n = 0 THEN 0 ELSE f[n - 1] + pieces[n].to + 1 - pieces[n].from]
           g == CHOOSE f : f = F(f)
<1>1. N \in Nat /\ 0 \in Nat
  BY LenProperties
<1>2. \A n \in 1 .. N, sum \in Nat : sum + pieces[n].to + 1 - pieces[n].from \in Nat
  <2>1. \A n \in 1 .. N : pieces[n] \in WholeWords
    BY ElementOfSeq
  <2>2. \A n \in 1 .. N : pieces[n].to \in Nat /\ pieces[n].from \in Nat /\ pieces[n].from <= pieces[n].to
    BY <2>1 DEF WholeWords, Piece
  <2> QED
    BY <2>2
<1> HIDE DEF N
<1>3. step \in [(1 .. N) \X Nat -> Nat]
  BY <1>2
<1>4. PICK f : IsRun(f, Nat, N, 0, step)
  <2> HIDE DEF step
  <2> QED
    BY <1>1, <1>3, Iterates
<1>5. f = F(f)
  <2>1. \A n \in 0 .. N : n = 0 \/ (n \in 1 .. N /\ n - 1 \in 0 .. N)
    BY <1>1
  <2>2. \A n \in 1 .. N : f[n] = f[n - 1] + pieces[n].to + 1 - pieces[n].from
    <3> SUFFICES ASSUME NEW n \in 1 .. N PROVE f[n] = f[n - 1] + pieces[n].to + 1 - pieces[n].from
      OBVIOUS
    <3>1. f[n - 1] \in Nat /\ f[n] = step[<<n, f[n - 1]>>]
      <4>1. n - 1 \in 0 .. N
        BY <1>1
      <4> HIDE DEF step
      <4> QED
        BY <1>4, <4>1 DEF IsRun
    <3> QED
      BY <3>1
  <2>3. f \in [0 .. N -> Nat] /\ f[0] = 0
    BY <1>4 DEF IsRun
  <2> QED
    BY <2>1, <2>2, <2>3
<1>6. g = F(g)
  <2> HIDE DEF F
  <2> QED
    BY <1>5
<1> HIDE DEF g
<1>7. g[0] = 0 /\ \A n \in 1 .. N : g[n] = g[n - 1] + pieces[n].to + 1 - pieces[n].from
  BY <1>1, <1>6
<1> DEFINE B == [n \in 0 .. N |-> Nat]
<1>8. \A n \in 0 .. N : g[n] \in B[n]
  <2>1. g[0] \in B[0]
    BY <1>1, <1>7
  <2>2. \A n \in 1 .. N : g[n - 1] \in B[n - 1] => g[n] \in B[n]
    <3>1. \A n \in 1 .. N : n \in 0 .. N /\ n - 1 \in 0 .. N
      BY <1>1
    <3> QED
      BY <1>2, <1>7, <3>1
  <2> HIDE DEF B
  <2> QED
    BY <1>1, <2>1, <2>2, Climbs
<1>9. g[N] \in Nat
  BY <1>1, <1>8
<1>10. WordCount(pieces) = g[N]
  BY DEF WordCount, g, N
<1> QED
  BY <1>9, <1>10

-----------------------------------------------------------------------------
(***************************************************************************)
(* The bytes of a pipe: those of each line, and then its newline, follow   *)
(* one another, and of one line to the next they ascend.                   *)
(***************************************************************************)
ByteOf(s) ==
  {b \in (DOMAIN Written) \X Nat :
     b[2] <= Len(Written[b[1]].words) /\ Written[b[1]].stream = s}

\* The byte with which a line begins.
IsFirst(b) == b = NextByte(b[1], 0)

Follows(b, c) ==
  IF b[2] = Newline THEN b[1] < c[1] /\ IsFirst(c) ELSE c = NextByte(b[1], b[2])

Chained(t) == \A i \in DOMAIN t : i + 1 \in DOMAIN t => Follows(t[i], t[i + 1])

\* The program wrote the one byte before the other.
Less(b, c) == b[1] < c[1] \/ (b[1] = c[1] /\ b[2] # Newline /\ (c[2] = Newline \/ b[2] < c[2]))

LEMMA ByteParts ==
  ASSUME NEW s, NEW b \in ByteOf(s)
  PROVE  /\ b = <<b[1], b[2]>> /\ b[1] \in DOMAIN Written /\ b[1] \in Nat /\ b[2] \in Nat
         /\ Len(Written[b[1]].words) \in Nat /\ b[2] <= Len(Written[b[1]].words)
         /\ Written[b[1]].stream = s
<1> QED
  BY WrittenType DEF ByteOf

LEMMA LessGoesOn ==
  ASSUME NEW s, NEW b \in ByteOf(s), NEW c \in ByteOf(s), NEW d \in ByteOf(s),
         Less(b, c), Less(c, d)
  PROVE  Less(b, d)
<1>1. /\ b[1] \in Nat /\ c[1] \in Nat /\ d[1] \in Nat
      /\ b[2] \in Nat /\ c[2] \in Nat /\ d[2] \in Nat
  BY ByteParts
<1> QED
  BY <1>1 DEF Less

LEMMA FollowsLess ==
  ASSUME NEW s, NEW b \in ByteOf(s), NEW c \in ByteOf(s), Follows(b, c)
  PROVE  Less(b, c)
<1>1. CASE b[2] = Newline
  BY <1>1 DEF Follows, Less
<1>2. CASE b[2] # Newline
  <2>1. c = NextByte(b[1], b[2]) /\ b[2] \in Nat
    BY <1>2, ByteParts DEF Follows
  <2>2. c[1] = b[1] /\ c[2] \in {b[2] + 1, Newline}
    BY <2>1 DEF NextByte
  <2> QED
    BY <1>2, <2>1, <2>2 DEF Less
<1> QED
  BY <1>1, <1>2

LEMMA ChainOrder ==
  ASSUME NEW s, NEW t \in Seq(ByteOf(s)), Chained(t), NEW i \in DOMAIN t, NEW j \in DOMAIN t, i < j
  PROVE  Less(t[i], t[j])
<1>1. /\ Len(t) \in Nat /\ DOMAIN t = 1 .. Len(t) /\ i \in Nat /\ j \in Nat
      /\ \A k \in DOMAIN t : t[k] \in ByteOf(s)
  BY LenProperties, ElementOfSeq
<1> DEFINE S == {k \in i + 1 .. Len(t) : ~Less(t[i], t[k])}
<1>2. SUFFICES ASSUME S # {} PROVE FALSE
  BY <1>1
<1>3. PICK k \in S : \A l \in S : k <= l
  <2>1. S \in SUBSET Nat
    BY <1>1
  <2> HIDE DEF S
  <2> QED
    BY <1>2, <2>1, LeastMember
<1>4. k \in i + 1 .. Len(t) /\ ~Less(t[i], t[k])
  BY <1>3
<1>5. k - 1 \in DOMAIN t /\ k \in DOMAIN t /\ (k - 1) + 1 = k /\ ~(k <= k - 1)
  BY <1>1, <1>4
<1>6. Less(t[k - 1], t[k])
  <2>1. Follows(t[k - 1], t[k])
    BY <1>5 DEF Chained
  <2> QED
    BY <1>1, <1>5, <2>1, FollowsLess
<1>7. CASE k - 1 = i
  BY <1>4, <1>6, <1>7
<1>8. CASE k - 1 # i
  <2>1. k - 1 \in i + 1 .. Len(t)
    BY <1>1, <1>4, <1>8
  <2>2. Less(t[i], t[k - 1])
    BY <1>3, <1>5, <2>1
  <2> QED
    BY <1>1, <1>4, <1>5, <1>6, <2>2, LessGoesOn
<1> QED
  BY <1>7, <1>8

\* The end of the words that begin at a place.
EndOfWords(text, i) == Min({j \in i .. Len(text) : j = Len(text) \/ IsEnd(text[j + 1])})

LEMMA WordsFollow ==
  ASSUME NEW s, NEW t \in Seq(ByteOf(s)), Chained(t), NEW i \in DOMAIN t, ~IsEnd(t[i])
  PROVE  /\ EndOfWords(t, i) \in i .. Len(t)
         /\ EndOfWords(t, i) = Len(t) \/ IsEnd(t[EndOfWords(t, i) + 1])
         /\ \A j \in i .. EndOfWords(t, i) : t[j] = <<t[i][1], t[i][2] + (j - i)>> /\ ~IsEnd(t[j])
<1> DEFINE P == {j \in i .. Len(t) : j = Len(t) \/ IsEnd(t[j + 1])}
           k == EndOfWords(t, i)
           Right(j) == t[j] = <<t[i][1], t[i][2] + (j - i)>> /\ ~IsEnd(t[j])
           S == {j \in i .. k : ~Right(j)}
<1>1. /\ Len(t) \in Nat /\ DOMAIN t = 1 .. Len(t) /\ i \in Nat \ {0} /\ i <= Len(t)
      /\ \A j \in DOMAIN t : t[j] \in ByteOf(s)
  BY LenProperties, ElementOfSeq
<1>2. k \in P /\ \A j \in P : k <= j
  <2>1. P \in SUBSET Nat /\ Len(t) \in P
    BY <1>1
  <2>2. k = Min(P)
    BY DEF EndOfWords
  <2> HIDE DEF P, k
  <2> QED
    BY <2>1, <2>2, LeastPlace
<1>3. k \in i .. Len(t) /\ (k = Len(t) \/ IsEnd(t[k + 1]))
  BY <1>2
<1>4. \A j \in i .. Len(t) : j < k => j # Len(t) /\ ~IsEnd(t[j + 1])
  <2> SUFFICES ASSUME NEW j \in i .. Len(t), j < k PROVE j \notin P
    OBVIOUS
  <2> HIDE DEF P
  <2>1. ~(k <= j)
    BY <1>1, <1>3
  <2> QED
    BY <1>2, <2>1
<1> HIDE DEF P, k
<1>5. S = {}
  <2>1. SUFFICES ASSUME S # {} PROVE FALSE
    OBVIOUS
  <2>2. PICK j \in S : \A l \in S : j <= l
    <3> HIDE DEF Right
    <3>1. S \in SUBSET Nat
      <4>1. k \in i .. Len(t) /\ i \in Nat /\ Len(t) \in Nat
        BY <1>1, <1>3
      <4>2. \A j \in i .. k : j \in Nat
        BY <4>1
      <4>3. \A j \in S : j \in Nat
        BY <4>2
      <4> HIDE DEF S
      <4> QED
        BY <4>3
    <3> HIDE DEF S
    <3> QED
      BY <2>1, <3>1, LeastMember
  <2>3. j \in i .. k /\ ~Right(j)
    BY <2>2
  <2>4. j # i
    <3>1. t[i] = <<t[i][1], t[i][2] + (i - i)>>
      <4>1. t[i] = <<t[i][1], t[i][2]>> /\ t[i][2] \in Nat
        BY <1>1, ByteParts
      <4>2. t[i][2] + (i - i) = t[i][2]
        BY <1>1, <4>1
      <4> QED
        BY <4>1, <4>2
    <3> QED
      BY <2>3, <3>1
  <2>5. /\ j - 1 \in i .. k /\ j - 1 < k /\ j - 1 \in i .. Len(t) /\ ~(j <= j - 1)
        /\ (j - 1) + 1 = j /\ j \in DOMAIN t /\ j - 1 \in DOMAIN t
    <3> HIDE DEF Right, S
    <3>1. j \in i .. k /\ k \in i .. Len(t)
      BY <1>3, <2>3
    <3>2. j \in Nat /\ k \in Nat /\ i <= j /\ j <= k /\ k <= Len(t) /\ i < j
      BY <1>1, <2>4, <3>1
    <3>3. j - 1 \in Nat /\ i <= j - 1 /\ j - 1 < k /\ ~(j <= j - 1) /\ (j - 1) + 1 = j /\ 1 <= j - 1
      BY <1>1, <3>2
    <3> QED
      BY <1>1, <3>2, <3>3
  <2>6. Right(j - 1)
    <3>1. j - 1 \notin S
      BY <2>2, <2>5
    <3> HIDE DEF Right
    <3> QED
      BY <2>5, <3>1
  <2>7. ~IsEnd(t[j])
    BY <1>4, <2>5
  <2>8. t[j] = NextByte(t[j - 1][1], t[j - 1][2])
    <3>1. Follows(t[j - 1], t[j])
      BY <2>5 DEF Chained
    <3> QED
      BY <2>6, <3>1 DEF Follows, IsEnd
  <2>9. t[j] = <<t[j - 1][1], t[j - 1][2] + 1>>
    BY <2>7, <2>8 DEF NextByte, IsEnd
  <2>10. t[j - 1][1] = t[i][1] /\ t[j - 1][2] = t[i][2] + ((j - 1) - i)
    BY <2>6
  <2>11. t[i][2] \in Nat /\ (t[i][2] + ((j - 1) - i)) + 1 = t[i][2] + (j - i)
    <3>1. t[i][2] \in Nat
      BY <1>1, ByteParts
    <3> QED
      BY <1>1, <2>5, <3>1
  <2> QED
    BY <2>3, <2>7, <2>9, <2>10, <2>11
<1>6. \A j \in i .. k : Right(j)
  <2> HIDE DEF Right
  <2> QED
    BY <1>5
<1> QED
  BY <1>3, <1>6 DEF k

-----------------------------------------------------------------------------
(***************************************************************************)
(* The pieces of a chained text: each holds words that follow one another, *)
(* and they are in order.                                                  *)
(***************************************************************************)
StartsAt(t, i) == ~IsEnd(t[i]) /\ (i = 1 \/ IsEnd(t[i - 1]))

PieceAt(t, i) == [line |-> t[i][1], from |-> t[i][2], to |-> t[EndOfWords(t, i)][2]]

\* The one piece was written before the other.
PieceBefore(p, q) == p.line < q.line \/ (p.line = q.line /\ p.to < q.from)

\* The piece has the words between two places of t.
PieceFrom(t, p, i, k) ==
  /\ i \in DOMAIN t /\ k \in DOMAIN t /\ i <= k
  /\ t[i] = <<p.line, p.from>> /\ t[k] = <<p.line, p.to>> /\ ~IsEnd(t[k])
  /\ i = 1 \/ p.from = 1
  /\ k = Len(t) \/ p.to = Len(Written[p.line].words)

LEMMA PieceAtType ==
  ASSUME NEW s, NEW t \in Seq(ByteOf(s)), Chained(t), NEW i \in DOMAIN t, StartsAt(t, i)
  PROVE  PieceAt(t, i) \in WholeWords /\ PieceFrom(t, PieceAt(t, i), i, EndOfWords(t, i))
<1> DEFINE k == EndOfWords(t, i)
           p == PieceAt(t, i)
           l == t[i][1]
           w == t[i][2]
<1>1. /\ Len(t) \in Nat /\ DOMAIN t = 1 .. Len(t) /\ i \in Nat \ {0} /\ i <= Len(t)
      /\ \A j \in DOMAIN t : t[j] \in ByteOf(s)
  BY LenProperties, ElementOfSeq
<1>2. /\ k \in i .. Len(t) /\ (k = Len(t) \/ IsEnd(t[k + 1]))
      /\ \A j \in i .. k : t[j] = <<l, w + (j - i)>> /\ ~IsEnd(t[j])
  BY WordsFollow DEF StartsAt
<1>3. k \in Nat /\ i <= k /\ k <= Len(t) /\ k \in DOMAIN t /\ k \in i .. k
  BY <1>1, <1>2
<1>4. /\ t[i] = <<l, w>> /\ l \in DOMAIN Written /\ w \in Nat /\ w # 0 /\ Len(Written[l].words) \in Nat
  <2>1. t[i] = <<t[i][1], t[i][2]>> /\ t[i][1] \in DOMAIN Written /\ t[i][2] \in Nat
        /\ Len(Written[t[i][1]].words) \in Nat
    BY <1>1, ByteParts
  <2> QED
    BY <2>1 DEF StartsAt, IsEnd, Newline
<1>5. t[k] = <<l, w + (k - i)>> /\ ~IsEnd(t[k])
  BY <1>2, <1>3
<1>6. t[k][2] = w + (k - i) /\ t[k][2] \in Nat /\ t[k][2] <= Len(Written[l].words) /\ t[k] = <<l, t[k][2]>>
  <2>1. t[k] = <<t[k][1], t[k][2]>> /\ t[k][2] \in Nat /\ t[k][2] <= Len(Written[t[k][1]].words)
    BY <1>1, <1>3, ByteParts
  <2>2. t[k][1] = l /\ t[k][2] = w + (k - i)
    BY <1>5
  <2> QED
    BY <2>1, <2>2
<1>7. p = [line |-> l, from |-> w, to |-> t[k][2]]
  BY DEF PieceAt
<1>8. p.line = l /\ p.from = w /\ p.to = t[k][2]
  BY <1>7
<1> HIDE DEF l, w, k
<1>9. p \in WholeWords
  <2>1. p \in Piece
    BY <1>4, <1>6, <1>7 DEF Piece
  <2>2. w \in 1 .. t[k][2]
    BY <1>1, <1>3, <1>4, <1>6
  <2> HIDE DEF p
  <2> QED
    BY <1>6, <1>8, <2>1, <2>2 DEF WholeWords
<1>10. i = 1 \/ w = 1
  <2>1. SUFFICES ASSUME i # 1 PROVE w = 1
    OBVIOUS
  <2>2. i - 1 \in DOMAIN t /\ (i - 1) + 1 = i /\ IsEnd(t[i - 1])
    BY <1>1, <2>1 DEF StartsAt
  <2>3. Follows(t[i - 1], t[i])
    BY <2>2 DEF Chained
  <2>4. t[i] = NextByte(t[i][1], 0)
    BY <2>2, <2>3 DEF Follows, IsEnd, IsFirst
  <2>5. w = (IF 0 < Len(Written[l].words) THEN 0 + 1 ELSE Newline)
    BY <2>4 DEF NextByte, w, l
  <2> QED
    BY <1>4, <2>5 DEF Newline
<1>11. k = Len(t) \/ t[k][2] = Len(Written[l].words)
  <2>1. SUFFICES ASSUME k # Len(t) PROVE t[k][2] = Len(Written[l].words)
    OBVIOUS
  <2>2. IsEnd(t[k + 1]) /\ k + 1 \in DOMAIN t
    <3>1. IsEnd(t[k + 1])
      BY <1>2, <2>1
    <3>2. k + 1 \in 1 .. Len(t)
      <4>1. k \in Nat /\ k <= Len(t) /\ k # Len(t) /\ Len(t) \in Nat
        BY <1>1, <1>3, <2>1
      <4> QED
        BY <4>1
    <3> QED
      BY <1>1, <3>1, <3>2
  <2>3. Follows(t[k], t[k + 1])
    BY <1>3, <2>2 DEF Chained
  <2>4. t[k + 1] = NextByte(t[k][1], t[k][2])
    BY <1>5, <2>3 DEF Follows, IsEnd
  <2>5. t[k][1] = l
    BY <1>6
  <2>6. t[k + 1][2] = (IF t[k][2] < Len(Written[l].words) THEN t[k][2] + 1 ELSE Newline)
    BY <2>4, <2>5 DEF NextByte
  <2>7. t[k + 1][2] = 0
    BY <2>2 DEF IsEnd, Newline
  <2>8. ~(t[k][2] < Len(Written[l].words))
    BY <1>6, <2>6, <2>7
  <2> QED
    BY <1>4, <1>6, <2>8
<1>12. PieceFrom(t, p, i, k)
  <2> HIDE DEF p
  <2> QED
    BY <1>1, <1>3, <1>4, <1>5, <1>6, <1>8, <1>10, <1>11 DEF PieceFrom
<1> QED
  BY <1>9, <1>12 DEF k

LEMMA PieceAtOrder ==
  ASSUME NEW s, NEW t \in Seq(ByteOf(s)), Chained(t), NEW i \in DOMAIN t, NEW j \in DOMAIN t, i < j,
         StartsAt(t, i), StartsAt(t, j)
  PROVE  PieceBefore(PieceAt(t, i), PieceAt(t, j))
<1> DEFINE k == EndOfWords(t, i)
           p == PieceAt(t, i)
           q == PieceAt(t, j)
<1>1. /\ Len(t) \in Nat /\ DOMAIN t = 1 .. Len(t) /\ i \in Nat \ {0} /\ j \in Nat \ {0}
      /\ \A n \in DOMAIN t : t[n] \in ByteOf(s)
  BY LenProperties, ElementOfSeq
<1>2. k \in i .. Len(t) /\ \A n \in i .. k : ~IsEnd(t[n])
  BY WordsFollow DEF StartsAt
<1>3. k < j
  <2> SUFFICES ASSUME j <= k PROVE FALSE
    BY <1>1, <1>2
  <2>1. j - 1 \in i .. k /\ j # 1
    BY <1>1, <1>2
  <2> QED
    BY <1>2, <2>1 DEF StartsAt
<1>4. k \in DOMAIN t
  BY <1>1, <1>2
<1>5. PieceFrom(t, p, i, k) /\ PieceFrom(t, q, j, EndOfWords(t, j))
  BY PieceAtType
<1>6. t[k] = <<p.line, p.to>> /\ ~IsEnd(t[k]) /\ t[j] = <<q.line, q.from>> /\ ~IsEnd(t[j])
  <2>1. ~IsEnd(t[j])
    BY DEF StartsAt
  <2> QED
    BY <1>5, <2>1 DEF PieceFrom
<1>7. Less(t[k], t[j])
  BY <1>1, <1>3, <1>4, ChainOrder DEF k
<1>8. t[k][1] = p.line /\ t[k][2] = p.to /\ t[j][1] = q.line /\ t[j][2] = q.from
  BY <1>6
<1> HIDE DEF p, q, k
<1>9. PieceBefore(p, q)
  BY <1>6, <1>7, <1>8 DEF PieceBefore, Less, IsEnd
<1> QED
  BY <1>9 DEF p, q

\* A witness: the places at which the pieces begin.
PiecesAt(t, ps, f) ==
  /\ f \in [DOMAIN ps -> DOMAIN t]
  /\ \A n \in DOMAIN ps : StartsAt(t, f[n]) /\ ps[n] = PieceAt(t, f[n])
  /\ \A m, n \in DOMAIN ps : m < n => f[m] < f[n]

LEMMA PiecesType ==
  ASSUME NEW s, NEW t \in Seq(ByteOf(s)), Chained(t)
  PROVE  Pieces(t) \in Seq(WholeWords) /\ \E f : PiecesAt(t, Pieces(t), f)
<1> DEFINE P == {i \in DOMAIN t : StartsAt(t, i)}
           g == [i \in DOMAIN t |-> PieceAt(t, i)]
           S == {g[i] : i \in DOMAIN t}
<1>1. Pieces(t) = Selected(g, P)
  BY DEF Pieces, StartsAt, PieceAt, EndOfWords
<1>2. g \in Seq(S) /\ DOMAIN g = DOMAIN t
  <2>1. Len(t) \in Nat /\ DOMAIN t = 1 .. Len(t)
    BY LenProperties
  <2> QED
    BY <2>1
<1>3. P \in SUBSET (DOMAIN g)
  BY <1>2
<1>4. \A i \in P : g[i] \in WholeWords
  <2> SUFFICES ASSUME NEW i \in P PROVE PieceAt(t, i) \in WholeWords
    OBVIOUS
  <2>1. i \in DOMAIN t /\ StartsAt(t, i)
    OBVIOUS
  <2> QED
    BY <2>1, PieceAtType
<1>5. \A i \in P : StartsAt(t, i) /\ i \in DOMAIN t /\ g[i] = PieceAt(t, i)
  OBVIOUS
<1> HIDE DEF P, g, S
<1>6. /\ Selected(g, P) \in Seq({g[i] : i \in P})
      /\ DOMAIN Selected(g, P) = 1 .. Cardinality(P)
  BY <1>2, <1>3, SelectedType
<1>7. {g[i] : i \in P} \subseteq WholeWords
  BY <1>4
<1>8. Selected(g, P) \in Seq(WholeWords)
  BY <1>6, <1>7
<1>9. PICK f \in [1 .. Cardinality(P) -> P] :
        /\ \A n \in 1 .. Cardinality(P) : Selected(g, P)[n] = g[f[n]]
        /\ \A m, n \in 1 .. Cardinality(P) : m < n => f[m] < f[n]
  BY <1>2, <1>3, SelectedPlaces
<1>10. PiecesAt(t, Selected(g, P), f)
  BY <1>5, <1>6, <1>9 DEF PiecesAt
<1> QED
  BY <1>1, <1>8, <1>10

-----------------------------------------------------------------------------
(***************************************************************************)
(* The cut of a chunk: what is passed on, and the rest, without a newline, *)
(* behind its last one.                                                    *)
(***************************************************************************)
CutsAt(s, t, n) ==
  /\ n \in DOMAIN t
  /\ Processable(t) = SubSeq(t, 1, n) /\ Remainder(s, t) = SubSeq(t, n + 1, Len(t))
  /\ \A i \in n + 1 .. Len(t) : ~IsEnd(t[i])
  /\ n = Len(t) \/ IsEnd(t[n])
  /\ ~IsEnd(t[Len(t)]) /\ n = Len(t) => LastEnd(t) = 0

LEMMA ChunkCut ==
  ASSUME NEW s, NEW S, NEW t \in Seq(S), t # <<>>
  PROVE  \E n : CutsAt(s, t, n)
<1> DEFINE P == {0} \cup {i \in DOMAIN t : IsEnd(t[i])}
           e == LastEnd(t)
           l == Len(t)
<1>1. l \in Nat \ {0} /\ DOMAIN t = 1 .. l
  BY LenProperties, EmptySeq
<1>2. e \in P /\ \A i \in P : i <= e
  <2>1. P \in SUBSET (0 .. l) /\ P # {} /\ l \in Nat
    BY <1>1
  <2>2. e = Max(P)
    BY DEF LastEnd
  <2> HIDE DEF P, e, l
  <2> QED
    BY <2>1, <2>2, GreatestPlace
<1>3. e \in 0 .. l /\ (e # 0 => IsEnd(t[e]))
  BY <1>1, <1>2
<1>4. \A i \in e + 1 .. l : ~IsEnd(t[i])
  <2> SUFFICES ASSUME NEW i \in e + 1 .. l, IsEnd(t[i]) PROVE FALSE
    OBVIOUS
  <2> HIDE DEF e, l
  <2>1. i \in P
    BY <1>1, <1>3
  <2>2. ~(i <= e)
    BY <1>1, <1>3
  <2> HIDE DEF P
  <2> QED
    BY <1>2, <2>1, <2>2
<1>5. CASE e \in {0, l}
  <2>1. Processable(t) = t /\ Remainder(s, t) = <<>>
    BY <1>5 DEF Processable, Remainder
  <2>2. SubSeq(t, 1, l) = t /\ SubSeq(t, l + 1, l) = <<>>
    <3>1. t = SubSeq(t, 1, l)
      BY LenProperties
    <3>2. SubSeq(t, l + 1, l) = <<>>
      <4>1. l + 1 \in Int /\ l \in Int /\ l < l + 1
        BY <1>1
      <4> QED
        BY <4>1, SubSeqEmpty
    <3> QED
      BY <3>1, <3>2
  <2>3. l \in DOMAIN t /\ \A i \in l + 1 .. l : ~IsEnd(t[i])
    BY <1>1
  <2>4. ~IsEnd(t[l]) => e = 0
    BY <1>1, <1>3, <1>5
  <2>5. CutsAt(s, t, l)
    BY <2>1, <2>2, <2>3, <2>4 DEF CutsAt
  <2> QED
    BY <2>5
<1>6. CASE e \notin {0, l}
  <2>1. Processable(t) = SubSeq(t, 1, e) /\ Remainder(s, t) = SubSeq(t, e + 1, l)
    BY <1>6 DEF Processable, Remainder
  <2>2. e \in DOMAIN t /\ e # l /\ e # 0
    BY <1>1, <1>3, <1>6
  <2>3. CutsAt(s, t, e)
    <3> HIDE DEF e
    <3> QED
      BY <1>3, <1>4, <2>1, <2>2 DEF CutsAt
  <2> QED
    BY <2>3
<1> QED
  BY <1>5, <1>6

\* The two parts of a chained text are chained, and have its bytes.
LEMMA CutParts ==
  ASSUME NEW s, NEW S, NEW t \in Seq(S), Chained(t), NEW n \in DOMAIN t
  PROVE  /\ SubSeq(t, 1, n) \in Seq(S) /\ Len(SubSeq(t, 1, n)) = n
         /\ \A i \in 1 .. n : SubSeq(t, 1, n)[i] = t[i]
         /\ Chained(SubSeq(t, 1, n))
         /\ SubSeq(t, n + 1, Len(t)) \in Seq(S) /\ Len(SubSeq(t, n + 1, Len(t))) = Len(t) - n
         /\ \A i \in 1 .. Len(t) - n : SubSeq(t, n + 1, Len(t))[i] = t[n + i] /\ n + i \in DOMAIN t
         /\ Chained(SubSeq(t, n + 1, Len(t)))
<1> DEFINE u == SubSeq(t, 1, n)
           v == SubSeq(t, n + 1, Len(t))
           l == Len(t)
<1>1. l \in Nat /\ DOMAIN t = 1 .. l /\ n \in Nat \ {0} /\ n <= l /\ \A i \in 1 .. l : t[i] \in S
  BY LenProperties, ElementOfSeq
<1> HIDE DEF l
<1>2. u \in Seq(S) /\ Len(u) = n /\ \A i \in 1 .. n : u[i] = t[i]
  <2>1. \A i \in 1 .. n : t[i] \in S
    BY <1>1
  <2>2. 1 \in Int /\ n \in Int
    BY <1>1
  <2>3. /\ u \in Seq(S) /\ Len(u) = (IF 1 <= n THEN n - 1 + 1 ELSE 0)
        /\ \A i \in 1 .. n - 1 + 1 : u[i] = t[1 + i - 1]
    BY <2>1, <2>2, SubSeqProperties
  <2> HIDE DEF u
  <2> QED
    BY <1>1, <2>3
<1>3. v \in Seq(S) /\ Len(v) = l - n /\ \A i \in 1 .. l - n : v[i] = t[n + i] /\ n + i \in DOMAIN t
  <2>1. \A i \in n + 1 .. l : t[i] \in S
    BY <1>1
  <2>2. n + 1 \in Int /\ l \in Int
    BY <1>1
  <2>3. /\ v \in Seq(S) /\ Len(v) = (IF n + 1 <= l THEN l - (n + 1) + 1 ELSE 0)
        /\ \A i \in 1 .. l - (n + 1) + 1 : v[i] = t[(n + 1) + i - 1]
    BY <2>1, <2>2, SubSeqProperties DEF l
  <2> HIDE DEF v
  <2>4. l - (n + 1) + 1 = l - n
    BY <1>1
  <2>5. \A i \in 1 .. l - n : (n + 1) + i - 1 = n + i /\ n + i \in 1 .. l
    BY <1>1
  <2>6. Len(v) = l - n
    BY <1>1, <2>3
  <2> QED
    BY <1>1, <2>3, <2>4, <2>5, <2>6
<1>4. DOMAIN u = 1 .. n /\ DOMAIN v = 1 .. l - n
  BY <1>2, <1>3, LenProperties
<1>5. Chained(u)
  <2> SUFFICES ASSUME NEW i \in DOMAIN u, i + 1 \in DOMAIN u PROVE Follows(u[i], u[i + 1])
    BY DEF Chained
  <2>1. i \in DOMAIN t /\ i + 1 \in DOMAIN t /\ i \in 1 .. n /\ i + 1 \in 1 .. n
    BY <1>1, <1>4
  <2>2. Follows(t[i], t[i + 1])
    BY <2>1 DEF Chained
  <2> HIDE DEF u
  <2> QED
    BY <1>2, <2>1, <2>2
<1>6. Chained(v)
  <2> SUFFICES ASSUME NEW i \in DOMAIN v, i + 1 \in DOMAIN v PROVE Follows(v[i], v[i + 1])
    BY DEF Chained
  <2>1. i \in 1 .. l - n /\ i + 1 \in 1 .. l - n
    BY <1>4
  <2> HIDE DEF v
  <2>2. v[i] = t[n + i] /\ v[i + 1] = t[n + (i + 1)] /\ n + i \in DOMAIN t /\ n + (i + 1) \in DOMAIN t
    BY <1>3, <2>1
  <2>3. n + (i + 1) = (n + i) + 1
    BY <1>1, <2>1
  <2>4. Follows(t[n + i], t[(n + i) + 1])
    BY <2>2, <2>3 DEF Chained
  <2> QED
    BY <2>2, <2>3, <2>4
<1> QED
  BY <1>2, <1>3, <1>5, <1>6 DEF l

-----------------------------------------------------------------------------
(***************************************************************************)
(* What a chunk adds to the buffer.                                        *)
(***************************************************************************)
\* The line was cut, behind one of the places F.
CutIn(F, l) == \E w \in DOMAIN Written[l].words : <<l, w>> \in F

\* The piece is in the first n bytes of t.
PieceIn(t, n, p) ==
  \E i, k \in 1 .. n : /\ i <= k /\ t[i] = <<p.line, p.from>> /\ t[k] = <<p.line, p.to>>
                       /\ ~IsEnd(t[i]) /\ ~IsEnd(t[k])

\* A line that a piece does not have as a whole was cut.
CutOrWhole(F, p) == IsWhole(p) \/ CutIn(F, p.line)

ChunkPiece(s, t, n, F, p) ==
  p \in WholeWords /\ Written[p.line].stream = s /\ CutOrWhole(F, p) /\ PieceIn(t, n, p)

LEMMA ChunkPieces ==
  ASSUME NEW s, NEW t \in Seq(ByteOf(s)), Chained(t), NEW n, CutsAt(s, t, n), NEW F,
         IsFirst(t[1]) \/ CutIn(F, t[1][1]), LastEnd(t) = 0 => t[Len(t)] \in F
  PROVE  /\ Pieces(Processable(t)) \in Seq(WholeWords)
         /\ \A m \in DOMAIN Pieces(Processable(t)) : ChunkPiece(s, t, n, F, Pieces(Processable(t))[m])
         /\ \A l, m \in DOMAIN Pieces(Processable(t)) :
              l < m => PieceBefore(Pieces(Processable(t))[l], Pieces(Processable(t))[m])
<1> DEFINE u == Processable(t)
           ps == Pieces(u)
<1>1. /\ Len(t) \in Nat /\ DOMAIN t = 1 .. Len(t) /\ n \in Nat \ {0} /\ n <= Len(t) /\ n \in DOMAIN t
      /\ \A i \in DOMAIN t : t[i] \in ByteOf(s)
  <2>1. n \in DOMAIN t
    BY DEF CutsAt
  <2> QED
    BY <2>1, LenProperties, ElementOfSeq
<1>2. u = SubSeq(t, 1, n)
  BY DEF CutsAt
<1> HIDE DEF u
<1>3. /\ u \in Seq(ByteOf(s)) /\ Len(u) = n /\ Chained(u)
      /\ \A i \in 1 .. n : u[i] = t[i]
  BY <1>1, <1>2, CutParts
<1>4. DOMAIN u = 1 .. n /\ 1 \in 1 .. n
  BY <1>1, <1>3, LenProperties
<1>5. ps \in Seq(WholeWords) /\ \E f : PiecesAt(u, ps, f)
  BY <1>3, PiecesType
<1> HIDE DEF ps
<1>6. PICK f : PiecesAt(u, ps, f)
  BY <1>5
<1>7. ASSUME NEW m \in DOMAIN ps PROVE ChunkPiece(s, t, n, F, ps[m])
  <2> DEFINE p == ps[m]
             i == f[m]
             k == EndOfWords(u, i)
  <2>1. i \in DOMAIN u /\ StartsAt(u, i) /\ p = PieceAt(u, i)
    BY <1>6 DEF PiecesAt
  <2>2. p \in WholeWords /\ PieceFrom(u, p, i, k)
    BY <1>3, <2>1, PieceAtType
  <2>0. SUFFICES ChunkPiece(s, t, n, F, p)
    BY DEF p
  <2> HIDE DEF p, i, k
  <2>3. /\ i \in 1 .. n /\ k \in 1 .. n /\ i <= k
        /\ u[i] = <<p.line, p.from>> /\ u[k] = <<p.line, p.to>> /\ ~IsEnd(u[k])
        /\ (i = 1 \/ p.from = 1) /\ (k = n \/ p.to = Len(Written[p.line].words))
    BY <1>3, <1>4, <2>2 DEF PieceFrom
  <2>4. /\ t[i] = <<p.line, p.from>> /\ t[k] = <<p.line, p.to>> /\ ~IsEnd(t[k]) /\ ~IsEnd(t[i])
        /\ i \in DOMAIN t /\ k \in DOMAIN t
    <3>1. t[i] = u[i] /\ t[k] = u[k]
      BY <1>3, <2>3
    <3>2. ~IsEnd(u[i])
      BY <2>1 DEF StartsAt
    <3>3. i \in DOMAIN t /\ k \in DOMAIN t
      BY <1>1, <2>3
    <3> QED
      BY <2>3, <3>1, <3>2, <3>3
  <2>5. PieceIn(t, n, p)
    BY <2>3, <2>4 DEF PieceIn
  <2>6. /\ p.line \in DOMAIN Written /\ p.from \in 1 .. p.to /\ p.to \in Nat
        /\ p.to <= Len(Written[p.line].words)
    BY <2>2 DEF WholeWords, Piece
  <2>7. /\ Written[p.line].stream = s
        /\ DOMAIN Written[p.line].words = 1 .. Len(Written[p.line].words)
        /\ Len(Written[p.line].words) \in Nat
    <3>1. t[i] \in ByteOf(s)
      BY <1>1, <2>4
    <3>2. Written[t[i][1]].stream = s
      BY <3>1 DEF ByteOf
    <3> QED
      BY <2>4, <2>6, <3>2, WrittenType
  <2>8. p.from \in DOMAIN Written[p.line].words /\ p.to \in DOMAIN Written[p.line].words
    BY <2>6, <2>7
  <2>9. CASE p.from # 1
    <3>1. i = 1
      BY <2>3, <2>9
    <3>2. t[1] = <<p.line, p.from>> /\ t[1][1] = p.line /\ t[1][2] = p.from
      BY <2>4, <3>1
    <3>3. ~IsFirst(t[1])
      <4>1. NextByte(p.line, 0)[2] \in {1, 0}
        BY DEF NextByte, Newline
      <4>2. p.from # 0
        BY <2>6
      <4> QED
        BY <2>9, <3>2, <4>1, <4>2 DEF IsFirst
    <3> QED
      BY <2>2, <2>5, <2>7, <3>2, <3>3 DEF ChunkPiece, CutOrWhole
  <2>10. CASE p.to # Len(Written[p.line].words)
    <3>1. k = n
      BY <2>3, <2>10
    <3>2. n = Len(t)
      BY <2>4, <3>1 DEF CutsAt
    <3>3. LastEnd(t) = 0
      BY <2>4, <3>1, <3>2 DEF CutsAt
    <3>4. <<p.line, p.to>> \in F
      BY <2>4, <3>1, <3>2, <3>3
    <3>5. CutIn(F, p.line)
      BY <2>8, <3>4 DEF CutIn
    <3> QED
      BY <2>2, <2>5, <2>7, <3>5 DEF ChunkPiece, CutOrWhole
  <2>11. CASE p.from = 1 /\ p.to = Len(Written[p.line].words)
    BY <2>2, <2>5, <2>7, <2>11 DEF ChunkPiece, CutOrWhole, IsWhole
  <2> QED
    BY <2>9, <2>10, <2>11
<1>8. ASSUME NEW l \in DOMAIN ps, NEW m \in DOMAIN ps, l < m PROVE PieceBefore(ps[l], ps[m])
  <2>1. /\ f[l] \in DOMAIN u /\ f[m] \in DOMAIN u /\ f[l] < f[m]
        /\ StartsAt(u, f[l]) /\ StartsAt(u, f[m])
        /\ ps[l] = PieceAt(u, f[l]) /\ ps[m] = PieceAt(u, f[m])
    BY <1>6, <1>8 DEF PiecesAt
  <2>2. PieceBefore(PieceAt(u, f[l]), PieceAt(u, f[m]))
    BY <1>3, <2>1, PieceAtOrder
  <2> QED
    BY <2>1, <2>2
<1> QED
  BY <1>5, <1>7, <1>8 DEF ps, u

\* An entry keeps to its words what redaction makes of them.
Good(F) ==
  {e \in LogEntry : /\ e.piece \in WholeWords /\ CutOrWhole(F, e.piece)
                    /\ ToSet(e.message) \subseteq ToSet(Redact(WordsOf(e.piece), e.all))}

InOrder(b) ==
  \A i, j \in DOMAIN b :
    i < j /\ Written[b[i].piece.line].stream = Written[b[j].piece.line].stream =>
      PieceBefore(b[i].piece, b[j].piece)

Bounded(b) == Len(b) > 1 => Bytes(b) <= MaxBytes

\* The piece was written before the byte.
Ahead(p, b) == p.line < b[1] \/ (p.line = b[1] /\ (b[2] = Newline \/ p.to < b[2]))

LEMMA GoodGrows ==
  ASSUME NEW F, NEW E, F \subseteq E
  PROVE  Good(F) \subseteq Good(E)
<1> QED
  BY DEF Good, CutOrWhole, CutIn

\* The buffer after the first m pieces ps of a chunk: what is of before, and of the pieces.
FilledTo(b, old, F, ps, m) ==
  /\ b \in Seq(Good(F)) /\ InOrder(b) /\ Bounded(b)
  /\ \A i \in DOMAIN b : \/ \E j \in DOMAIN old : b[i] = old[j]
                         \/ \E j \in 1 .. m : b[i].piece = ps[j]

LEMMA GrownFills ==
  ASSUME clock \in Nat, NEW s, NEW t \in Seq(ByteOf(s)), NEW n \in Nat, NEW F, NEW old \in Seq(Good(F)),
         \A j \in DOMAIN old : Written[old[j].piece.line].stream = s =>
           \A i \in DOMAIN t : Ahead(old[j].piece, t[i]),
         n <= Len(t),
         NEW ps \in Seq(WholeWords), \A i \in DOMAIN ps : ChunkPiece(s, t, n, F, ps[i]),
         \A i, j \in DOMAIN ps : i < j => PieceBefore(ps[i], ps[j]),
         NEW m \in 1 .. Len(ps), NEW count \in RedactsUpTo,
         NEW b \in Seq(LogEntry), FilledTo(b, old, F, ps, m - 1)
  PROVE  FilledTo(Grown(b, EntryOf(ps[m], count)), old, F, ps, m)
<1> DEFINE e == EntryOf(ps[m], count)
           c == Grown(b, e)
           p == ps[m]
<1>1. /\ Len(ps) \in Nat /\ DOMAIN ps = 1 .. Len(ps) /\ m \in DOMAIN ps /\ m \in Nat \ {0}
      /\ Len(t) \in Nat /\ DOMAIN t = 1 .. Len(t)
      /\ p \in WholeWords
  BY LenProperties, ElementOfSeq
<1>2. ChunkPiece(s, t, n, F, p)
  BY <1>1
<1>3. e \in LogEntry /\ e.piece = p /\ e.message = Redact(WordsOf(p), count) /\ e.all = count
  <2>1. EntryOf(p, count) \in LogEntry
    BY <1>1, EntryOfType
  <2> QED
    BY <2>1 DEF EntryOf
<1> HIDE DEF p, e
<1>4. e \in Good(F)
  BY <1>2, <1>3 DEF Good, ChunkPiece
<1>5. b \in Seq(Good(F)) /\ InOrder(b)
  BY DEF FilledTo
<1>6. c \in Seq(Good(F)) /\ Ending(c, Append(b, e)) /\ Bounded(c)
  BY <1>4, <1>5, GrownType DEF Bounded
<1> DEFINE a == Append(b, e)
<1>7. /\ Len(b) \in Nat /\ DOMAIN b = 1 .. Len(b)
      /\ a \in Seq(Good(F)) /\ Len(a) = Len(b) + 1 /\ DOMAIN a = 1 .. Len(b) + 1
      /\ \A i \in 1 .. Len(b) : a[i] = b[i]
      /\ a[Len(b) + 1] = e
  <2>1. /\ a \in Seq(Good(F)) /\ Len(a) = Len(b) + 1
        /\ \A i \in 1 .. Len(b) : a[i] = b[i]
        /\ a[Len(b) + 1] = e
    BY <1>4, <1>5, AppendProperties
  <2> QED
    BY <1>5, <2>1, LenProperties
<1> HIDE DEF a, c
<1>8. \A i \in DOMAIN b : \/ \E j \in DOMAIN old : b[i] = old[j]
                          \/ \E j \in 1 .. m - 1 : b[i].piece = ps[j]
  BY DEF FilledTo
<1>9. ASSUME NEW i \in DOMAIN b, Written[b[i].piece.line].stream = Written[p.line].stream
      PROVE  PieceBefore(b[i].piece, p)
  <2>1. CASE \E j \in DOMAIN old : b[i] = old[j]
    <3>1. PICK j \in DOMAIN old : b[i] = old[j]
      BY <2>1
    <3>2. PICK k \in 1 .. n : t[k] = <<p.line, p.from>> /\ ~IsEnd(t[k])
      BY <1>2 DEF ChunkPiece, PieceIn
    <3>3. k \in DOMAIN t
      BY <1>1
    <3>4. Written[p.line].stream = s
      BY <1>2 DEF ChunkPiece
    <3>5. Ahead(old[j].piece, t[k])
      BY <1>9, <3>1, <3>3, <3>4
    <3>6. t[k][1] = p.line /\ t[k][2] = p.from /\ t[k][2] # Newline
      BY <3>2 DEF IsEnd
    <3> QED
      BY <3>1, <3>5, <3>6 DEF Ahead, PieceBefore
  <2>2. CASE \E j \in 1 .. m - 1 : b[i].piece = ps[j]
    <3>1. PICK j \in 1 .. m - 1 : b[i].piece = ps[j]
      BY <2>2
    <3>2. j \in DOMAIN ps /\ j < m
      BY <1>1
    <3> QED
      BY <1>1, <3>1, <3>2 DEF p
  <2> QED
    BY <1>8, <2>1, <2>2
<1>10. InOrder(a)
  <2> SUFFICES ASSUME NEW i \in DOMAIN a, NEW j \in DOMAIN a, i < j,
                      Written[a[i].piece.line].stream = Written[a[j].piece.line].stream
               PROVE  PieceBefore(a[i].piece, a[j].piece)
    BY DEF InOrder
  <2>1. i \in DOMAIN b /\ a[i] = b[i]
    BY <1>7
  <2>2. CASE j = Len(b) + 1
    BY <1>3, <1>7, <1>9, <2>1, <2>2
  <2>3. CASE j # Len(b) + 1
    <3>1. j \in DOMAIN b /\ a[j] = b[j]
      BY <1>7, <2>3
    <3> QED
      BY <1>5, <2>1, <3>1 DEF InOrder
  <2> QED
    BY <2>2, <2>3
<1>11. PICK k \in Nat : \A i \in DOMAIN c : k + i \in DOMAIN a /\ c[i] = a[k + i]
  BY <1>6 DEF Ending, a
<1>12. DOMAIN c \subseteq Nat
  BY <1>6, LenProperties
<1>13. InOrder(c)
  <2> SUFFICES ASSUME NEW i \in DOMAIN c, NEW j \in DOMAIN c, i < j,
                      Written[c[i].piece.line].stream = Written[c[j].piece.line].stream
               PROVE  PieceBefore(c[i].piece, c[j].piece)
    BY DEF InOrder
  <2>1. /\ k + i \in DOMAIN a /\ c[i] = a[k + i] /\ k + j \in DOMAIN a /\ c[j] = a[k + j]
        /\ k + i < k + j
    BY <1>11, <1>12
  <2> QED
    BY <1>10, <2>1 DEF InOrder
<1>14. ASSUME NEW i \in DOMAIN c
       PROVE  \/ \E j \in DOMAIN old : c[i] = old[j]
              \/ \E j \in 1 .. m : c[i].piece = ps[j]
  <2>1. k + i \in DOMAIN a /\ c[i] = a[k + i]
    BY <1>11
  <2>2. CASE k + i = Len(b) + 1
    <3>1. c[i].piece = ps[m]
      BY <1>3, <1>7, <2>1, <2>2 DEF p
    <3> QED
      BY <1>1, <3>1
  <2>3. CASE k + i # Len(b) + 1
    <3>1. k + i \in DOMAIN b /\ c[i] = b[k + i]
      BY <1>7, <2>1, <2>3
    <3>2. \A j \in 1 .. m - 1 : j \in 1 .. m
      BY <1>1
    <3> QED
      BY <1>8, <3>1, <3>2
  <2> QED
    BY <2>2, <2>3
<1>15. FilledTo(c, old, F, ps, m)
  BY <1>6, <1>13, <1>14 DEF FilledTo
<1> QED
  BY <1>15 DEF c, e

LEMMA ChunkBuffers ==
  ASSUME clock \in Nat, NEW s, NEW t \in Seq(ByteOf(s)), NEW n \in Nat, NEW F, n <= Len(t),
         entries \in Seq(Good(F)), InOrder(entries), Bounded(entries), bytes = Bytes(entries),
         \A j \in DOMAIN entries : Written[entries[j].piece.line].stream = s =>
           \A i \in DOMAIN t : Ahead(entries[j].piece, t[i]),
         NEW ps \in Seq(WholeWords), \A i \in DOMAIN ps : ChunkPiece(s, t, n, F, ps[i]),
         \A i, j \in DOMAIN ps : i < j => PieceBefore(ps[i], ps[j]),
         NEW count \in RedactsUpTo
  PROVE  /\ FilledTo(Filled(ps, count), entries, F, ps, Len(ps))
         /\ Buffered(ps, count) = RingOf(Filled(ps, count))
<1> DEFINE A == [m \in 0 .. Len(ps) |-> {b \in Seq(LogEntry) : FilledTo(b, entries, F, ps, m)}]
<1>1. Len(ps) \in Nat
  BY LenProperties
<1>2. Good(F) \subseteq LogEntry
  BY DEF Good
<1>3. entries \in Seq(LogEntry)
  BY <1>2
<1>4. entries \in A[0]
  <2>1. FilledTo(entries, entries, F, ps, 0)
    BY DEF FilledTo
  <2> QED
    BY <1>1, <1>3, <2>1
<1>5. ASSUME NEW m \in 1 .. Len(ps), NEW b \in Seq(LogEntry), b \in A[m - 1]
      PROVE  Grown(b, EntryOf(ps[m], count)) \in A[m]
  <2>1. m - 1 \in 0 .. Len(ps) /\ m \in 0 .. Len(ps) /\ m \in DOMAIN ps
    BY <1>1, LenProperties
  <2>2. FilledTo(b, entries, F, ps, m - 1)
    BY <1>5, <2>1
  <2>3. FilledTo(Grown(b, EntryOf(ps[m], count)), entries, F, ps, m)
    BY <2>2, GrownFills
  <2>4. Grown(b, EntryOf(ps[m], count)) \in Seq(LogEntry)
    BY <1>2, <2>3 DEF FilledTo
  <2> QED
    BY <2>1, <2>3, <2>4
<1>6. Len(ps) \in 0 .. Len(ps)
  BY <1>1
<1>7. \A b : b \in A[Len(ps)] => FilledTo(b, entries, F, ps, Len(ps))
  BY <1>6
<1> HIDE DEF A
<1>8. Filled(ps, count) \in A[Len(ps)] /\ Buffered(ps, count) = RingOf(Filled(ps, count))
  BY <1>3, <1>4, <1>5, BufferedSteps
<1> QED
  BY <1>7, <1>8

-----------------------------------------------------------------------------
(***************************************************************************)
(* The header of a report, and what is kept with its incident.             *)
(***************************************************************************)
Heads == {Blocks!Unknown} \cup DOMAIN Written

LEMMA BlockHead ==
  ASSUME NEW D, Blocks!Unknown \in D, NEW ls \in Seq(D), NEW block \in Blocks!ErrorBlock(ls)
  PROVE  block.head \in D
<1>1. Len(ls) \in Nat /\ DOMAIN ls = 1 .. Len(ls) /\ \A i \in DOMAIN ls : ls[i] \in D
  BY LenProperties, ElementOfSeq
<1>2. CASE block \in Blocks!NodeBlock(ls)
  <2>1. PICK i \in DOMAIN ls : block.head = ls[i]
    BY <1>2 DEF Blocks!NodeBlock, Blocks!First
  <2> QED
    BY <1>1, <2>1
<1>3. CASE block \in Blocks!PythonBlock(ls)
  <2>1. PICK i \in DOMAIN ls :
          \/ block.head = ls[Blocks!TracebackEnd(ls, i)]
          \/ block.head = Blocks!Unknown
    BY <1>3 DEF Blocks!PythonBlock, Blocks!First
  <2> DEFINE P == {Len(ls)} \cup {j \in i + 1 .. Len(ls) : Blocks!Kind(ls[j]) \in {"head", "text", "trace"}}
  <2>2. P \in SUBSET Nat /\ P # {} /\ P \subseteq 1 .. Len(ls)
    BY <1>1
  <2>3. Blocks!TracebackEnd(ls, i) = Min(P)
    BY DEF Blocks!TracebackEnd, Blocks!Min, Min
  <2> HIDE DEF P
  <2>4. Blocks!TracebackEnd(ls, i) \in 1 .. Len(ls)
    BY <2>2, <2>3, LeastPlace
  <2> QED
    BY <1>1, <2>1, <2>4
<1>4. block \in Blocks!NodeBlock(ls) \/ block \in Blocks!PythonBlock(ls)
  BY DEF Blocks!ErrorBlock
<1> QED
  BY <1>2, <1>3, <1>4

LEMMA LinesType ==
  ASSUME NEW ps \in Seq(WholeWords)
  PROVE  Lines(ps) \in Seq(Heads)
<1>1. Len(ps) \in Nat /\ DOMAIN ps = 1 .. Len(ps) /\ \A i \in DOMAIN ps : ps[i] \in WholeWords
  BY LenProperties, ElementOfSeq
<1>2. \A i \in DOMAIN ps : ps[i].line \in Heads /\ Blocks!Unknown \in Heads
  BY <1>1 DEF WholeWords, Piece, Heads
<1>3. \A i \in 1 .. Len(ps) :
        (IF Recognised(ps[i]) THEN ps[i].line ELSE Blocks!Unknown) \in Heads
  BY <1>1, <1>2
<1> QED
  BY <1>1, <1>3 DEF Lines

LogsOK(l, F) == l.head \in Heads /\ l.kept \in Seq(Good(F))

LEMMA KeepType ==
  ASSUME NEW F, LogsOK(logs, F), NEW head \in Heads, NEW b \in Seq(Good(F)), Keep(head, RingOf(b))
  PROVE  LogsOK(logs', F)
<1> DEFINE G == Good(F)
<1>1. G \in SUBSET LogEntry
  BY DEF Good
<1>2. ASSUME NEW x \in G, NEW y \in LogEntry, CutOf(y, x) PROVE y \in G
  <2>1. /\ x.piece \in WholeWords /\ CutOrWhole(F, x.piece)
        /\ ToSet(x.message) \subseteq ToSet(Redact(WordsOf(x.piece), x.all))
    BY DEF Good
  <2>2. y.piece = x.piece /\ y.all = x.all /\ ToSet(y.message) \subseteq ToSet(x.message)
    BY <1>2 DEF CutOf, ToSet
  <2> QED
    BY <2>1, <2>2 DEF Good
<1> HIDE DEF G
<1>3. PICK first \in 0 .. clock :
        logs' = IF Excerpt(RingOf(b), first, clock) = <<>> THEN logs
                ELSE [head |-> head, kept |-> Excerpt(RingOf(b), first, clock)]
  BY DEF Keep
<1>4. b \in Seq(G)
  BY DEF G
<1>5. Excerpt(RingOf(b), first, clock) \in Seq(G)
  BY <1>1, <1>2, <1>4, ExcerptType
<1> QED
  BY <1>3, <1>5 DEF LogsOK, G

-----------------------------------------------------------------------------
(***************************************************************************)
(* The invariant of the wrapper.  What it has not logged of a pipe is a    *)
(* chained text up to what the program writes, which begins with a line    *)
(* unless that line was cut; and all that is logged was written before it. *)
(***************************************************************************)
OutputOK(o) ==
  /\ o \in [line : 1 .. Len(Written) + 1, words : Nat]
  /\ o.line \in DOMAIN Written => o.words <= Len(Written[o.line].words)
  /\ o.line \notin DOMAIN Written => o.words = 0

\* The program is about to go on with a line of the pipe.
Writing(o, s) == o.words > 0 /\ Written[o.line].stream = s

\* The end of t is where the program is.
EndsWith(t, s, o) ==
  IF IsEnd(t[Len(t)]) THEN t[Len(t)][1] < o.line /\ ~Writing(o, s)
  ELSE t[Len(t)] = <<o.line, o.words>>

TextOK(t, s, o, F, up) ==
  /\ t \in Seq(ByteOf(s)) /\ Chained(t)
  /\ up /\ t # <<>> => IsFirst(t[1]) \/ CutIn(F, t[1][1])
  /\ up /\ t = <<>> /\ Writing(o, s) => CutIn(F, o.line)
  /\ t # <<>> => EndsWith(t, s, o)

Behind(p, o) == p.line < o.line \/ (p.line = o.line /\ p.to <= o.words)

EntriesOK(es, o, F) ==
  /\ es \in Seq(Good(F)) /\ InOrder(es) /\ Bounded(es)
  /\ \A i \in DOMAIN es : Behind(es[i].piece, o)

AllAhead(es, s, t) ==
  \A j \in DOMAIN es : Written[es[j].piece.line].stream = s =>
    \A i \in DOMAIN t : Ahead(es[j].piece, t[i])

PipeOK(h, p, s, o, F, up, es) ==
  /\ h \in Seq(ByteOf(s)) /\ p \in Seq(ByteOf(s))
  /\ TextOK(h \o p, s, o, F, up)
  /\ AllAhead(es, s, h \o p)

PipeByte == (DOMAIN Written) \X Nat

WrapperTypes ==
  /\ clock \in 0 .. WrapperTime
  /\ program \in {"running", "ended"}
  /\ wrapper \in {"up", "ended"}
  /\ pipe \in [Streams -> Seq(PipeByte)] /\ half \in [Streams -> Seq(PipeByte)]
  /\ flushed \subseteq PipeByte
  /\ logged \in [Streams -> Nat]

WrapperInv ==
  /\ WrapperTypes
  /\ OutputOK(output)
  /\ LogsOK(logs, flushed)
  /\ EntriesOK(entries, output, flushed)
  /\ bytes = Bytes(entries)
  /\ \A s \in Streams : PipeOK(half[s], pipe[s], s, output, flushed, wrapper = "up", entries)

\* The place of the program after its next byte.
NextPlace(o) ==
  IF NextByte(o.line, o.words)[2] = Newline THEN [line |-> o.line + 1, words |-> 0]
  ELSE [o EXCEPT !.words = @ + 1]

LEMMA NextPlaceType ==
  ASSUME NEW o, OutputOK(o), o.line \in DOMAIN Written
  PROVE  /\ OutputOK(NextPlace(o))
         /\ NextByte(o.line, o.words) \in ByteOf(Written[o.line].stream)
         /\ \/ /\ NextByte(o.line, o.words) = <<o.line, Newline>>
               /\ NextPlace(o) = [line |-> o.line + 1, words |-> 0]
            \/ /\ NextByte(o.line, o.words) = <<o.line, o.words + 1>>
               /\ NextPlace(o) = [line |-> o.line, words |-> o.words + 1]
<1> DEFINE l == o.line
           w == o.words
           len == Len(Written[l].words)
<1>1. /\ o \in [line : 1 .. Len(Written) + 1, words : Nat] /\ w <= len
      /\ l \in Nat /\ w \in Nat /\ len \in Nat /\ Len(Written) \in Nat /\ DOMAIN Written = 1 .. Len(Written)
      /\ o = [line |-> l, words |-> w]
  <2>1. o \in [line : 1 .. Len(Written) + 1, words : Nat] /\ w <= len
    BY DEF OutputOK
  <2>2. Len(Written) \in Nat /\ DOMAIN Written = 1 .. Len(Written) /\ len \in Nat
    BY WrittenType
  <2> HIDE DEF len
  <2> QED
    BY <2>1, <2>2
<1>2. CASE w < len
  <2>1. NextByte(l, w) = <<l, w + 1>>
    BY <1>2 DEF NextByte
  <2>2. w + 1 # Newline
    BY <1>1 DEF Newline
  <2>3. NextPlace(o) = [line |-> l, words |-> w + 1]
    <3>1. NextPlace(o) = [o EXCEPT !.words = @ + 1]
      BY <2>1, <2>2 DEF NextPlace
    <3> HIDE DEF l, w
    <3> QED
      BY <1>1, <3>1
  <2>4. w + 1 \in Nat /\ w + 1 <= len /\ l \in 1 .. Len(Written) + 1
    <3> HIDE DEF len
    <3> QED
      BY <1>1, <1>2
  <2>5. <<l, w + 1>> \in ByteOf(Written[l].stream)
    BY <2>4 DEF ByteOf
  <2>6. OutputOK([line |-> l, words |-> w + 1])
    BY <2>4 DEF OutputOK
  <2> QED
    BY <2>1, <2>3, <2>5, <2>6
<1>3. CASE ~(w < len)
  <2>1. NextByte(l, w) = <<l, Newline>>
    BY <1>3 DEF NextByte
  <2>2. NextPlace(o) = [line |-> l + 1, words |-> 0]
    BY <2>1 DEF NextPlace
  <2>3. l + 1 \in 1 .. Len(Written) + 1 /\ 0 \in Nat
    BY <1>1
  <2>4. <<l, Newline>> \in ByteOf(Written[l].stream)
    <3>1. 0 <= len
      BY <1>1
    <3> QED
      BY <3>1 DEF ByteOf, Newline
  <2>5. l + 1 \in DOMAIN Written => 0 <= Len(Written[l + 1].words)
    BY WrittenType
  <2>6. OutputOK([line |-> l + 1, words |-> 0])
    <3> HIDE DEF l
    <3> QED
      BY <2>3, <2>5 DEF OutputOK
  <2> QED
    BY <2>1, <2>2, <2>4, <2>6
<1> QED
  BY <1>2, <1>3

LEMMA TextGrows ==
  ASSUME NEW o, OutputOK(o), o.line \in DOMAIN Written, NEW F, NEW up \in BOOLEAN,
         NEW t, TextOK(t, Written[o.line].stream, o, F, up)
  PROVE  TextOK(Append(t, NextByte(o.line, o.words)), Written[o.line].stream, NextPlace(o), F, up)
<1> DEFINE s == Written[o.line].stream
           b == NextByte(o.line, o.words)
           q == NextPlace(o)
           u == Append(t, b)
           l == Len(t)
<1>1. /\ OutputOK(q) /\ b \in ByteOf(s)
      /\ \/ b = <<o.line, Newline>> /\ q = [line |-> o.line + 1, words |-> 0]
         \/ b = <<o.line, o.words + 1>> /\ q = [line |-> o.line, words |-> o.words + 1]
  BY NextPlaceType
<1>2. o.line \in Nat /\ o.words \in Nat
  BY DEF OutputOK
<1>3. t \in Seq(ByteOf(s)) /\ Chained(t)
  BY DEF TextOK
<1> HIDE DEF s, b, q
<1>4. /\ l \in Nat /\ DOMAIN t = 1 .. l
      /\ u \in Seq(ByteOf(s)) /\ Len(u) = l + 1 /\ DOMAIN u = 1 .. l + 1
      /\ \A i \in 1 .. l : u[i] = t[i]
      /\ u[l + 1] = b
      /\ u # <<>>
  <2>1. /\ u \in Seq(ByteOf(s)) /\ Len(u) = l + 1 /\ u # <<>>
        /\ \A i \in 1 .. l : u[i] = t[i]
        /\ u[l + 1] = b
    BY <1>1, <1>3, AppendProperties
  <2> QED
    BY <1>3, <2>1, LenProperties
<1> HIDE DEF u
<1>5. b[1] = o.line
  BY <1>1
<1>6. t = <<>> <=> l = 0
  BY <1>3, EmptySeq
<1> HIDE DEF l
<1>7. t # <<>> => EndsWith(t, s, o)
  BY DEF TextOK, s
<1>8. ASSUME t # <<>> PROVE Follows(t[l], b)
  <2>1. EndsWith(t, s, o)
    BY <1>7, <1>8
  <2>2. CASE IsEnd(t[l])
    <3>1. t[l][1] < o.line /\ ~Writing(o, s)
      BY <2>1, <2>2 DEF EndsWith, l
    <3>2. o.words = 0
      BY <1>2, <3>1 DEF Writing, s
    <3>3. IsFirst(b)
      BY <1>5, <3>2 DEF IsFirst, b
    <3> QED
      BY <1>5, <2>2, <3>1, <3>3 DEF Follows, IsEnd
  <2>3. CASE ~IsEnd(t[l])
    <3>1. t[l] = <<o.line, o.words>>
      BY <2>1, <2>3 DEF EndsWith, l
    <3>2. t[l][1] = o.line /\ t[l][2] = o.words
      BY <3>1
    <3> QED
      BY <2>3, <3>2 DEF Follows, IsEnd, b
  <2> QED
    BY <2>2, <2>3
<1>9. Chained(u)
  <2> SUFFICES ASSUME NEW i \in DOMAIN u, i + 1 \in DOMAIN u PROVE Follows(u[i], u[i + 1])
    BY DEF Chained
  <2>1. i \in 1 .. l /\ u[i] = t[i]
    BY <1>4
  <2>2. CASE i = l
    <3>1. t # <<>>
      BY <1>4, <1>6, <2>1
    <3> QED
      BY <1>4, <1>8, <2>1, <2>2, <3>1
  <2>3. CASE i # l
    <3>1. i \in DOMAIN t /\ i + 1 \in DOMAIN t /\ u[i + 1] = t[i + 1]
      BY <1>4, <2>1, <2>3
    <3> QED
      BY <1>3, <2>1, <3>1 DEF Chained
  <2> QED
    BY <2>2, <2>3
<1>10. up => IsFirst(u[1]) \/ CutIn(F, u[1][1])
  <2>1. CASE t = <<>>
    <3>1. u[1] = b
      BY <1>4, <1>6, <2>1
    <3>2. CASE o.words = 0
      <4>1. IsFirst(b)
        BY <1>5, <3>2 DEF IsFirst, b
      <4> QED
        BY <3>1, <4>1
    <3>3. CASE o.words # 0
      <4>1. Writing(o, s)
        BY <1>2, <3>3 DEF Writing, s
      <4>2. up => CutIn(F, o.line)
        BY <2>1, <4>1 DEF TextOK, s
      <4> QED
        BY <1>5, <3>1, <4>2
    <3> QED
      BY <3>2, <3>3
  <2>2. CASE t # <<>>
    <3>1. u[1] = t[1]
      BY <1>4, <1>6, <2>2
    <3>2. up => IsFirst(t[1]) \/ CutIn(F, t[1][1])
      BY <2>2 DEF TextOK
    <3> QED
      BY <3>1, <3>2
  <2> QED
    BY <2>1, <2>2
<1>11. EndsWith(u, s, q)
  <2>1. u[Len(u)] = b
    BY <1>4
  <2>2. CASE b = <<o.line, Newline>> /\ q = [line |-> o.line + 1, words |-> 0]
    <3>1. IsEnd(b) /\ b[1] < q.line /\ q.words = 0
      BY <1>2, <2>2 DEF IsEnd
    <3>2. ~Writing(q, s)
      BY <3>1 DEF Writing
    <3> QED
      BY <2>1, <3>1, <3>2 DEF EndsWith
  <2>3. CASE b = <<o.line, o.words + 1>> /\ q = [line |-> o.line, words |-> o.words + 1]
    <3>1. ~IsEnd(b) /\ b = <<q.line, q.words>>
      BY <1>2, <2>3 DEF IsEnd, Newline
    <3> QED
      BY <2>1, <3>1 DEF EndsWith
  <2> QED
    BY <1>1, <2>2, <2>3
<1>12. TextOK(u, s, q, F, up)
  BY <1>4, <1>9, <1>10, <1>11 DEF TextOK
<1> QED
  BY <1>12 DEF u, s, q, b

\* The other pipe does not notice.
LEMMA OtherText ==
  ASSUME NEW o, OutputOK(o), o.line \in DOMAIN Written, NEW F, NEW up \in BOOLEAN,
         NEW s, s # Written[o.line].stream, NEW t, TextOK(t, s, o, F, up)
  PROVE  TextOK(t, s, NextPlace(o), F, up)
<1> DEFINE q == NextPlace(o)
           z == t[Len(t)]
<1>1. \/ q = [line |-> o.line + 1, words |-> 0]
      \/ q = [line |-> o.line, words |-> o.words + 1]
  BY NextPlaceType
<1>2. o.line \in Nat /\ o.words \in Nat
  BY DEF OutputOK
<1> HIDE DEF q
<1>3. ~Writing(q, s)
  <2>1. CASE q = [line |-> o.line + 1, words |-> 0]
    BY <2>1 DEF Writing
  <2>2. CASE q = [line |-> o.line, words |-> o.words + 1]
    BY <2>2 DEF Writing
  <2> QED
    BY <1>1, <2>1, <2>2
<1>4. ASSUME t # <<>> PROVE EndsWith(t, s, q)
  <2>1. EndsWith(t, s, o) /\ t \in Seq(ByteOf(s))
    BY <1>4 DEF TextOK
  <2>2. Len(t) \in 1 .. Len(t)
    BY <1>4, <2>1, EmptySeq
  <2>3. z \in ByteOf(s)
    BY <2>1, <2>2, ElementOfSeq
  <2>4. z[1] \in Nat /\ Written[z[1]].stream = s
    BY <2>3, ByteParts
  <2> HIDE DEF z
  <2>5. IsEnd(z)
    <3>1. SUFFICES ASSUME ~IsEnd(z) PROVE FALSE
      OBVIOUS
    <3>2. z = <<o.line, o.words>>
      BY <2>1, <3>1 DEF EndsWith, z
    <3>3. z[1] = o.line
      BY <3>2
    <3> QED
      BY <2>4, <3>3
  <2>6. z[1] < o.line
    BY <2>1, <2>5 DEF EndsWith, z
  <2>7. o.line <= q.line
    BY <1>1, <1>2
  <2>8. q.line \in Nat
    BY <1>1, <1>2
  <2>9. z[1] < q.line
    BY <1>2, <2>4, <2>6, <2>7, <2>8
  <2> QED
    BY <1>3, <2>5, <2>9 DEF EndsWith, z
<1>5. TextOK(t, s, q, F, up)
  BY <1>3, <1>4 DEF TextOK
<1> QED
  BY <1>5 DEF q

-----------------------------------------------------------------------------
(***************************************************************************)
(* What a chunk leaves.                                                    *)
(***************************************************************************)
LEMMA CutInGrows ==
  ASSUME NEW F, NEW E, F \subseteq E, NEW l, CutIn(F, l)
  PROVE  CutIn(E, l)
<1> QED
  BY DEF CutIn

LEMMA TextOKGrows ==
  ASSUME NEW F, NEW E, F \subseteq E, NEW t, NEW s, NEW o, NEW up, TextOK(t, s, o, F, up)
  PROVE  TextOK(t, s, o, E, up)
<1> QED
  BY CutInGrows DEF TextOK

LEMMA RestOK ==
  ASSUME NEW o, OutputOK(o), NEW s, NEW t, t # <<>>, NEW F, NEW E, F \subseteq E,
         TextOK(t, s, o, F, TRUE), NEW n, CutsAt(s, t, n), LastEnd(t) = 0 => t[Len(t)] \in E
  PROVE  /\ TextOK(Remainder(s, t), s, o, E, TRUE)
         /\ n \in DOMAIN t /\ Len(t) \in Nat /\ n \in Nat /\ n <= Len(t)
         /\ \A i \in DOMAIN Remainder(s, t) : Remainder(s, t)[i] = t[n + i] /\ n + i \in DOMAIN t /\ i \in Nat \ {0}
<1> DEFINE r == Remainder(s, t)
           l == Len(t)
<1>1. t \in Seq(ByteOf(s)) /\ Chained(t) /\ EndsWith(t, s, o)
  BY DEF TextOK
<1>2. l \in Nat \ {0} /\ DOMAIN t = 1 .. l /\ n \in Nat \ {0} /\ n <= l /\ n \in DOMAIN t
      /\ \A i \in DOMAIN t : t[i] \in ByteOf(s)
  <2>1. n \in DOMAIN t
    BY DEF CutsAt
  <2> QED
    BY <1>1, <2>1, LenProperties, ElementOfSeq, EmptySeq
<1>0. l \in Nat /\ n \in Nat
  BY <1>2
<1>3. r = SubSeq(t, n + 1, l)
  BY DEF CutsAt
<1> HIDE DEF r
<1>4. /\ r \in Seq(ByteOf(s)) /\ Len(r) = l - n /\ Chained(r)
      /\ \A i \in 1 .. l - n : r[i] = t[n + i] /\ n + i \in DOMAIN t
  BY <1>1, <1>2, <1>3, CutParts
<1>5. DOMAIN r = 1 .. l - n
  BY <1>4, LenProperties
<1>6. ASSUME r # <<>> PROVE (IsFirst(r[1]) \/ CutIn(E, r[1][1])) /\ EndsWith(r, s, o)
  <2>1. l - n \in Nat \ {0}
    BY <1>4, <1>6, EmptySeq
  <2>2. r[1] = t[n + 1] /\ n + 1 \in DOMAIN t
    <3>1. 1 \in 1 .. l - n
      BY <2>1
    <3> QED
      BY <1>4, <3>1
  <2>3. IsEnd(t[n])
    <3>1. n # l
      BY <2>1
    <3> QED
      BY <3>1 DEF CutsAt
  <2>4. Follows(t[n], t[n + 1])
    BY <1>1, <1>2, <2>2 DEF Chained
  <2>5. IsFirst(r[1])
    BY <2>2, <2>3, <2>4 DEF Follows, IsEnd
  <2>6. r[Len(r)] = t[l]
    <3>1. l - n \in 1 .. l - n /\ n + (l - n) = l
      BY <1>0, <2>1
    <3>2. r[l - n] = t[n + (l - n)]
      BY <1>4, <3>1
    <3> QED
      BY <1>4, <3>1, <3>2
  <2>7. EndsWith(r, s, o)
    BY <1>1, <2>6 DEF EndsWith
  <2> QED
    BY <2>5, <2>7
<1>7. ASSUME r = <<>>, Writing(o, s) PROVE CutIn(E, o.line)
  <2>1. n = l
    <3>1. Len(r) = 0
      BY <1>7, EmptySeq
    <3>2. l - n = 0
      BY <1>4, <3>1
    <3> QED
      BY <1>0, <3>2
  <2>2. ~IsEnd(t[l]) /\ t[l] = <<o.line, o.words>>
    BY <1>1, <1>7 DEF EndsWith
  <2>3. LastEnd(t) = 0
    BY <2>1, <2>2 DEF CutsAt
  <2>4. <<o.line, o.words>> \in E
    BY <2>2, <2>3
  <2>5. t[l] \in ByteOf(s)
    BY <1>2
  <2>6. o.line \in DOMAIN Written /\ o.words \in Nat /\ o.words <= Len(Written[o.line].words)
    <3>1. t[l][1] \in DOMAIN Written /\ t[l][2] \in Nat /\ t[l][2] <= Len(Written[t[l][1]].words)
      BY <2>5 DEF ByteOf
    <3>2. t[l][1] = o.line /\ t[l][2] = o.words
      BY <2>2
    <3> QED
      BY <3>1, <3>2
  <2>7. o.words > 0
    BY <1>7 DEF Writing
  <2>8. o.words \in DOMAIN Written[o.line].words
    BY <2>6, <2>7, WrittenType
  <2> QED
    BY <2>4, <2>8 DEF CutIn
<1>8. TextOK(r, s, o, E, TRUE)
  BY <1>4, <1>6, <1>7 DEF TextOK
<1>9. \A i \in DOMAIN r : r[i] = t[n + i] /\ n + i \in DOMAIN t /\ i \in Nat \ {0}
  BY <1>2, <1>4, <1>5
<1> QED
  BY <1>2, <1>8, <1>9 DEF r

LEMMA PieceBehind ==
  ASSUME NEW o, OutputOK(o), NEW s, NEW t, t # <<>>, NEW F, TextOK(t, s, o, F, TRUE),
         NEW n \in DOMAIN t, NEW p \in WholeWords, PieceIn(t, n, p)
  PROVE  Behind(p, o)
<1>1. t \in Seq(ByteOf(s)) /\ Chained(t) /\ EndsWith(t, s, o)
  BY DEF TextOK
<1>2. Len(t) \in Nat \ {0} /\ DOMAIN t = 1 .. Len(t) /\ n \in Nat /\ n <= Len(t) /\ Len(t) \in DOMAIN t
      /\ \A i \in DOMAIN t : t[i] \in ByteOf(s)
  BY <1>1, LenProperties, ElementOfSeq, EmptySeq
<1>3. PICK k \in 1 .. n : t[k] = <<p.line, p.to>> /\ ~IsEnd(t[k])
  BY DEF PieceIn
<1>4. k \in DOMAIN t /\ k \in Nat /\ k <= Len(t)
  BY <1>2
<1>5. t[k][1] = p.line /\ t[k][2] = p.to /\ p.line \in Nat /\ p.to \in Nat
  <2>1. t[k][1] = p.line /\ t[k][2] = p.to
    BY <1>3
  <2> QED
    BY <1>2, <1>4, <2>1, ByteParts
<1> DEFINE z == t[Len(t)]
<1>6. z[1] \in Nat /\ z[2] \in Nat /\ o.line \in Nat /\ o.words \in Nat
  BY <1>2, ByteParts DEF OutputOK
<1>7. (IF IsEnd(z) THEN z[1] < o.line ELSE z = <<o.line, o.words>>)
  BY <1>1 DEF EndsWith
<1> HIDE DEF z
<1>8. CASE k = Len(t)
  <2>1. z = <<o.line, o.words>>
    BY <1>3, <1>7, <1>8 DEF z
  <2>2. p.line = o.line /\ p.to = o.words
    BY <1>3, <1>8, <2>1 DEF z
  <2> QED
    BY <1>6, <2>2 DEF Behind
<1>9. CASE k # Len(t)
  <2>1. Less(t[k], z)
    <3>1. k < Len(t)
      <4>1. k \in Nat /\ k <= Len(t) /\ Len(t) \in Nat
        BY <1>2, <1>4
      <4> QED
        BY <1>9, <4>1
    <3> QED
      BY <1>1, <1>2, <1>4, <3>1, ChainOrder DEF z
  <2>2. p.line < z[1] \/ (p.line = z[1] /\ (z[2] = Newline \/ p.to < z[2]))
    BY <1>5, <2>1 DEF Less
  <2>3. CASE IsEnd(z)
    <3>1. z[1] < o.line /\ p.line <= z[1]
      BY <1>5, <1>6, <1>7, <2>2, <2>3
    <3>2. p.line < o.line
      BY <1>5, <1>6, <3>1
    <3> QED
      BY <3>2 DEF Behind
  <2>4. CASE ~IsEnd(z)
    <3>1. z[1] = o.line /\ z[2] = o.words /\ z[2] # Newline
      BY <1>7, <2>4 DEF IsEnd
    <3>2. p.line < o.line \/ (p.line = o.line /\ p.to < o.words)
      BY <2>2, <3>1
    <3> QED
      BY <1>5, <1>6, <3>2 DEF Behind
  <2> QED
    BY <2>3, <2>4
<1> QED
  BY <1>8, <1>9

LEMMA PieceAheadOf ==
  ASSUME NEW s, NEW t \in Seq(ByteOf(s)), Chained(t), NEW n \in DOMAIN t, NEW p, PieceIn(t, n, p),
         NEW i \in DOMAIN t, n < i
  PROVE  Ahead(p, t[i])
<1>1. Len(t) \in Nat /\ DOMAIN t = 1 .. Len(t)
  BY LenProperties
<1>2. PICK k \in 1 .. n : t[k] = <<p.line, p.to>> /\ ~IsEnd(t[k])
  BY DEF PieceIn
<1>3. k \in DOMAIN t /\ k < i
  BY <1>1
<1>4. Less(t[k], t[i])
  BY <1>3, ChainOrder
<1>5. t[k][1] = p.line /\ t[k][2] = p.to
  BY <1>2
<1> QED
  BY <1>4, <1>5 DEF Less, Ahead

-----------------------------------------------------------------------------
(***************************************************************************)
(* The invariant holds at first, and each action of the wrapper keeps it.  *)
(***************************************************************************)
LEMMA BytesOfPipe ==
  ASSUME NEW s
  PROVE  ByteOf(s) \subseteq PipeByte /\ Seq(ByteOf(s)) \subseteq Seq(PipeByte)
<1>1. ByteOf(s) \subseteq PipeByte
  BY DEF ByteOf, PipeByte
<1> QED
  BY <1>1

LEMMA WrapperInvInit ==
  ASSUME WrapperInit
  PROVE  WrapperInv
<1> USE DEF WrapperInit
<1>1. WrapperTypes
  <2>1. 0 \in 0 .. WrapperTime
    BY WrapperAssumption
  <2>2. <<>> \in Seq(PipeByte)
    BY EmptySeq
  <2> QED
    BY <2>1, <2>2 DEF WrapperTypes
<1>2. OutputOK(output)
  <2>1. output = [line |-> 1, words |-> 0]
    OBVIOUS
  <2>2. 1 \in 1 .. Len(Written) + 1
    BY WrittenType
  <2>3. output \in [line : 1 .. Len(Written) + 1, words : Nat]
    BY <2>1, <2>2
  <2> QED
    BY <2>1, <2>3, WrittenType DEF OutputOK
<1>3. LogsOK(logs, flushed)
  <2>1. <<>> \in Seq(Good(flushed))
    BY EmptySeq
  <2> QED
    BY <2>1 DEF NoLogs, LogsOK, Heads
<1>4. EntriesOK(entries, output, flushed)
  <2>1. <<>> \in Seq(Good(flushed)) /\ Len(<<>>) = 0 /\ DOMAIN <<>> = {}
    BY EmptySeq, LenProperties
  <2> QED
    BY <2>1 DEF EntriesOK, InOrder, Bounded
<1>5. ASSUME NEW s \in Streams
      PROVE  PipeOK(half[s], pipe[s], s, output, flushed, wrapper = "up", entries)
  <2>1. half[s] = <<>> /\ pipe[s] = <<>>
    OBVIOUS
  <2>2. <<>> \in Seq(ByteOf(s)) /\ <<>> \o <<>> = <<>>
    BY EmptySeq, ConcatEmptySeq
  <2>3. DOMAIN <<>> = {}
    OBVIOUS
  <2>4. ~Writing(output, s)
    BY DEF Writing
  <2>5. TextOK(<<>>, s, output, flushed, wrapper = "up")
    BY <2>2, <2>3, <2>4 DEF TextOK, Chained
  <2>6. AllAhead(entries, s, <<>>)
    BY <2>3 DEF AllAhead
  <2> QED
    BY <2>1, <2>2, <2>5, <2>6 DEF PipeOK
<1>6. bytes = Bytes(entries)
  BY BytesOfNothing
<1> QED
  BY <1>1, <1>2, <1>3, <1>4, <1>5, <1>6 DEF WrapperInv

LEMMA BehindGoesOn ==
  ASSUME NEW o, OutputOK(o), o.line \in DOMAIN Written, NEW p \in WholeWords, Behind(p, o)
  PROVE  Behind(p, NextPlace(o)) /\ Ahead(p, NextByte(o.line, o.words))
<1> DEFINE b == NextByte(o.line, o.words)
           q == NextPlace(o)
<1>1. \/ b = <<o.line, Newline>> /\ q = [line |-> o.line + 1, words |-> 0]
      \/ b = <<o.line, o.words + 1>> /\ q = [line |-> o.line, words |-> o.words + 1]
  BY NextPlaceType
<1>2. o.line \in Nat /\ o.words \in Nat /\ p.line \in Nat /\ p.to \in Nat
  <2>1. p.line \in DOMAIN Written /\ p.to \in Nat
    BY DEF WholeWords, Piece
  <2> QED
    BY <2>1, WrittenType DEF OutputOK
<1> HIDE DEF b, q
<1>3. p.line < o.line \/ (p.line = o.line /\ p.to <= o.words)
  BY DEF Behind
<1>4. CASE b = <<o.line, Newline>> /\ q = [line |-> o.line + 1, words |-> 0]
  <2>1. b[1] = o.line /\ b[2] = Newline /\ q.line = o.line + 1
    BY <1>4
  <2>2. p.line < o.line + 1
    BY <1>2, <1>3
  <2> QED
    BY <1>3, <2>1, <2>2 DEF Behind, Ahead, b, q
<1>5. CASE b = <<o.line, o.words + 1>> /\ q = [line |-> o.line, words |-> o.words + 1]
  <2>1. b[1] = o.line /\ b[2] = o.words + 1 /\ q.line = o.line /\ q.words = o.words + 1
    BY <1>5
  <2>2. p.to <= o.words => p.to < o.words + 1 /\ p.to <= o.words + 1
    BY <1>2
  <2> QED
    BY <1>3, <2>1, <2>2 DEF Behind, Ahead, b, q
<1> QED
  BY <1>1, <1>4, <1>5

LEMMA GoodPiece ==
  ASSUME NEW F, NEW es \in Seq(Good(F)), NEW j \in DOMAIN es
  PROVE  es[j].piece \in WholeWords
<1>1. es[j] \in Good(F)
  BY LenProperties, ElementOfSeq
<1> QED
  BY <1>1 DEF Good

LEMMA WrapperInvWrites ==
  ASSUME WrapperInv, ProgramWrites
  PROVE  WrapperInv'
<1> DEFINE r == Written[output.line].stream
           b == NextByte(output.line, output.words)
           up == wrapper = "up"
<1>1. /\ output.line \in DOMAIN Written
      /\ pipe' = [pipe EXCEPT ![r] = Append(@, b)]
      /\ output' = NextPlace(output)
      /\ UNCHANGED <<clock, program, wrapper, half, flushed, entries, bytes, logged, logs>>
  BY DEF ProgramWrites, NextPlace
<1>2. r \in Streams
  BY <1>1, WrittenType
<1>3. OutputOK(output) /\ OutputOK(output') /\ b \in ByteOf(r)
  <2>1. OutputOK(output)
    BY DEF WrapperInv
  <2>2. OutputOK(NextPlace(output)) /\ b \in ByteOf(r)
    BY <1>1, <2>1, NextPlaceType
  <2> QED
    BY <1>1, <2>1, <2>2
<1>4. pipe \in [Streams -> Seq(PipeByte)] /\ pipe' \in [Streams -> Seq(PipeByte)]
      /\ pipe'[r] = Append(pipe[r], b) /\ \A s \in Streams : s # r => pipe'[s] = pipe[s]
  <2>1. pipe \in [Streams -> Seq(PipeByte)]
    BY DEF WrapperInv, WrapperTypes
  <2>2. Append(pipe[r], b) \in Seq(PipeByte)
    <3>1. b \in PipeByte /\ pipe[r] \in Seq(PipeByte)
      BY <1>2, <1>3, <2>1, BytesOfPipe
    <3> QED
      BY <3>1, AppendProperties
  <2> HIDE DEF b, r
  <2> QED
    BY <1>1, <1>2, <2>1, <2>2
<1>5. WrapperTypes'
  BY <1>1, <1>4 DEF WrapperInv, WrapperTypes
<1>6. EntriesOK(entries', output', flushed')
  <2>1. EntriesOK(entries, output, flushed)
    BY DEF WrapperInv
  <2>2. ASSUME NEW i \in DOMAIN entries PROVE Behind(entries[i].piece, NextPlace(output))
    <3>1. entries[i].piece \in WholeWords
      BY <2>1, GoodPiece DEF EntriesOK
    <3>2. Behind(entries[i].piece, output)
      BY <2>1 DEF EntriesOK
    <3> QED
      BY <1>1, <1>3, <3>1, <3>2, BehindGoesOn
  <2>3. EntriesOK(entries, NextPlace(output), flushed)
    BY <2>1, <2>2 DEF EntriesOK
  <2> QED
    BY <1>1, <2>3
<1>7. ASSUME NEW s \in Streams
      PROVE  PipeOK(half[s], pipe'[s], s, NextPlace(output), flushed, up, entries)
  <2> DEFINE t == half[s] \o pipe[s]
  <2>1. /\ half[s] \in Seq(ByteOf(s)) /\ pipe[s] \in Seq(ByteOf(s))
        /\ TextOK(t, s, output, flushed, up) /\ AllAhead(entries, s, t)
    BY DEF WrapperInv, PipeOK
  <2>2. up \in BOOLEAN
    OBVIOUS
  <2>3. CASE s # r
    <3>1. pipe'[s] = pipe[s]
      BY <1>4, <2>3
    <3> HIDE DEF up
    <3>2. TextOK(t, s, NextPlace(output), flushed, up)
      BY <1>1, <1>3, <2>1, <2>2, <2>3, OtherText
    <3> QED
      BY <2>1, <3>1, <3>2 DEF PipeOK
  <2>4. CASE s = r
    <3> HIDE DEF up
    <3>1. pipe'[s] = Append(pipe[s], b)
      BY <1>4, <2>4
    <3>2. Append(pipe[s], b) \in Seq(ByteOf(s)) /\ half[s] \o Append(pipe[s], b) = Append(t, b)
      <4>1. b \in ByteOf(s)
        BY <1>3, <2>4
      <4>2. t \in Seq(ByteOf(s)) /\ <<b>> \in Seq(ByteOf(s))
        BY <2>1, <4>1, ConcatProperties
      <4> HIDE DEF b
      <4>3. Append(pipe[s], b) = pipe[s] \o <<b>> /\ Append(t, b) = t \o <<b>>
        BY <2>1, <4>1, <4>2, AppendIsConcat
      <4>4. (half[s] \o pipe[s]) \o <<b>> = half[s] \o (pipe[s] \o <<b>>)
        <5>1. half[s] \in Seq(ByteOf(s)) /\ pipe[s] \in Seq(ByteOf(s)) /\ <<b>> \in Seq(ByteOf(s))
          BY <2>1, <4>2
        <5>2. \A h, p, x \in Seq(ByteOf(s)) : (h \o p) \o x = h \o (p \o x)
          BY ConcatAssociative
        <5> QED
          BY <5>1, <5>2
      <4>5. Append(pipe[s], b) \in Seq(ByteOf(s))
        BY <2>1, <4>1, AppendProperties
      <4> QED
        BY <4>3, <4>4, <4>5
    <3>3. TextOK(Append(t, b), s, NextPlace(output), flushed, up)
      <4> HIDE DEF t
      <4>1. TextOK(t, Written[output.line].stream, output, flushed, up)
        BY <2>1, <2>4
      <4> QED
        BY <1>1, <1>3, <2>2, <2>4, <4>1, TextGrows
    <3>4. AllAhead(entries, s, Append(t, b))
      <4> SUFFICES ASSUME NEW j \in DOMAIN entries, Written[entries[j].piece.line].stream = s,
                          NEW i \in DOMAIN Append(t, b)
                   PROVE  Ahead(entries[j].piece, Append(t, b)[i])
        BY DEF AllAhead
      <4>1. t \in Seq(ByteOf(s)) /\ b \in ByteOf(s)
        BY <1>3, <2>1, <2>4 DEF TextOK
      <4> HIDE DEF t, b
      <4>2. /\ Len(t) \in Nat /\ DOMAIN t = 1 .. Len(t) /\ DOMAIN Append(t, b) = 1 .. Len(t) + 1
            /\ \A k \in 1 .. Len(t) : Append(t, b)[k] = t[k]
            /\ Append(t, b)[Len(t) + 1] = b
        <5>1. Append(t, b) \in Seq(ByteOf(s)) /\ Len(Append(t, b)) = Len(t) + 1
              /\ \A k \in 1 .. Len(t) : Append(t, b)[k] = t[k]
              /\ Append(t, b)[Len(t) + 1] = b
          BY <4>1, AppendProperties
        <5> QED
          BY <4>1, <5>1, LenProperties
      <4>3. CASE i = Len(t) + 1
        <5>1. EntriesOK(entries, output, flushed)
          BY DEF WrapperInv
        <5>2. entries[j].piece \in WholeWords /\ Behind(entries[j].piece, output)
          BY <5>1, GoodPiece DEF EntriesOK
        <5>3. Ahead(entries[j].piece, b)
          BY <1>1, <1>3, <5>2, BehindGoesOn DEF b
        <5> QED
          BY <4>2, <4>3, <5>3
      <4>4. CASE i # Len(t) + 1
        <5>1. i \in DOMAIN t /\ Append(t, b)[i] = t[i]
          BY <4>2, <4>4
        <5>2. Ahead(entries[j].piece, t[i])
          BY <2>1, <5>1 DEF AllAhead, t
        <5> QED
          BY <5>1, <5>2
      <4> QED
        BY <4>3, <4>4
    <3> HIDE DEF t
    <3> QED
      BY <2>1, <3>1, <3>2, <3>3, <3>4 DEF PipeOK
  <2> QED
    BY <2>3, <2>4
<1>8. \A s \in Streams : PipeOK(half'[s], pipe'[s], s, output', flushed', wrapper' = "up", entries')
  BY <1>1, <1>7
<1>9. LogsOK(logs', flushed') /\ bytes' = Bytes(entries')
  BY <1>1 DEF WrapperInv
<1> QED
  BY <1>3, <1>5, <1>6, <1>8, <1>9 DEF WrapperInv

LEMMA WrapperInvData ==
  ASSUME WrapperInv, NEW s \in Streams, Data(s)
  PROVE  WrapperInv'
<1> DEFINE t == half[s] \o pipe[s]
           ps == Pieces(Processable(t))
           up == wrapper = "up"
           o == output
           F == flushed
<1>1. /\ wrapper = "up" /\ pipe[s] # <<>>
      /\ pipe' = [pipe EXCEPT ![s] = <<>>]
      /\ half' = [half EXCEPT ![s] = Remainder(s, t)]
      /\ flushed' = IF LastEnd(t) = 0 THEN flushed \cup {t[Len(t)]} ELSE flushed
      /\ logged' = [logged EXCEPT ![s] = @ + WordCount(ps)]
      /\ UNCHANGED <<clock, output, program, wrapper>>
  BY DEF Data, Take
<1>2. PICK count \in RedactsUpTo :
        /\ entries' = Filled(ps, count) /\ bytes' = Buffered(ps, count).bytes
        /\ logs' = logs \/ \E block \in Blocks!ErrorBlock(Lines(ps)) : Keep(block.head, Buffered(ps, count))
  BY DEF Data, Filled
<1>3. /\ WrapperTypes /\ OutputOK(o) /\ LogsOK(logs, F) /\ EntriesOK(entries, o, F) /\ bytes = Bytes(entries)
      /\ \A r \in Streams : PipeOK(half[r], pipe[r], r, o, F, up, entries)
  BY DEF WrapperInv
<1>4. /\ half[s] \in Seq(ByteOf(s)) /\ pipe[s] \in Seq(ByteOf(s))
      /\ TextOK(t, s, o, F, TRUE) /\ AllAhead(entries, s, t)
  BY <1>1, <1>3 DEF PipeOK
<1>5. t \in Seq(ByteOf(s)) /\ Chained(t) /\ t # <<>>
  <2>1. t \in Seq(ByteOf(s)) /\ Chained(t)
    BY <1>4 DEF TextOK
  <2>2. t # <<>>
    BY <1>1, <1>4, ConcatEqualIffEmpty
  <2> QED
    BY <2>1, <2>2
<1> HIDE DEF t, ps, up
<1>6. F \subseteq flushed' /\ (LastEnd(t) = 0 => t[Len(t)] \in flushed')
  BY <1>1
<1>7. flushed' \subseteq PipeByte
  <2>1. t[Len(t)] \in PipeByte
    <3>1. Len(t) \in 1 .. Len(t)
      BY <1>5, EmptySeq
    <3>2. t[Len(t)] \in ByteOf(s)
      BY <1>5, <3>1, ElementOfSeq
    <3> QED
      BY <3>2, BytesOfPipe
  <2> QED
    BY <1>1, <1>3, <2>1 DEF WrapperTypes
<1>8. PICK n : CutsAt(s, t, n)
  BY <1>5, ChunkCut
<1> DEFINE E == flushed'
           r == Remainder(s, t)
<1>9. /\ TextOK(r, s, o, E, TRUE)
      /\ n \in DOMAIN t /\ Len(t) \in Nat /\ n \in Nat /\ n <= Len(t)
      /\ \A i \in DOMAIN r : r[i] = t[n + i] /\ n + i \in DOMAIN t /\ i \in Nat \ {0}
  <2> HIDE DEF E
  <2>1. F \subseteq E /\ (LastEnd(t) = 0 => t[Len(t)] \in E)
    BY <1>6 DEF E
  <2> QED
    BY <1>3, <1>4, <1>5, <1>8, <2>1, RestOK
<1> HIDE DEF E, r
<1>10. F \subseteq E /\ (LastEnd(t) = 0 => t[Len(t)] \in E)
  BY <1>6 DEF E
<1>11. /\ ps \in Seq(WholeWords)
       /\ \A m \in DOMAIN ps : ChunkPiece(s, t, n, E, ps[m])
       /\ \A l, m \in DOMAIN ps : l < m => PieceBefore(ps[l], ps[m])
  <2>1. IsFirst(t[1]) \/ CutIn(F, t[1][1])
    BY <1>4, <1>5 DEF TextOK
  <2>2. IsFirst(t[1]) \/ CutIn(E, t[1][1])
    BY <1>10, <2>1, CutInGrows
  <2> QED
    BY <1>5, <1>8, <1>10, <2>2, ChunkPieces DEF ps
<1>12. clock \in Nat
  BY <1>3, WrapperAssumption DEF WrapperTypes
<1>13. /\ entries \in Seq(Good(E)) /\ InOrder(entries) /\ Bounded(entries)
       /\ \A i \in DOMAIN entries : Behind(entries[i].piece, o)
  <2>1. Good(F) \subseteq Good(E)
    BY <1>10, GoodGrows
  <2>2. entries \in Seq(Good(F))
    BY <1>3 DEF EntriesOK
  <2>3. entries \in Seq(Good(E))
    BY <2>1, <2>2
  <2> QED
    BY <1>3, <2>3 DEF EntriesOK
<1> DEFINE buffer == Filled(ps, count)
<1>14. FilledTo(buffer, entries, E, ps, Len(ps)) /\ Buffered(ps, count) = RingOf(buffer)
  BY <1>3, <1>4, <1>5, <1>9, <1>11, <1>12, <1>13, ChunkBuffers DEF AllAhead
<1> HIDE DEF buffer
<1>15. DOMAIN ps = 1 .. Len(ps)
  BY <1>11, LenProperties
<1>16. buffer \in Seq(Good(E)) /\ InOrder(buffer) /\ Bounded(buffer)
       /\ \A i \in DOMAIN buffer : \/ \E j \in DOMAIN entries : buffer[i] = entries[j]
                                   \/ \E j \in DOMAIN ps : buffer[i].piece = ps[j]
  BY <1>14, <1>15 DEF FilledTo
<1>17. EntriesOK(buffer, o, E)
  <2>1. ASSUME NEW i \in DOMAIN buffer PROVE Behind(buffer[i].piece, o)
    <3>1. CASE \E j \in DOMAIN entries : buffer[i] = entries[j]
      BY <1>13, <3>1
    <3>2. CASE \E j \in DOMAIN ps : buffer[i].piece = ps[j]
      <4>1. PICK j \in DOMAIN ps : buffer[i].piece = ps[j]
        BY <3>2
      <4>2. ps[j] \in WholeWords /\ PieceIn(t, n, ps[j])
        BY <1>11 DEF ChunkPiece
      <4>3. Behind(ps[j], o)
        BY <1>3, <1>4, <1>5, <1>9, <4>2, PieceBehind
      <4> QED
        BY <4>1, <4>3
    <3> QED
      BY <1>16, <3>1, <3>2
  <2> QED
    BY <1>16, <2>1 DEF EntriesOK
<1>18. LogsOK(logs', E)
  <2>1. LogsOK(logs, E)
    <3>1. Good(F) \subseteq Good(E)
      BY <1>10, GoodGrows
    <3> QED
      BY <1>3, <3>1 DEF LogsOK
  <2>2. CASE logs' = logs
    BY <2>1, <2>2
  <2>3. CASE \E block \in Blocks!ErrorBlock(Lines(ps)) : Keep(block.head, RingOf(buffer))
    <3>1. PICK block \in Blocks!ErrorBlock(Lines(ps)) : Keep(block.head, RingOf(buffer))
      BY <2>3
    <3>2. block.head \in Heads
      <4>1. Lines(ps) \in Seq(Heads) /\ Blocks!Unknown \in Heads
        BY <1>11, LinesType DEF Heads
      <4> QED
        BY <4>1, BlockHead
    <3> QED
      BY <1>16, <2>1, <3>1, <3>2, KeepType
  <2> QED
    BY <1>2, <1>14, <2>2, <2>3
<1>19. ASSUME NEW q \in Streams PROVE AllAhead(buffer, q, half'[q] \o pipe'[q])
                                      /\ TextOK(half'[q] \o pipe'[q], q, o, E, TRUE)
                                      /\ half'[q] \in Seq(ByteOf(q)) /\ pipe'[q] \in Seq(ByteOf(q))
  <2>1. half \in [Streams -> Seq(PipeByte)] /\ pipe \in [Streams -> Seq(PipeByte)]
    BY <1>3 DEF WrapperTypes
  <2>2. CASE q = s
    <3>1. half'[q] = r /\ pipe'[q] = <<>>
      BY <1>1, <2>1, <2>2 DEF r
    <3>2. r \in Seq(ByteOf(q)) /\ <<>> \in Seq(ByteOf(q))
      BY <1>9, <2>2, EmptySeq DEF TextOK
    <3>3. half'[q] \o pipe'[q] = r
      BY <3>1, <3>2, ConcatEmptySeq
    <3>4. AllAhead(buffer, q, r)
      <4> SUFFICES ASSUME NEW j \in DOMAIN buffer, Written[buffer[j].piece.line].stream = q,
                          NEW i \in DOMAIN r
                   PROVE  Ahead(buffer[j].piece, r[i])
        BY DEF AllAhead
      <4>1. r[i] = t[n + i] /\ n + i \in DOMAIN t /\ i \in Nat \ {0} /\ n \in Nat
        BY <1>9
      <4>2. CASE \E l \in DOMAIN entries : buffer[j] = entries[l]
        BY <1>4, <2>2, <4>1, <4>2 DEF AllAhead
      <4>3. CASE \E l \in DOMAIN ps : buffer[j].piece = ps[l]
        <5>1. PICK l \in DOMAIN ps : buffer[j].piece = ps[l]
          BY <4>3
        <5>2. PieceIn(t, n, ps[l])
          BY <1>11 DEF ChunkPiece
        <5>3. n < n + i
          BY <4>1
        <5>4. Ahead(ps[l], t[n + i])
          BY <1>5, <1>9, <4>1, <5>2, <5>3, PieceAheadOf
        <5> QED
          BY <4>1, <5>1, <5>4
      <4> QED
        BY <1>16, <4>2, <4>3
    <3> QED
      BY <1>9, <2>2, <3>1, <3>2, <3>3, <3>4
  <2>3. CASE q # s
    <3>1. half'[q] = half[q] /\ pipe'[q] = pipe[q]
      BY <1>1, <2>1, <2>3
    <3>2. /\ half[q] \in Seq(ByteOf(q)) /\ pipe[q] \in Seq(ByteOf(q))
          /\ TextOK(half[q] \o pipe[q], q, o, F, TRUE) /\ AllAhead(entries, q, half[q] \o pipe[q])
      BY <1>1, <1>3 DEF PipeOK, up
    <3>3. TextOK(half[q] \o pipe[q], q, o, E, TRUE)
      BY <1>10, <3>2, TextOKGrows
    <3>4. AllAhead(buffer, q, half[q] \o pipe[q])
      <4> SUFFICES ASSUME NEW j \in DOMAIN buffer, Written[buffer[j].piece.line].stream = q
                   PROVE  \E l \in DOMAIN entries : buffer[j] = entries[l]
        BY <3>2 DEF AllAhead
      <4>1. SUFFICES ASSUME NEW l \in DOMAIN ps, buffer[j].piece = ps[l] PROVE FALSE
        BY <1>16
      <4>2. Written[ps[l].line].stream = s
        BY <1>11 DEF ChunkPiece
      <4> QED
        BY <2>3, <4>1, <4>2
    <3> QED
      BY <3>1, <3>2, <3>3, <3>4
  <2> QED
    BY <2>2, <2>3
<1>20. WrapperTypes'
  <2>1. half' \in [Streams -> Seq(PipeByte)] /\ pipe' \in [Streams -> Seq(PipeByte)]
    <3>1. r \in Seq(PipeByte) /\ <<>> \in Seq(PipeByte)
      <4>1. r \in Seq(ByteOf(s))
        BY <1>9 DEF TextOK
      <4> QED
        BY <4>1, BytesOfPipe, EmptySeq
    <3> QED
      BY <1>1, <1>3, <3>1 DEF WrapperTypes, r
  <2>2. logged' \in [Streams -> Nat]
    <3>1. WordCount(ps) \in Nat
      BY <1>11, WordCountType
    <3>2. logged \in [Streams -> Nat]
      BY <1>3 DEF WrapperTypes
    <3>3. logged[s] + WordCount(ps) \in Nat
      BY <3>1, <3>2
    <3> QED
      BY <1>1, <3>2, <3>3
  <2> QED
    BY <1>1, <1>3, <1>7, <2>1, <2>2 DEF WrapperTypes
<1>21. entries' = buffer /\ bytes' = Bytes(entries')
  <2>1. entries' = buffer
    BY <1>2 DEF buffer
  <2>2. RingOf(buffer).bytes = Bytes(buffer)
    BY DEF RingOf
  <2> QED
    BY <1>2, <1>14, <2>1, <2>2
<1>22. \A q \in Streams : PipeOK(half'[q], pipe'[q], q, output', flushed', wrapper' = "up", entries')
  BY <1>1, <1>19, <1>21 DEF PipeOK, E
<1>23. OutputOK(output') /\ EntriesOK(entries', output', flushed') /\ LogsOK(logs', flushed')
  BY <1>1, <1>3, <1>17, <1>18, <1>21 DEF E
<1> QED
  BY <1>20, <1>21, <1>22, <1>23 DEF WrapperInv

\* The end of a chained text is chained, and has its end.
LEMMA TailChained ==
  ASSUME NEW S, NEW h \in Seq(S), NEW p \in Seq(S), Chained(h \o p)
  PROVE  Chained(p) /\ (p # <<>> => p[Len(p)] = (h \o p)[Len(h \o p)])
<1> DEFINE t == h \o p
<1>1. /\ Len(h) \in Nat /\ Len(p) \in Nat /\ DOMAIN p = 1 .. Len(p)
      /\ t \in Seq(S) /\ Len(t) = Len(h) + Len(p)
      /\ \A i \in 1 .. Len(h) + Len(p) : t[i] = IF i <= Len(h) THEN h[i] ELSE p[i - Len(h)]
  BY LenProperties, ConcatProperties
<1>2. DOMAIN t = 1 .. Len(h) + Len(p)
  BY <1>1, LenProperties
<1>3. ASSUME NEW i \in DOMAIN p PROVE p[i] = t[Len(h) + i] /\ Len(h) + i \in DOMAIN t
  <2>1. /\ Len(h) + i \in 1 .. Len(h) + Len(p) /\ ~(Len(h) + i <= Len(h))
        /\ (Len(h) + i) - Len(h) = i
    BY <1>1
  <2> HIDE DEF t
  <2> QED
    BY <1>1, <1>2, <2>1
<1>4. Chained(t)
  OBVIOUS
<1> HIDE DEF t
<1>5. Chained(p)
  <2> SUFFICES ASSUME NEW i \in DOMAIN p, i + 1 \in DOMAIN p PROVE Follows(p[i], p[i + 1])
    BY DEF Chained
  <2>1. /\ p[i] = t[Len(h) + i] /\ Len(h) + i \in DOMAIN t
        /\ p[i + 1] = t[Len(h) + (i + 1)] /\ Len(h) + (i + 1) \in DOMAIN t
    BY <1>3
  <2>2. Len(h) + (i + 1) = (Len(h) + i) + 1
    BY <1>1
  <2>3. Follows(t[Len(h) + i], t[(Len(h) + i) + 1])
    BY <1>4, <2>1, <2>2 DEF Chained
  <2> QED
    BY <2>1, <2>2, <2>3
<1>6. p # <<>> => p[Len(p)] = t[Len(t)]
  <2> SUFFICES ASSUME p # <<>> PROVE p[Len(p)] = t[Len(t)]
    OBVIOUS
  <2>1. Len(p) \in DOMAIN p
    BY <1>1, EmptySeq
  <2> QED
    BY <1>1, <1>3, <2>1
<1> QED
  BY <1>5, <1>6 DEF t

\* The wrapper ends, with its pipes or with one of them read.
LEMMA WrapperInvEnds ==
  ASSUME WrapperInv, wrapper' = "ended", half' = [s \in Streams |-> <<>>], entries' = <<>>, bytes' = 0,
         UNCHANGED <<clock, output, program, flushed, logged>>, LogsOK(logs', flushed),
         pipe' = pipe \/ \E s \in Streams : pipe' = [pipe EXCEPT ![s] = <<>>]
  PROVE  WrapperInv'
<1>1. /\ wrapper' = "ended" /\ half' = [s \in Streams |-> <<>>] /\ entries' = <<>>
      /\ UNCHANGED <<clock, output, program, flushed, logged>>
  OBVIOUS
<1>2. /\ WrapperTypes /\ OutputOK(output) /\ LogsOK(logs, flushed) /\ EntriesOK(entries, output, flushed)
      /\ \A s \in Streams : PipeOK(half[s], pipe[s], s, output, flushed, wrapper = "up", entries)
  BY DEF WrapperInv
<1>3. WrapperTypes'
  <2>1. <<>> \in Seq(PipeByte)
    BY EmptySeq
  <2>2. pipe' \in [Streams -> Seq(PipeByte)]
    BY <1>2, <2>1 DEF WrapperTypes
  <2> QED
    BY <1>1, <1>2, <2>1, <2>2 DEF WrapperTypes
<1>4. LogsOK(logs', flushed') /\ bytes' = Bytes(entries')
  BY <1>1, BytesOfNothing
<1>5. EntriesOK(entries', output', flushed')
  <2>1. <<>> \in Seq(Good(flushed)) /\ Len(<<>>) = 0 /\ DOMAIN <<>> = {}
    BY EmptySeq, LenProperties
  <2>2. EntriesOK(<<>>, output, flushed)
    BY <2>1 DEF EntriesOK, InOrder, Bounded
  <2> QED
    BY <1>1, <2>2
<1>6. ASSUME NEW s \in Streams
      PROVE  /\ PipeOK(<<>>, pipe[s], s, output, flushed, FALSE, <<>>)
             /\ PipeOK(<<>>, <<>>, s, output, flushed, FALSE, <<>>)
  <2>1. /\ half[s] \in Seq(ByteOf(s)) /\ pipe[s] \in Seq(ByteOf(s))
        /\ TextOK(half[s] \o pipe[s], s, output, flushed, wrapper = "up")
    BY <1>2 DEF PipeOK
  <2>2. <<>> \in Seq(ByteOf(s)) /\ <<>> \o pipe[s] = pipe[s]
    BY <2>1, EmptySeq, ConcatEmptySeq
  <2>3. /\ Chained(pipe[s])
        /\ pipe[s] # <<>> => pipe[s][Len(pipe[s])] = (half[s] \o pipe[s])[Len(half[s] \o pipe[s])]
    BY <2>1, TailChained DEF TextOK
  <2>4. ASSUME pipe[s] # <<>> PROVE EndsWith(pipe[s], s, output)
    <3>1. half[s] \o pipe[s] # <<>>
      BY <2>1, <2>4, ConcatEqualIffEmpty
    <3>2. EndsWith(half[s] \o pipe[s], s, output)
      BY <2>1, <3>1 DEF TextOK
    <3> QED
      BY <2>3, <2>4, <3>2 DEF EndsWith
  <2>5. TextOK(pipe[s], s, output, flushed, FALSE)
    BY <2>1, <2>3, <2>4 DEF TextOK
  <2>6. AllAhead(<<>>, s, pipe[s]) /\ AllAhead(<<>>, s, <<>>)
    BY DEF AllAhead
  <2>7. TextOK(<<>>, s, output, flushed, FALSE)
    BY <2>2 DEF TextOK, Chained
  <2>8. <<>> \o <<>> = <<>>
    BY EmptySeq, ConcatEmptySeq
  <2> QED
    BY <2>1, <2>2, <2>5, <2>6, <2>7, <2>8 DEF PipeOK
<1>7. \A s \in Streams : PipeOK(half'[s], pipe'[s], s, output', flushed', wrapper' = "up", entries')
  <2> SUFFICES ASSUME NEW s \in Streams
               PROVE  PipeOK(half'[s], pipe'[s], s, output', flushed', wrapper' = "up", entries')
    OBVIOUS
  <2>1. half'[s] = <<>> /\ (wrapper' = "up") = FALSE
    BY <1>1
  <2>2. pipe'[s] = pipe[s] \/ pipe'[s] = <<>>
    BY <1>2 DEF WrapperTypes
  <2> QED
    BY <1>1, <1>6, <2>1, <2>2
<1>8. OutputOK(output')
  BY <1>1, <1>2
<1> QED
  BY <1>3, <1>4, <1>5, <1>7, <1>8 DEF WrapperInv

LEMMA WrapperInvExit ==
  ASSUME WrapperInv, ExitEvent
  PROVE  WrapperInv'
<1>1. /\ wrapper' = "ended" /\ half' = [s \in Streams |-> <<>>] /\ entries' = <<>> /\ bytes' = 0
      /\ UNCHANGED <<clock, output, program, pipe, flushed, logged>>
      /\ (logs' = logs \/ Keep(Blocks!Unknown, [entries |-> entries, bytes |-> bytes]))
  BY DEF ExitEvent
<1>2. LogsOK(logs, flushed) /\ EntriesOK(entries, output, flushed) /\ bytes = Bytes(entries)
  BY DEF WrapperInv
<1>3. LogsOK(logs', flushed)
  <2>1. CASE logs' = logs
    BY <1>2, <2>1
  <2>2. CASE Keep(Blocks!Unknown, [entries |-> entries, bytes |-> bytes])
    <3>1. Blocks!Unknown \in Heads /\ entries \in Seq(Good(flushed))
      BY <1>2 DEF Heads, EntriesOK
    <3>2. [entries |-> entries, bytes |-> bytes] = RingOf(entries)
      BY <1>2 DEF RingOf
    <3>3. Keep(Blocks!Unknown, RingOf(entries))
      BY <2>2, <3>2
    <3> QED
      BY <1>2, <3>1, <3>3, KeepType
  <2> QED
    BY <1>1, <2>1, <2>2
<1> QED
  BY <1>1, <1>3, WrapperInvEnds

LEMMA WrapperInvThrows ==
  ASSUME WrapperInv, NEW s \in Streams, HandlerThrows(s)
  PROVE  WrapperInv'
<1>1. /\ wrapper' = "ended" /\ half' = [r \in Streams |-> <<>>] /\ entries' = <<>> /\ bytes' = 0
      /\ UNCHANGED <<clock, output, program, flushed, logged, logs>>
      /\ pipe' = [pipe EXCEPT ![s] = <<>>]
  BY DEF HandlerThrows, Take
<1>2. LogsOK(logs', flushed)
  BY <1>1 DEF WrapperInv
<1> QED
  BY <1>1, <1>2, WrapperInvEnds

LEMMA WrapperInvStays ==
  ASSUME WrapperInv, [ObserversNext]_observersVars
  PROVE  WrapperInv'
<1>1. CASE ProgramWrites
  BY <1>1, WrapperInvWrites
<1>2. CASE ProgramEnds \/ Pass
  <2>1. /\ UNCHANGED <<output, wrapper, pipe, half, flushed, entries, bytes, logged, logs>>
        /\ clock' \in 0 .. WrapperTime /\ program' \in {"running", "ended"}
    <3>1. CASE ProgramEnds
      BY <3>1 DEF ProgramEnds, WrapperInv, WrapperTypes
    <3>2. CASE Pass
      <4>1. clock' \in 0 .. WrapperTime
        BY <3>2, WrapperAssumption DEF Pass, WrapperInv, WrapperTypes
      <4> QED
        BY <3>2, <4>1 DEF Pass, WrapperInv, WrapperTypes
    <3> QED
      BY <1>2, <3>1, <3>2
  <2> QED
    BY <2>1 DEF WrapperInv, WrapperTypes
<1>3. CASE ExitEvent
  BY <1>3, WrapperInvExit
<1>4. CASE \E s \in Streams : Data(s)
  BY <1>4, WrapperInvData
<1>5. CASE \E s \in Streams : HandlerThrows(s)
  BY <1>5, WrapperInvThrows
<1>6. CASE UNCHANGED wrapperVars
  BY <1>6 DEF wrapperVars, WrapperInv, WrapperTypes
<1> QED
  BY <1>1, <1>2, <1>3, <1>4, <1>5, <1>6 DEF ObserversNext, Agent, Run, WrapperNext, observersVars

\* What the wrapper has not logged of a pipe goes on, byte by byte, from what it has
\* logged to what the program writes, and what it keeps is cut and redacted as it must
\* be: the invariant from which the others follow (handleData over both pipes).
THEOREM NothingIsMixedUp == ObserversSpec => []WrapperInv
<1>1. ObserversInit => WrapperInv
  BY WrapperInvInit DEF ObserversInit
<1>2. WrapperInv /\ [ObserversNext]_observersVars => WrapperInv'
  BY WrapperInvStays
<1> QED
  BY <1>1, <1>2, PTL DEF ObserversSpec

LEMMA WrapperInvTypes ==
  ASSUME WrapperInv
  PROVE  WrapperTypeOK
<1>1. Good(flushed) \subseteq LogEntry
  BY DEF Good
<1>2. entries \in Seq(LogEntry) /\ logs.kept \in Seq(LogEntry)
  BY <1>1 DEF WrapperInv, EntriesOK, LogsOK
<1>3. bytes \in Nat
  <2>1. Len(entries) + 1 \in 1 .. Len(entries) + 1
    BY <1>2, LenProperties
  <2> QED
    BY <1>2, <2>1, BytesOfParts DEF WrapperInv
<1> QED
  BY <1>2, <1>3 DEF WrapperInv, WrapperTypes, WrapperTypeOK, OutputOK, LogsOK, Heads, PipeByte

\* The variables of both observers keep their types.
THEOREM ObserversTypes == ObserversSpec => []ObserversTypeOK
<1>1. WrapperInv /\ TypeInv => ObserversTypeOK
  BY WrapperInvTypes DEF TypeInv, ObserversTypeOK
<1> QED
  BY <1>1, NothingIsMixedUp, TailerTypes, PTL

\* The running count of the buffer's bytes never drifts from what the buffer holds, for
\* any output, chunks and times; so the buffer, which is pruned by the count, keeps to
\* its size whatever its limits are, unless its only entry is too large by itself
\* (RingBuffer.push and prune).
THEOREM BufferKeepsItsSize == ObserversSpec => []BufferIsBounded
<1>1. WrapperInv => BufferIsBounded
  BY DEF WrapperInv, EntriesOK, Bounded, BufferIsBounded
<1> QED
  BY <1>1, NothingIsMixedUp, PTL

\* No part of a line is logged twice or before what was written to its pipe before it,
\* for any output and wherever the pipes cut it (handleData).
THEOREM LinesStayInOrder == ObserversSpec => []LinesInOrder
<1>1. WrapperInv => LinesInOrder
  BY DEF WrapperInv, EntriesOK, InOrder, PieceBefore, LinesInOrder
<1> QED
  BY <1>1, NothingIsMixedUp, PTL

\* No secret of a line gets into the buffer or an incident, for any patterns, unless the
\* time for redaction was over or a chunk without a newline cut the line (handleData).
THEOREM SecretsAreKept == ObserversSpec => []SecretsStayOut
<1>1. ASSUME WrapperInv PROVE SecretsStayOut
  <2> SUFFICES ASSUME NEW e \in ToSet(entries) \cup ToSet(logs.kept),
                      ~(e.all < Len(Patterns)), ~CutIn(flushed, e.piece.line)
               PROVE  ToSet(e.message) \cap Secrets(e.piece.line) = {}
    BY DEF SecretsStayOut, CutIn
  <2> DEFINE words == Written[e.piece.line].words
  <2>1. entries \in Seq(Good(flushed)) /\ logs.kept \in Seq(Good(flushed))
    BY <1>1 DEF WrapperInv, EntriesOK, LogsOK
  <2>2. e \in Good(flushed)
    <3>1. \A b \in Seq(Good(flushed)) : \A x \in ToSet(b) : x \in Good(flushed)
      BY LenProperties, ElementOfSeq DEF ToSet
    <3> QED
      BY <2>1, <3>1
  <2>3. /\ e \in LogEntry /\ e.piece \in WholeWords /\ IsWhole(e.piece)
        /\ ToSet(e.message) \subseteq ToSet(Redact(WordsOf(e.piece), e.all))
    BY <2>2 DEF Good, CutOrWhole
  <2>4. e.all = Len(Patterns)
    <3>1. e.all \in 0 .. Len(Patterns)
      BY <2>3, WrapperAssumption DEF LogEntry
    <3>2. Len(Patterns) \in Nat
      BY PatternsType, LenProperties
    <3> QED
      BY <3>1, <3>2
  <2>5. WordsOf(e.piece) = words
    <3>1. e.piece.line \in DOMAIN Written
      BY <2>3 DEF WholeWords, Piece
    <3>2. words \in Seq(Word)
      BY <3>1, WrittenType
    <3>3. words = SubSeq(words, 1, Len(words))
      BY <3>2, LenProperties
    <3> QED
      BY <2>3, <3>3 DEF WordsOf, IsWhole
  <2>6. ToSet(e.message) \subseteq ToSet(Redact(words, Len(Patterns)))
    BY <2>3, <2>4, <2>5
  <2> QED
    BY <2>6 DEF Secrets
<1> QED
  BY <1>1, NothingIsMixedUp, PTL

-----------------------------------------------------------------------------
(***************************************************************************)
(* An excerpt shows what the buffer has of this moment, unless it is full. *)
(***************************************************************************)
\* A young entry of a buffer of the right size is not pruned.
LEMMA StaysPruned ==
  ASSUME NEW es \in Seq(LogEntry), Bounded(es), NEW time \in Nat,
         NEW i \in DOMAIN es, es[i].at + MaxAge >= time
  PROVE  \E j \in DOMAIN Left(es, time) : Left(es, time)[j] = es[i]
<1> DEFINE P == {j \in DOMAIN es : es[j].at + MaxAge >= time} \cup {Len(es) + 1}
           m == Min(P)
           r == From(es, m)
           Q == {j \in DOMAIN r : j = Len(r) \/ Bytes(From(r, j)) <= MaxBytes} \cup {Len(r) + 1}
<1>1. Len(es) \in Nat /\ DOMAIN es = 1 .. Len(es) /\ i \in Nat \ {0} /\ i <= Len(es)
  BY LenProperties
<1>2. P \in SUBSET Nat /\ P # {} /\ P \subseteq 1 .. Len(es) + 1 /\ i \in P
  BY <1>1
<1>3. Young(es, time) = r
  BY DEF Young
<1> HIDE DEF P
<1>4. m \in 1 .. Len(es) + 1 /\ m <= i
  BY <1>2, LeastPlace
<1>5. r \in Seq(LogEntry) /\ Len(r) = Len(es) + 1 - m /\ Ending(r, es)
  BY <1>4, FromType
<1>6. Fitting(r) = From(r, Min(Q))
  BY DEF Fitting
<1> HIDE DEF r, m
<1>7. Len(r) \in Nat /\ DOMAIN r = 1 .. Len(r)
  BY <1>5, LenProperties
<1>8. Len(r) >= 1 /\ 1 \in DOMAIN r
  BY <1>1, <1>4, <1>5, <1>7
<1>9. From(r, 1) = r
  <2>1. r = SubSeq(r, 1, Len(r))
    BY <1>5, LenProperties
  <2> QED
    BY <2>1 DEF From
<1>10. 1 \in Q
  <2>1. CASE Len(r) = 1
    BY <1>8, <2>1
  <2>2. CASE Len(r) # 1
    <3>1. Len(r) <= Len(es) /\ Len(es) > 1
      BY <1>1, <1>4, <1>5, <1>7, <1>8, <2>2
    <3>2. Bytes(es) <= MaxBytes
      BY <3>1 DEF Bounded
    <3>3. Bytes(r) \in Nat /\ Bytes(es) \in Nat /\ Bytes(r) <= Bytes(es)
      BY <1>5, BytesOfEnd
    <3>4. MaxBytes \in Nat
      BY RingBufferAssumption
    <3>5. Bytes(r) <= MaxBytes
      BY <3>2, <3>3, <3>4
    <3> QED
      BY <1>8, <1>9, <3>5
  <2> QED
    BY <2>1, <2>2
<1>11. Q \in SUBSET Nat /\ \A j \in Q : j >= 1
  BY <1>7
<1> HIDE DEF Q
<1>12. Min(Q) = 1
  <2>1. Min(Q) \in Q /\ Min(Q) <= 1
    BY <1>10, <1>11, LeastPlace
  <2>2. Min(Q) \in Nat /\ Min(Q) >= 1
    BY <1>11, <2>1
  <2> QED
    BY <2>1, <2>2
<1>13. Left(es, time) = r
  BY <1>3, <1>6, <1>9, <1>12 DEF Left
<1>14. PICK k \in Nat : /\ k + Len(r) = Len(es)
                        /\ \A j \in DOMAIN r : k + j \in DOMAIN es /\ r[j] = es[k + j]
  BY <1>5 DEF Ending
<1>15. i - k \in DOMAIN r /\ k + (i - k) = i
  BY <1>1, <1>4, <1>5, <1>7, <1>14
<1> QED
  BY <1>13, <1>14, <1>15

\* The words of the messages of an excerpt.
Chars(out) == Bytes(out) - Overhead * Len(out)

HasLine(b, line) == \E i \in DOMAIN b : b[i].piece.line = line

\* What was kept so far of the first entries: all of them, at least in part, or it is full.
CutSoFar(acc, es, n) ==
  /\ acc.left + Chars(acc.out) = MaxChars
  /\ \/ acc.left = 0
     \/ \A i \in 1 .. n : HasLine(acc.out, es[i].piece.line)

LEMMA KeepingShows ==
  ASSUME NEW es \in Seq(LogEntry), NEW n \in 1 .. Len(es),
         NEW acc \in [out : Seq(LogEntry), left : Nat], CutSoFar(acc, es, n - 1)
  PROVE  CutSoFar(Keeping(acc, es[n]), es, n)
<1> DEFINE e == es[n]
           m == Min({Len(e.message), acc.left})
           kept == SubSeq(e.message, 1, m)
           o == [e EXCEPT !.message = kept]
           new == [out |-> Append(acc.out, o), left |-> acc.left - Len(kept)]
<1>1. e \in LogEntry
  BY ElementOfSeq
<1> HIDE DEF e
<1>2. e.message \in Seq(Text) /\ Len(e.message) \in Nat /\ acc.left \in Nat /\ acc.out \in Seq(LogEntry)
  <2>1. e.message \in Seq(Text)
    BY <1>1 DEF LogEntry, Text
  <2> QED
    BY <2>1, LenProperties
<1>3. m \in 0 .. Len(e.message) /\ m <= acc.left
  <2>1. {Len(e.message), acc.left} \in SUBSET Nat
    BY <1>2
  <2>2. m \in {Len(e.message), acc.left} /\ \A x \in {Len(e.message), acc.left} : m <= x
    BY <2>1, LeastPlace
  <2> HIDE DEF m
  <2> QED
    BY <1>2, <2>2
<1> HIDE DEF m
<1>4. kept \in Seq(Text) /\ Len(kept) = m
  BY <1>2, <1>3, CutInTwo
<1> HIDE DEF kept
<1>5. o \in LogEntry /\ o.message = kept /\ o.piece = e.piece
  BY <1>1, <1>4 DEF LogEntry, Text
<1> HIDE DEF o
<1>6. /\ Append(acc.out, o) \in Seq(LogEntry)
      /\ Len(acc.out) \in Nat /\ Len(Append(acc.out, o)) = Len(acc.out) + 1
      /\ DOMAIN acc.out = 1 .. Len(acc.out) /\ DOMAIN Append(acc.out, o) = 1 .. Len(acc.out) + 1
      /\ \A i \in 1 .. Len(acc.out) : Append(acc.out, o)[i] = acc.out[i]
      /\ Append(acc.out, o)[Len(acc.out) + 1] = o
  <2>1. /\ Append(acc.out, o) \in Seq(LogEntry)
        /\ Len(Append(acc.out, o)) = Len(acc.out) + 1
        /\ \A i \in 1 .. Len(acc.out) : Append(acc.out, o)[i] = acc.out[i]
        /\ Append(acc.out, o)[Len(acc.out) + 1] = o
    BY <1>2, <1>5, AppendProperties
  <2> QED
    BY <1>2, <2>1, LenProperties
<1>7. CASE acc.left = 0
  <2>1. Keeping(acc, e) = acc
    BY <1>7 DEF Keeping
  <2> QED
    BY <1>7, <2>1 DEF CutSoFar, e
<1>8. CASE acc.left # 0
  <2>1. Keeping(acc, e) = new
    BY <1>8 DEF Keeping, o, kept, m
  <2>2. new.out = Append(acc.out, o) /\ new.left = acc.left - m
    BY <1>4
  <2> HIDE DEF new
  <2>3. Bytes(new.out) = Bytes(acc.out) + m + Overhead
    BY <1>2, <1>4, <1>5, <2>2, BytesAppended
  <2>4. Bytes(acc.out) \in Nat /\ Overhead \in Nat
    <3>1. PICK f : (\A k \in 0 .. Len(acc.out) : f[k] \in Nat) /\ Bytes(acc.out) = f[Len(acc.out)]
      BY <1>2, BytesSum
    <3>2. Len(acc.out) \in 0 .. Len(acc.out)
      BY <1>6
    <3> QED
      BY <3>1, <3>2, RingBufferAssumption
  <2>5. new.left + Chars(new.out) = MaxChars
    <3>1. acc.left + (Bytes(acc.out) - Overhead * Len(acc.out)) = MaxChars
      BY DEF CutSoFar, Chars
    <3>2. Overhead * (Len(acc.out) + 1) = Overhead * Len(acc.out) + Overhead
          /\ Overhead * Len(acc.out) \in Nat
      BY <1>6, <2>4
    <3>3. (acc.left - m) + ((Bytes(acc.out) + m + Overhead) - (Overhead * Len(acc.out) + Overhead)) = MaxChars
      <4> DEFINE x == Overhead * Len(acc.out)
                 y == Bytes(acc.out)
      <4>1. x \in Nat /\ y \in Nat /\ Overhead \in Nat /\ m \in Nat /\ acc.left \in Nat
            /\ acc.left + (y - x) = MaxChars
        BY <1>2, <1>3, <2>4, <3>1, <3>2
      <4> HIDE DEF x, y
      <4>2. (acc.left - m) + ((y + m + Overhead) - (x + Overhead)) = acc.left + (y - x)
        BY <4>1
      <4> QED
        BY <4>1, <4>2 DEF x, y
    <3> QED
      BY <1>6, <2>2, <2>3, <3>2, <3>3 DEF Chars
  <2>6. ASSUME NEW i \in 1 .. n PROVE HasLine(new.out, es[i].piece.line)
    <3>1. CASE i = n
      <4>1. Len(acc.out) + 1 \in DOMAIN new.out /\ new.out[Len(acc.out) + 1].piece = es[i].piece
        BY <1>5, <1>6, <2>2, <3>1 DEF e
      <4> QED
        BY <4>1 DEF HasLine
    <3>2. CASE i # n
      <4>1. i \in 1 .. n - 1
        BY <3>2, LenProperties
      <4>2. PICK k \in DOMAIN acc.out : acc.out[k].piece.line = es[i].piece.line
        BY <1>8, <4>1 DEF CutSoFar, HasLine
      <4>3. k \in DOMAIN new.out /\ new.out[k] = acc.out[k]
        BY <1>6, <2>2, <4>2
      <4> QED
        BY <4>2, <4>3 DEF HasLine
    <3> QED
      BY <3>1, <3>2
  <2>7. CutSoFar(new, es, n)
    BY <2>5, <2>6 DEF CutSoFar
  <2> QED
    BY <2>1, <2>7 DEF e
<1> QED
  BY <1>7, <1>8

LEMMA CutShows ==
  ASSUME NEW es \in Seq(LogEntry), NEW i \in DOMAIN es
  PROVE  HasLine(Cut(es), es[i].piece.line) \/ Chars(Cut(es)) >= MaxChars
<1> DEFINE A == [out : Seq(LogEntry), left : Nat]
           B == [n \in 0 .. Len(es) |-> {acc \in A : CutSoFar(acc, es, n)}]
           a == [out |-> <<>>, left |-> MaxChars]
<1>1. Len(es) \in Nat /\ DOMAIN es = 1 .. Len(es) /\ \A n \in 1 .. Len(es) : es[n] \in LogEntry
  BY LenProperties, ElementOfSeq
<1>2. a \in A /\ CutSoFar(a, es, 0)
  <2>1. a \in A /\ Len(<<>>) = 0 /\ MaxChars \in Nat /\ Overhead \in Nat
    BY EmptySeq, RingBufferAssumption
  <2>2. Chars(<<>>) = 0
    BY <2>1, BytesOfNothing DEF Chars
  <2>3. a.left + Chars(a.out) = MaxChars
    BY <2>1, <2>2
  <2> QED
    BY <2>1, <2>3 DEF CutSoFar
<1>3. \A n \in 1 .. Len(es) : n - 1 \in 0 .. Len(es) /\ n \in 0 .. Len(es)
  BY <1>1
<1>4. \A n \in 1 .. Len(es) : \A acc \in A : Keeping(acc, es[n]) \in A
  <2>1. LogEntry \in SUBSET LogEntry /\ \A x \in LogEntry, y \in LogEntry : CutOf(y, x) => y \in LogEntry
    OBVIOUS
  <2> QED
    BY <1>1, <2>1, KeepingType
<1>5. \A n \in 1 .. Len(es) : \A acc \in A : CutSoFar(acc, es, n - 1) => CutSoFar(Keeping(acc, es[n]), es, n)
  BY KeepingShows
<1>6. 0 \in 0 .. Len(es) /\ Len(es) \in 0 .. Len(es)
  BY <1>1
<1> HIDE DEF a
<1>7. /\ a \in B[0]
      /\ \A n \in 1 .. Len(es) : \A acc \in A : acc \in B[n - 1] => Keeping(acc, es[n]) \in B[n]
      /\ \A acc \in B[Len(es)] : acc \in A /\ CutSoFar(acc, es, Len(es))
  BY <1>2, <1>3, <1>4, <1>5, <1>6
<1> HIDE DEF B
<1>8. PICK acc \in B[Len(es)] : Cut(es) = acc.out
  BY <1>7, CutSteps DEF a
<1>9. acc \in A /\ CutSoFar(acc, es, Len(es))
  BY <1>7
<1>10. CASE acc.left = 0
  <2>1. 0 + Chars(acc.out) = MaxChars /\ MaxChars \in Nat
    BY <1>9, <1>10, RingBufferAssumption DEF CutSoFar
  <2>2. Chars(acc.out) \in Int
    <3>1. PICK f : (\A k \in 0 .. Len(acc.out) : f[k] \in Nat) /\ Bytes(acc.out) = f[Len(acc.out)]
      BY <1>9, BytesSum
    <3>2. Len(acc.out) \in Nat /\ Overhead \in Nat
      BY <1>9, LenProperties, RingBufferAssumption
    <3>3. Bytes(acc.out) \in Nat
      BY <3>1, <3>2
    <3>4. Overhead * Len(acc.out) \in Int
      BY <3>2
    <3> QED
      BY <3>3, <3>4 DEF Chars
  <2> QED
    BY <1>8, <2>1, <2>2
<1>11. CASE acc.left # 0
  BY <1>1, <1>8, <1>9, <1>11 DEF CutSoFar
<1> QED
  BY <1>10, <1>11

LEMMA ExcerptShows ==
  ASSUME NEW es \in Seq(LogEntry), Bounded(es), NEW time \in Nat, NEW first \in 0 .. time,
         NEW i \in DOMAIN es, es[i].at = time
  PROVE  \/ HasLine(Excerpt(RingOf(es), first, time), es[i].piece.line)
         \/ Chars(Excerpt(RingOf(es), first, time)) >= MaxChars
<1> DEFINE r == Left(es, time)
           P == {j \in DOMAIN r : InWindow(r[j], first, time)}
           s == Selected(r, P)
<1>1. {MaxAge, BeforeError, AfterError} \subseteq Nat
  BY RingBufferAssumption
<1>2. PICK j \in DOMAIN r : r[j] = es[i]
  <2>1. es[i].at + MaxAge >= time
    BY <1>1
  <2> QED
    BY <2>1, StaysPruned
<1>3. r \in Seq(LogEntry)
  BY LeftType
<1>4. Inside(r, first, time) = s
  BY DEF Inside
<1>5. Excerpt(RingOf(es), first, time) = Cut(s)
  <2>1. Pruned(RingOf(es), time) = RingOf(r)
    BY PrunedRing
  <2>2. RingOf(r).entries = r
    BY DEF RingOf
  <2> QED
    BY <1>4, <2>1, <2>2 DEF Excerpt
<1> HIDE DEF r
<1>6. j \in P
  <2>1. time + BeforeError >= first /\ time <= time + AfterError
    BY <1>1
  <2> QED
    BY <1>2, <2>1 DEF InWindow
<1>7. P \in SUBSET (DOMAIN r)
  OBVIOUS
<1> HIDE DEF P
<1>8. s \in Seq(LogEntry)
  BY <1>3, <1>7, SelectedType
<1>9. {s[n] : n \in DOMAIN s} = {r[p] : p \in P}
  BY <1>3, <1>7, SelectedMembers
<1> HIDE DEF s
<1>10. PICK n \in DOMAIN s : s[n] = es[i]
  BY <1>2, <1>6, <1>9
<1>11. HasLine(Cut(s), s[n].piece.line) \/ Chars(Cut(s)) >= MaxChars
  BY <1>8, CutShows
<1> QED
  BY <1>5, <1>10, <1>11

\* The newest pieces are at the end of the buffer: what is there of before is behind
\* all of them.
Latest(b, ps, count, m) ==
  \A i \in DOMAIN b :
    \/ \E j \in 1 .. m : b[i] = EntryOf(ps[j], count)
    \/ \A j \in 1 .. m : \E k \in DOMAIN b : i < k /\ b[k] = EntryOf(ps[j], count)

LEMMA GrownLatest ==
  ASSUME NEW ps, NEW m \in Nat \ {0}, NEW count, NEW b \in Seq(LogEntry),
         EntryOf(ps[m], count) \in LogEntry, Latest(b, ps, count, m - 1)
  PROVE  Latest(Grown(b, EntryOf(ps[m], count)), ps, count, m)
<1> DEFINE e == EntryOf(ps[m], count)
           c == Grown(b, e)
           a == Append(b, e)
<1> HIDE DEF e
<1>1. /\ Len(b) \in Nat /\ DOMAIN b = 1 .. Len(b)
      /\ Len(a) = Len(b) + 1
      /\ \A i \in 1 .. Len(b) : a[i] = b[i]
      /\ a[Len(b) + 1] = e
  BY AppendProperties, LenProperties DEF e
<1>2. c \in Seq(LogEntry) /\ Ending(c, a)
  BY GrownType DEF e
<1> HIDE DEF a, c
<1>3. PICK k \in Nat : /\ k + Len(c) = Len(a)
                       /\ \A i \in DOMAIN c : k + i \in DOMAIN a /\ c[i] = a[k + i]
  BY <1>2 DEF Ending
<1>4. Len(c) \in Nat /\ DOMAIN c = 1 .. Len(c)
  BY <1>2, LenProperties
<1>5. ASSUME NEW i \in DOMAIN c
      PROVE  \/ \E j \in 1 .. m : c[i] = EntryOf(ps[j], count)
             \/ \A j \in 1 .. m : \E l \in DOMAIN c : i < l /\ c[l] = EntryOf(ps[j], count)
  <2>1. c[i] = a[k + i] /\ k + i <= Len(b) + 1 /\ k + i \in Nat \ {0}
    BY <1>1, <1>3, <1>4
  <2>2. CASE k + i = Len(b) + 1
    <3>1. c[i] = EntryOf(ps[m], count)
      BY <1>1, <2>1, <2>2 DEF e
    <3> QED
      BY <3>1
  <2>3. CASE k + i # Len(b) + 1
    <3>1. k + i \in DOMAIN b /\ c[i] = b[k + i]
      BY <1>1, <2>1, <2>3
    <3>2. CASE \E j \in 1 .. m - 1 : b[k + i] = EntryOf(ps[j], count)
      <4>1. \A j \in 1 .. m - 1 : j \in 1 .. m
        OBVIOUS
      <4> QED
        BY <3>1, <3>2, <4>1
    <3>3. CASE \A j \in 1 .. m - 1 : \E l \in DOMAIN b : k + i < l /\ b[l] = EntryOf(ps[j], count)
      <4>1. ASSUME NEW j \in 1 .. m PROVE \E l \in DOMAIN c : i < l /\ c[l] = EntryOf(ps[j], count)
        <5>1. CASE j = m
          <6>1. Len(c) \in DOMAIN c /\ i < Len(c) /\ k + Len(c) = Len(b) + 1
            BY <1>1, <1>3, <1>4, <2>1, <2>3
          <6>2. c[Len(c)] = e
            BY <1>1, <1>3, <6>1
          <6> QED
            BY <5>1, <6>1, <6>2 DEF e
        <5>2. CASE j # m
          <6>1. j \in 1 .. m - 1
            BY <5>2
          <6>2. PICK l \in DOMAIN b : k + i < l /\ b[l] = EntryOf(ps[j], count)
            BY <3>3, <6>1
          <6>3. l - k \in DOMAIN c /\ i < l - k /\ k + (l - k) = l
            BY <1>1, <1>3, <1>4, <6>2
          <6>4. c[l - k] = b[l]
            BY <1>1, <1>3, <6>3
          <6> QED
            BY <6>2, <6>3, <6>4
        <5> QED
          BY <5>1, <5>2
      <4> QED
        BY <4>1
    <3>4. \/ \E j \in 1 .. m - 1 : b[k + i] = EntryOf(ps[j], count)
          \/ \A j \in 1 .. m - 1 : \E l \in DOMAIN b : k + i < l /\ b[l] = EntryOf(ps[j], count)
      BY <3>1 DEF Latest
    <3> QED
      BY <3>2, <3>3, <3>4
  <2> QED
    BY <2>2, <2>3
<1>6. Latest(c, ps, count, m)
  BY <1>5 DEF Latest
<1> QED
  BY <1>6 DEF c, e

LEMMA BufferedLatest ==
  ASSUME clock \in Nat, NEW ps \in Seq(WholeWords), NEW count \in RedactsUpTo,
         entries \in Seq(LogEntry), bytes = Bytes(entries)
  PROVE  /\ Latest(Filled(ps, count), ps, count, Len(ps))
         /\ Buffered(ps, count) = RingOf(Filled(ps, count))
<1> DEFINE A == [m \in 0 .. Len(ps) |-> {b \in Seq(LogEntry) : Latest(b, ps, count, m)}]
<1>1. Len(ps) \in Nat /\ \A m \in 1 .. Len(ps) : ps[m] \in WholeWords
  BY LenProperties, ElementOfSeq
<1>2. entries \in A[0]
  <2>1. Latest(entries, ps, count, 0)
    BY DEF Latest
  <2> QED
    BY <1>1, <2>1
<1>3. ASSUME NEW m \in 1 .. Len(ps), NEW b \in Seq(LogEntry), b \in A[m - 1]
      PROVE  Grown(b, EntryOf(ps[m], count)) \in A[m]
  <2>1. m - 1 \in 0 .. Len(ps) /\ m \in 0 .. Len(ps) /\ m \in Nat \ {0}
    BY <1>1
  <2>2. Latest(b, ps, count, m - 1)
    BY <1>3, <2>1
  <2>3. EntryOf(ps[m], count) \in LogEntry
    BY <1>1, EntryOfType
  <2>4. Latest(Grown(b, EntryOf(ps[m], count)), ps, count, m)
    BY <2>1, <2>2, <2>3, GrownLatest
  <2>5. Grown(b, EntryOf(ps[m], count)) \in Seq(LogEntry)
    BY <2>3, GrownType
  <2> QED
    BY <2>1, <2>4, <2>5
<1>4. Len(ps) \in 0 .. Len(ps)
  BY <1>1
<1>5. \A b : b \in A[Len(ps)] => Latest(b, ps, count, Len(ps))
  BY <1>4
<1> HIDE DEF A
<1>6. Filled(ps, count) \in A[Len(ps)] /\ Buffered(ps, count) = RingOf(Filled(ps, count))
  BY <1>2, <1>3, BufferedSteps
<1> QED
  BY <1>5, <1>6

\* LogsShowError speaks of steps like this one.
ShowsError ==
  logs' # logs /\ logs'.head # Blocks!Unknown =>
    \/ HasLine(logs'.kept, logs'.head)
    \/ ~HasLine(entries', logs'.head)
    \/ Chars(logs'.kept) >= MaxChars

LEMMA DataShowsError ==
  ASSUME WrapperInv, WrapperInv', NEW s \in Streams, Data(s)
  PROVE  ShowsError
<1> DEFINE t == half[s] \o pipe[s]
           ps == Pieces(Processable(t))
<1>1. PICK count \in RedactsUpTo :
        /\ entries' = Filled(ps, count)
        /\ logs' = logs \/ \E block \in Blocks!ErrorBlock(Lines(ps)) : Keep(block.head, Buffered(ps, count))
  BY DEF Data, Filled
<1>2. ps \in Seq(WholeWords)
  <2>1. TextOK(t, s, output, flushed, TRUE)
    BY DEF WrapperInv, PipeOK, Data, Take
  <2>2. t \in Seq(ByteOf(s)) /\ Chained(t) /\ t # <<>>
    <3>1. half[s] \in Seq(ByteOf(s)) /\ pipe[s] \in Seq(ByteOf(s)) /\ pipe[s] # <<>>
      BY DEF WrapperInv, PipeOK, Data, Take
    <3> QED
      BY <2>1, <3>1, ConcatEqualIffEmpty DEF TextOK
  <2> HIDE DEF t
  <2>3. PICK n : CutsAt(s, t, n)
    BY <2>2, ChunkCut
  <2>4. Processable(t) \in Seq(ByteOf(s)) /\ Chained(Processable(t))
    BY <2>2, <2>3, CutParts DEF CutsAt
  <2> QED
    BY <2>4, PiecesType
<1> HIDE DEF ps
<1>3. /\ clock \in Nat /\ entries \in Seq(LogEntry) /\ bytes = Bytes(entries)
      /\ entries' \in Seq(LogEntry) /\ Bounded(entries')
  <2>1. clock \in Nat
    BY WrapperAssumption DEF WrapperInv, WrapperTypes
  <2>2. Good(flushed) \subseteq LogEntry /\ Good(flushed') \subseteq LogEntry
    BY DEF Good
  <2>3. entries \in Seq(Good(flushed)) /\ entries' \in Seq(Good(flushed')) /\ Bounded(entries')
    BY DEF WrapperInv, EntriesOK
  <2>4. bytes = Bytes(entries)
    BY DEF WrapperInv
  <2> QED
    BY <2>1, <2>2, <2>3, <2>4
<1> DEFINE buffer == Filled(ps, count)
<1>4. Latest(buffer, ps, count, Len(ps)) /\ Buffered(ps, count) = RingOf(buffer)
  BY <1>2, <1>3, BufferedLatest
<1> HIDE DEF buffer
<1>5. SUFFICES ASSUME logs' # logs, logs'.head # Blocks!Unknown, HasLine(buffer, logs'.head)
               PROVE  HasLine(logs'.kept, logs'.head) \/ Chars(logs'.kept) >= MaxChars
  BY <1>1 DEF ShowsError, buffer
<1>6. PICK block \in Blocks!ErrorBlock(Lines(ps)) : Keep(block.head, RingOf(buffer))
  BY <1>1, <1>4, <1>5
<1>7. PICK first \in 0 .. clock :
        logs' = IF Excerpt(RingOf(buffer), first, clock) = <<>> THEN logs
                ELSE [head |-> block.head, kept |-> Excerpt(RingOf(buffer), first, clock)]
  BY <1>6 DEF Keep
<1>8. logs'.head = block.head /\ logs'.kept = Excerpt(RingOf(buffer), first, clock)
  BY <1>5, <1>7
<1>9. DOMAIN ps = 1 .. Len(ps) /\ Len(ps) \in Nat
  BY <1>2, LenProperties
<1>10. PICK j \in 1 .. Len(ps) : ps[j].line = block.head
  <2> DEFINE D == {Blocks!Unknown} \cup {ps[j].line : j \in DOMAIN ps}
  <2>1. Lines(ps) \in Seq(D)
    <3>1. \A j \in 1 .. Len(ps) : (IF Recognised(ps[j]) THEN ps[j].line ELSE Blocks!Unknown) \in D
      BY <1>9
    <3> HIDE DEF D
    <3> QED
      BY <1>9, <3>1 DEF Lines
  <2>2. Blocks!Unknown \in D
    OBVIOUS
  <2>3. block.head \in D
    <3> HIDE DEF D
    <3> QED
      BY <2>1, <2>2, BlockHead
  <2> QED
    BY <1>5, <1>8, <1>9, <2>3
<1>11. PICK i \in DOMAIN buffer : buffer[i].piece.line = block.head /\ buffer[i].at = clock
  <2>1. PICK k \in DOMAIN buffer : buffer[k].piece.line = block.head
    BY <1>5, <1>8 DEF HasLine
  <2>2. CASE \E l \in 1 .. Len(ps) : buffer[k] = EntryOf(ps[l], count)
    <3>1. buffer[k].at = clock
      BY <2>2 DEF EntryOf
    <3> QED
      BY <2>1, <3>1
  <2>3. CASE \A l \in 1 .. Len(ps) : \E n \in DOMAIN buffer : k < n /\ buffer[n] = EntryOf(ps[l], count)
    <3>1. PICK n \in DOMAIN buffer : buffer[n] = EntryOf(ps[j], count)
      BY <2>3
    <3>2. buffer[n].at = clock /\ buffer[n].piece = ps[j]
      BY <3>1 DEF EntryOf
    <3> QED
      BY <1>10, <3>2
  <2>4. \/ \E l \in 1 .. Len(ps) : buffer[k] = EntryOf(ps[l], count)
        \/ \A l \in 1 .. Len(ps) : \E n \in DOMAIN buffer : k < n /\ buffer[n] = EntryOf(ps[l], count)
    BY <1>4 DEF Latest
  <2> QED
    BY <2>2, <2>3, <2>4
<1>12. buffer \in Seq(LogEntry) /\ Bounded(buffer)
  BY <1>1, <1>3 DEF buffer
<1>13. \/ HasLine(Excerpt(RingOf(buffer), first, clock), buffer[i].piece.line)
       \/ Chars(Excerpt(RingOf(buffer), first, clock)) >= MaxChars
  BY <1>3, <1>11, <1>12, ExcerptShows
<1> QED
  BY <1>8, <1>11, <1>13

LEMMA StepShowsError ==
  ASSUME WrapperInv, WrapperInv', [ObserversNext]_observersVars
  PROVE  ShowsError
<1>1. CASE UNCHANGED logs
  BY <1>1 DEF ShowsError
<1>2. CASE ExitEvent
  BY <1>2 DEF ExitEvent, Keep, ShowsError
<1>3. CASE \E s \in Streams : Data(s)
  BY <1>3, DataShowsError
<1>4. CASE ProgramWrites \/ ProgramEnds \/ Pass \/ (\E s \in Streams : HandlerThrows(s)) \/ UNCHANGED wrapperVars
  BY <1>1, <1>4 DEF HandlerThrows, ProgramWrites, ProgramEnds, Pass, wrapperVars
<1> QED
  BY <1>2, <1>3, <1>4 DEF ObserversNext, Agent, Run, WrapperNext, observersVars

\* The excerpt kept with an incident shows the header of its error, for any output, limits
\* and times, unless the buffer has lost the line or older lines fill the excerpt (push,
\* prune, excerpt, and handleData, which logs a chunk before it searches it).
THEOREM ExcerptsShowTheirError == ObserversSpec => LogsShowError
<1>1. WrapperInv /\ WrapperInv' /\ [ObserversNext]_observersVars =>
        [logs' # logs /\ logs'.head # Blocks!Unknown =>
           LET Shows(buffer) == \E entry \in ToSet(buffer) : entry.piece.line = logs'.head
           IN  \/ Shows(logs'.kept)
               \/ ~Shows(entries')
               \/ Bytes(logs'.kept) - Overhead * Len(logs'.kept) >= MaxChars]_wrapperVars
  <2> SUFFICES ASSUME WrapperInv, WrapperInv', [ObserversNext]_observersVars,
                      logs' # logs, logs'.head # Blocks!Unknown
               PROVE  \/ \E entry \in ToSet(logs'.kept) : entry.piece.line = logs'.head
                      \/ ~\E entry \in ToSet(entries') : entry.piece.line = logs'.head
                      \/ Bytes(logs'.kept) - Overhead * Len(logs'.kept) >= MaxChars
    OBVIOUS
  <2>1. ShowsError
    BY StepShowsError
  <2>2. \A b : HasLine(b, logs'.head) <=> \E entry \in ToSet(b) : entry.piece.line = logs'.head
    BY DEF HasLine, ToSet
  <2> QED
    BY <2>1, <2>2 DEF ShowsError, Chars
<1> QED
  BY <1>1, NothingIsMixedUp, PTL DEF ObserversSpec, LogsShowError

=============================================================================
