----------------------------- MODULE ContextBuilder -----------------------------
(***************************************************************************)
(* Which files of the repository the model gets to see: buildContext of    *)
(* src/context/builder.ts.  The candidates are the files of the stack      *)
(* frames and what is near them in the graph; their number is capped, and  *)
(* then those that policy denies and those that cannot be read fall out.   *)
(* The logs and the notes of the bundle are left out.                      *)
(***************************************************************************)
EXTENDS GraphWalk

CONSTANTS
  Denied,          \* file_policy.deny
  Gone,            \* files of an old graph that are no longer there
  Frame,           \* what a stack trace calls a file
  ResolveFile,     \* the file of the repository it is taken for
  NoFile,          \* or none
  FrameLists,      \* the frames of an incident, the top one first
  MaxContextFiles  \* llm.max_context_files

File == CodeFile \cup OtherFile

ASSUME ContextAssumption ==
  /\ Denied \subseteq File /\ Gone \subseteq File
  /\ NoFile \notin File
  /\ ResolveFile \in [Frame -> (File \ Gone) \cup {NoFile}]
  /\ FrameLists \subseteq Seq(Frame)
  /\ MaxContextFiles \in Nat

VARIABLES
  stage,      \* what the run is doing
  frames,     \* the files of the frames
  seeds,      \* those whose neighbors are still to be found
  candidates, \* the files found so far, and how strong the evidence for them is
  bundle      \* what is sent to the model: files, the flag redaction_applied, and what
              \* the redactor did to their texts

contextVars == <<edges, walk, frames, seeds, candidates, bundle>>

NoBundle == [files |-> <<>>, redacted |-> FALSE, texts |-> "raw"]

ContextInit ==
  /\ edges = {} /\ walk = NoWalk
  /\ stage = "context"
  /\ frames = <<>> /\ seeds = <<>> /\ candidates = <<>>
  /\ bundle = NoBundle

\* The distinct files the frames resolve to.
Resolved(trace) ==
  LET files == [i \in DOMAIN trace |-> ResolveFile[trace[i]]]
  IN  Selected(files, {i \in DOMAIN files :
                         files[i] # NoFile /\ \A j \in 1 .. i - 1 : files[j] # files[i]})

Rated(files, strength) ==
  [i \in DOMAIN files |-> [file |-> files[i], strength |-> strength]]

Found == {candidates[i].file : i \in DOMAIN candidates}

Seeds(files) == Among(files, {f \in File : FileId(f) \in Listed})

\* The graph is loaded, when there is one, and the frames' files are resolved.
CollectFrames ==
  /\ stage = "context"
  /\ \E trace \in FrameLists : frames' = Resolved(trace)
  /\ candidates' = Rated(frames', "high")
  /\ \/ /\ \E project \in Projects : edges' = BuiltGraph(project)
        /\ seeds' = Seeds(frames')
     \/ edges' = {} /\ seeds' = <<>>
  /\ stage' = "collecting"
  /\ UNCHANGED <<walk, bundle>>

WalkFromSeed ==
  /\ stage = "collecting"
  /\ walk = NoWalk /\ seeds # <<>>
  /\ BeginWalk("neighbors", FileId(Head(seeds)))
  /\ UNCHANGED <<edges, stage, frames, seeds, candidates, bundle>>

WalkOn ==
  /\ stage \in {"collecting", "blast"}
  /\ Dequeue
  /\ UNCHANGED <<stage, frames, seeds, candidates, bundle>>

\* A slip of IsNear: the labels of packages, routes and tests are not left out.
IsNearNode(id) == LabelOf(id) \notin Found

IsNear(id) == TypeOf(id) = "file" /\ LabelOf(id) \notin Found

AddNeighbors ==
  /\ stage = "collecting"
  /\ walk # NoWalk /\ ~Walking
  /\ LET near == Among(walk.out, {n \in Listed : IsNear(n)})
     IN  candidates' = candidates \o
           Rated([i \in DOMAIN near |-> LabelOf(near[i])], "medium")
  /\ seeds' = Tail(seeds)
  /\ walk' = NoWalk
  /\ UNCHANGED <<edges, stage, frames, bundle>>

\* findTestsFor.
TestsFor(file) == {t \in Test : <<TestId(t), FileId(file)>> \in edges}

AddTests ==
  /\ stage = "collecting"
  /\ walk = NoWalk /\ seeds = <<>>
  /\ LET tests == UNION {TestsFor(f) : f \in ToSet(Seeds(frames))} \ Found
     IN  \E order \in SetToSeqs(tests) : candidates' = candidates \o Rated(order, "high")
  /\ stage' = "found"
  /\ UNCHANGED <<edges, walk, frames, seeds, bundle>>

\* The sort is stable, and the top frame's file the first of the strong ones.
Ordered ==
  LET of(strength) == Among(candidates, [file : File, strength : {strength}])
      all == of("high") \o of("medium")
  IN  [i \in DOMAIN all |-> all[i].file]

\* A slip of Capped: the last candidates are kept.
CappedAtEnd(files) ==
  IF Len(files) <= MaxContextFiles THEN files
  ELSE SubSeq(files, Len(files) - MaxContextFiles + 1, Len(files))

Capped(files) == IF Len(files) <= MaxContextFiles THEN files
                 ELSE SubSeq(files, 1, MaxContextFiles)

\* A slip of Sendable: only what cannot be read falls out.
SendableIfThere(files) == Among(files, File \ Gone)

\* A denied file and one that cannot be read have used up a place each.
Sendable(files) == Among(files, File \ (Denied \cup Gone))

\* A slip of RedactionApplied: only the one setting is looked at.
RedactionWanted(redact_before_llm, enabled) == redact_before_llm

\* privacy.redact_before_llm and redaction.enabled.
RedactionApplied(redact_before_llm, enabled) == redact_before_llm /\ enabled

\* What becomes of the texts: a redactor that is not enabled returns them as they are, and
\* one that runs out of time leaves a text redacted in part.
Texts(redact_before_llm, enabled) ==
  IF redact_before_llm /\ enabled THEN {"redacted", "partly"} ELSE {"raw"}

\* What was only needed to find the files is forgotten.
AssembleBundle ==
  /\ stage = "found"
  /\ \E redact_before_llm, enabled \in BOOLEAN :
       \E texts \in Texts(redact_before_llm, enabled) :
         bundle' = [files |-> Sendable(Capped(Ordered)), texts |-> texts,
                    redacted |-> RedactionApplied(redact_before_llm, enabled)]
  /\ edges' = {} /\ frames' = <<>> /\ candidates' = <<>>
  /\ stage' = "bundled"
  /\ UNCHANGED <<walk, seeds>>

BuildContext ==
  CollectFrames \/ WalkFromSeed \/ AddNeighbors \/ AddTests \/ AssembleBundle

-----------------------------------------------------------------------------

\* The files of the stack frames come before all others: a file that is only near
\* them in the graph is sent only when every frame's file that may be sent is, and
\* the top frame's file, when it may be sent and any file is, is the first one
\* (buildContext, with its cap, its filters and the walks of several seeds).
FramesComeFirst ==
  [][stage' = "bundled" /\ stage # "bundled" =>
       LET sent == bundle'.files
           due  == Sendable(frames)
       IN  /\ (\E i \in DOMAIN sent : sent[i] \notin ToSet(frames))
                => IsPrefix(due, sent)
           /\ sent # <<>> /\ due # <<>> /\ frames[1] = due[1] => sent[1] = due[1]
  ]_<<stage, contextVars>>

=============================================================================
