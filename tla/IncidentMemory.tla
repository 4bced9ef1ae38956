---------------------------- MODULE IncidentMemory ----------------------------
(***************************************************************************)
(* The memory that outlives an incident, src/scanner/incident-memory.ts,   *)
(* composed with IncidentLifecycle: a pipeline run records its attempt in  *)
(* incidents.md before it opens a merge request, and a mark command        *)
(* records the person's verdict in review-feedback.md after it has saved   *)
(* the incident.  Later runs read both files into their context.           *)
(*                                                                         *)
(* Either looks whether its file exists, writes the title if it does not,  *)
(* and appends the record.  Nothing keeps processes apart there: a title   *)
(* may be written over records that were appended since the look.          *)
(***************************************************************************)
EXTENDS IncidentLifecycle

\* One process runs one command.
ASSUME MemoryAssumption == Worker \cap Operator = {}

VARIABLES
  history,  \* incidents.md
  feedback, \* review-feedback.md
  pen,      \* how far each process is with its record
  cut       \* the commands that died between the save of their verdict and
            \* its record (a ghost)

memoryVars == <<history, feedback, pen, cut>>
allVars == <<vars, memoryVars>>

\* The processes whose records are in a file; and whether any were lost (a ghost).
NoFile == [there |-> FALSE, records |-> {}, lost |-> FALSE]

MemoryInit ==
  /\ Init
  /\ history = NoFile /\ feedback = NoFile
  /\ pen = [r \in Runner |-> "down"]
  /\ cut = {}

Silent == UNCHANGED memoryVars

Puts(r, place) == pen' = [pen EXCEPT ![r] = place]

PutsDown(r) == Puts(r, "down") /\ UNCHANGED <<history, feedback, cut>>

-----------------------------------------------------------------------------
(***************************************************************************)
(* recordIncidentMemory and recordReviewFeedback: existsSync, then         *)
(* writeFileSync, then appendFileSync.  What is appended while the title   *)
(* is being written is damaged: it counts as appended before.              *)
(***************************************************************************)
Look(r, file) ==
  /\ pen[r] = "look"
  /\ Puts(r, IF file.there THEN "record" ELSE "title")
  /\ UNCHANGED file

WriteTitle(r, file) ==
  /\ pen[r] = "title" /\ Puts(r, "record")
  /\ file' = [there |-> TRUE, records |-> {}, lost |-> file.lost \/ file.records # {}]

AppendRecord(r, file) ==
  /\ pen[r] = "record" /\ Puts(r, "lifted")
  /\ file' = [file EXCEPT !.records = @ \cup {r}]

Record(r, file) == Look(r, file) \/ WriteTitle(r, file) \/ AppendRecord(r, file)

-----------------------------------------------------------------------------
(***************************************************************************)
(* processIncidentToMr: the attempt is recorded when the body of the merge *)
(* request is written, whether or not it will be opened.                   *)
(***************************************************************************)
RecordAttempt(r) ==
  /\ stage[r] = "fixing"
  /\ \/ pen[r] = "down" /\ Puts(r, "look") /\ UNCHANGED history
     \/ Record(r, history)
  /\ UNCHANGED <<vars, feedback, cut>>

\* A slip of OnRecord: the record is left for later, when the URL is known.
OnRecordLater(r) == TRUE

OnRecord(r) == pen[r] = "lifted"

\* The gates that block come before the record.
SettleRun(r) ==
  /\ Settle(r)
  /\ IF inc'.status = "blocked" THEN pen[r] = "down" ELSE OnRecord(r)
  /\ PutsDown(r)

OpenMr(r) == CreateMr(r) /\ OnRecord(r) /\ PutsDown(r)

\* Also in the middle of the record; an answer can be lost only after it.
ThrowRun(r) == Throw(r) /\ (pr' # pr => OnRecord(r)) /\ PutsDown(r)

ElseOfRun(r) ==
  /\ \/ StartRun(r) \/ NoFix(r) \/ AttemptFix(r) \/ RecordMr(r)
     \/ MergeMr(r) \/ MergeFails(r) \/ RecordMerge(r)
  /\ Silent

RunAndRecord(r) ==
  RecordAttempt(r) \/ SettleRun(r) \/ OpenMr(r) \/ ThrowRun(r) \/ ElseOfRun(r)

(***************************************************************************)
(* setIncidentOutcome: the verdict is recorded after the save.             *)
(***************************************************************************)
Verdicts == {CommandStatus[c] : c \in {"mark-resolved", "mark-merged", "mark-rejected"}}

SaveCommand(o) ==
  /\ CommandSave(o)
  /\ \/ inc'.status \in Verdicts /\ Puts(o, "look") /\ cut' = cut \ {o}
     \/ inc'.status \notin Verdicts /\ Puts(o, "down") /\ UNCHANGED cut
  /\ UNCHANGED <<history, feedback>>

RecordVerdict(o) ==
  /\ stage[o] = "done"
  /\ Record(o, feedback)
  /\ UNCHANGED <<vars, history, cut>>

ExitCommand(o) == CommandExit(o) /\ pen[o] \in {"down", "lifted"} /\ PutsDown(o)

\* The process of a command ends early: at worst after its save and before its record.
CutCommand(o) ==
  /\ OperatorDies(o)
  /\ Puts(o, "down")
  /\ cut' = IF stage[o] = "done" /\ pen[o] \in {"look", "title", "record"}
            THEN cut \cup {o} ELSE cut
  /\ UNCHANGED <<history, feedback>>

WorkerRecords(w) ==
  RunAndRecord(w) \/ ((ListPending(w) \/ TryClaim(w) \/ FinishPass(w)) /\ Silent)

OperatorRecords(o) ==
  \/ RunAndRecord(o) \/ SaveCommand(o) \/ RecordVerdict(o) \/ ExitCommand(o)
  \/ CommandLoad(o) /\ Silent

OutsideMemory ==
  \/ \E w \in Worker : WorkerDies(w) /\ PutsDown(w)
  \/ \E o \in Operator : CutCommand(o)
  \/ /\ \/ ReviewMr
        \/ (Tick \/ \E w \in Worker : Restart(w))
           /\ UNCHANGED <<inc, copy, stage, todo, pr, events>>
     /\ Silent

MemoryNext ==
  \/ \E w \in Worker : WorkerRecords(w)
  \/ \E o \in Operator : OperatorRecords(o)
  \/ \E e \in Engine : EngineStep(e) /\ Silent
  \/ OutsideMemory

MemorySpec == MemoryInit /\ [][MemoryNext]_allVars

-----------------------------------------------------------------------------

File == [there : BOOLEAN, records : SUBSET Runner, lost : BOOLEAN]

\* The type of the variables.
MemoryTypeOK ==
  /\ TypeOK
  /\ history \in File /\ feedback \in File
  /\ pen \in [Runner -> {"down", "look", "title", "record", "lifted"}]
  /\ cut \subseteq Operator

Recorded(r, file) == r \in file.records \/ file.lost

\* A process has begun to record a verdict, and has not gone on to another command.
Recording(o) == stage[o] = "done" /\ pen[o] # "down"

\* Wherever a run is cut short and whoever works beside it, no merge request exists
\* whose attempt was not recorded first (recordIncidentMemory before the provider);
\* and a verdict stands in incident.json only if one was recorded, or is being so, or
\* its command died between the save and recordReviewFeedback, which comes after it:
\* such a verdict stays off the record.  What was recorded may be lost with the rest
\* of a file to a title written late.
DecisionsAreOnRecord ==
  /\ "created" \in pr => \E r \in Runner : Recorded(r, history)
  /\ \A r \in Runner : stage[r] \in {"opened", "merging", "merged"} => Recorded(r, history)
  /\ inc.status \in {"resolved", "rejected"} =>
       \E o \in Operator : Recorded(o, feedback) \/ Recording(o) \/ o \in cut

=============================================================================
