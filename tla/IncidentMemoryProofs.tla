-------------------------- MODULE IncidentMemoryProofs --------------------------
(***************************************************************************)
(* Proofs about IncidentMemory for any number of workers, command lines    *)
(* and engines: the memory files change nothing of what is proved of the   *)
(* incident, and what was decided is on record.                            *)
(***************************************************************************)
EXTENDS IncidentMemory, IncidentLifecycleProofs

\* Every step does to the incident what a step of IncidentLifecycle does, or nothing.
LEMMA StepOfLifecycle == MemoryNext => Next \/ UNCHANGED vars
<1> SUFFICES ASSUME MemoryNext PROVE Next \/ UNCHANGED vars
  OBVIOUS
<1>1. ASSUME NEW r \in Runner, RunAndRecord(r)
      PROVE  Run(r) \/ UNCHANGED vars
  BY <1>1 DEF RunAndRecord, RecordAttempt, SettleRun, OpenMr, ThrowRun, ElseOfRun, Run
<1>2. ASSUME NEW w \in Worker, WorkerRecords(w)
      PROVE  WorkerStep(w) \/ UNCHANGED vars
  BY <1>1, <1>2 DEF WorkerRecords, WorkerStep, Runner
<1>3. ASSUME NEW o \in Operator, OperatorRecords(o)
      PROVE  OperatorStep(o) \/ UNCHANGED vars
  BY <1>1, <1>3 DEF OperatorRecords, SaveCommand, RecordVerdict, ExitCommand, OperatorStep,
                    Runner
<1>4. ASSUME OutsideMemory
      PROVE  Environment
  BY <1>4 DEF OutsideMemory, CutCommand, Environment
<1> QED
  BY <1>2, <1>3, <1>4 DEF MemoryNext, Next

\* Workers, commands and engines that write the memory files as well are those of
\* IncidentLifecycle.
THEOREM MemoryImplementsLifecycle == MemorySpec => Spec
<1>1. MemoryInit => Init
  BY DEF MemoryInit
<1>2. [MemoryNext]_allVars => [Next]_vars
  BY StepOfLifecycle DEF allVars
<1> QED
  BY <1>1, <1>2, PTL DEF MemorySpec, Spec

\* So incident.json tells the truth of the merge request and of the events there, too.
THEOREM MemoryKeepsIncident == MemorySpec => [](MrStatusIsReal /\ CountsOnlyRealEvents)
BY MemoryImplementsLifecycle, IncidentTellsTheTruth, NoPhantomEvents, PTL

-----------------------------------------------------------------------------
(***************************************************************************)
(* DecisionsAreOnRecord is not inductive: a pen that was lifted stands for *)
(* a record, it is down outside of the places where records are made, and  *)
(* an engine never holds a verdict that it could save for a second time.   *)
(***************************************************************************)
PenTrue(r) ==
  /\ stage[r] \notin {"fixing", "done"} => pen[r] = "down"
  /\ stage[r] = "done" /\ r \in Worker => pen[r] = "down"
  /\ stage[r] = "fixing" /\ pen[r] = "lifted" => Recorded(r, history)
  /\ stage[r] = "done" /\ pen[r] = "lifted" => Recorded(r, feedback)

Verdict == {"resolved", "rejected"}

CountsOnOpen == \A e \in Engine : stage[e] = "counting" => copy[e].status \notin Verdict

MemoryTyped ==
  /\ history \in File /\ feedback \in File
  /\ pen \in [Runner -> {"down", "look", "title", "record", "lifted"}]
  /\ cut \subseteq Operator

MemoryInv ==
  /\ MemoryTyped
  /\ \A r \in Runner : PenTrue(r)
  /\ CountsOnOpen
  /\ DecisionsAreOnRecord

\* What makes and keeps a record, in one step of one process.
LEMMA RecordStep ==
  ASSUME NEW r \in Runner, NEW old \in File, NEW new, MemoryTyped,
         \/ pen[r] = "look" /\ Puts(r, IF old.there THEN "record" ELSE "title") /\ new = old
         \/ /\ pen[r] = "title" /\ Puts(r, "record")
            /\ new = [there |-> TRUE, records |-> {}, lost |-> old.lost \/ old.records # {}]
         \/ /\ pen[r] = "record" /\ Puts(r, "lifted")
            /\ new = [old EXCEPT !.records = @ \cup {r}]
  PROVE  /\ new \in File
         /\ \A q \in Runner : Recorded(q, old) => Recorded(q, new)
         /\ pen' \in [Runner -> {"down", "look", "title", "record", "lifted"}]
         /\ \A q \in Runner \ {r} : pen'[q] = pen[q]
         /\ pen'[r] # "down"
         /\ pen'[r] = "lifted" => Recorded(r, new)
<1>1. old.there \in BOOLEAN /\ old.records \in SUBSET Runner /\ old.lost \in BOOLEAN
  BY DEF File
<1>2. CASE pen[r] = "look" /\ Puts(r, IF old.there THEN "record" ELSE "title") /\ new = old
  BY <1>2 DEF MemoryTyped, Puts
<1>3. CASE /\ pen[r] = "title" /\ Puts(r, "record")
           /\ new = [there |-> TRUE, records |-> {}, lost |-> old.lost \/ old.records # {}]
  <2>1. new \in File
    BY <1>1, <1>3 DEF File
  <2>2. ASSUME NEW q \in Runner, Recorded(q, old)
        PROVE  Recorded(q, new)
    BY <1>3, <2>2 DEF Recorded
  <2> QED
    BY <1>3, <2>1, <2>2 DEF MemoryTyped, Puts
<1>4. CASE /\ pen[r] = "record" /\ Puts(r, "lifted")
           /\ new = [old EXCEPT !.records = @ \cup {r}]
  <2>1. new \in File /\ new.records = old.records \cup {r} /\ new.lost = old.lost
    BY <1>1, <1>4 DEF File
  <2>2. \A q \in Runner : Recorded(q, old) => Recorded(q, new)
    BY <2>1 DEF Recorded
  <2>3. Recorded(r, new)
    BY <2>1 DEF Recorded
  <2> QED
    BY <1>4, <2>1, <2>2, <2>3 DEF MemoryTyped, Puts
<1> QED
  BY <1>2, <1>3, <1>4

\* The same, of the history and of the feedback.
LEMMA RecordOfAttempt ==
  ASSUME MemoryInv, NEW r \in Runner, Record(r, history), UNCHANGED <<feedback, cut>>
  PROVE  /\ MemoryTyped'
         /\ \A q \in Runner : Recorded(q, history) => Recorded(q, history)'
         /\ \A q \in Runner \ {r} : pen'[q] = pen[q]
         /\ pen'[r] # "down"
         /\ pen'[r] = "lifted" => Recorded(r, history)'
<1>1. MemoryTyped /\ history \in File /\ feedback \in File
  BY DEF MemoryInv, MemoryTyped
<1>2. \/ /\ pen[r] = "look" /\ Puts(r, IF history.there THEN "record" ELSE "title")
         /\ history' = history
      \/ /\ pen[r] = "title" /\ Puts(r, "record")
         /\ history' = [there |-> TRUE, records |-> {},
                        lost |-> history.lost \/ history.records # {}]
      \/ /\ pen[r] = "record" /\ Puts(r, "lifted")
         /\ history' = [history EXCEPT !.records = @ \cup {r}]
  BY DEF Record, Look, WriteTitle, AppendRecord
<1>3. /\ history' \in File
      /\ \A q \in Runner : Recorded(q, history) => Recorded(q, history')
      /\ pen' \in [Runner -> {"down", "look", "title", "record", "lifted"}]
      /\ \A q \in Runner \ {r} : pen'[q] = pen[q]
      /\ pen'[r] # "down"
      /\ pen'[r] = "lifted" => Recorded(r, history')
  BY <1>1, <1>2, RecordStep
<1> QED
  BY <1>1, <1>3 DEF MemoryTyped, Recorded

LEMMA RecordOfVerdict ==
  ASSUME MemoryInv, NEW r \in Runner, Record(r, feedback), UNCHANGED <<history, cut>>
  PROVE  /\ MemoryTyped'
         /\ \A q \in Runner : Recorded(q, feedback) => Recorded(q, feedback)'
         /\ \A q \in Runner \ {r} : pen'[q] = pen[q]
         /\ pen'[r] # "down"
         /\ pen'[r] = "lifted" => Recorded(r, feedback)'
<1>1. MemoryTyped /\ history \in File /\ feedback \in File
  BY DEF MemoryInv, MemoryTyped
<1>2. \/ /\ pen[r] = "look" /\ Puts(r, IF feedback.there THEN "record" ELSE "title")
         /\ feedback' = feedback
      \/ /\ pen[r] = "title" /\ Puts(r, "record")
         /\ feedback' = [there |-> TRUE, records |-> {},
                         lost |-> feedback.lost \/ feedback.records # {}]
      \/ /\ pen[r] = "record" /\ Puts(r, "lifted")
         /\ feedback' = [feedback EXCEPT !.records = @ \cup {r}]
  BY DEF Record, Look, WriteTitle, AppendRecord
<1>3. /\ feedback' \in File
      /\ \A q \in Runner : Recorded(q, feedback) => Recorded(q, feedback')
      /\ pen' \in [Runner -> {"down", "look", "title", "record", "lifted"}]
      /\ \A q \in Runner \ {r} : pen'[q] = pen[q]
      /\ pen'[r] # "down"
      /\ pen'[r] = "lifted" => Recorded(r, feedback')
  BY <1>1, <1>2, RecordStep
<1> QED
  BY <1>1, <1>3 DEF MemoryTyped, Recorded

\* A step that leaves the files alone, in which r moves to stage s, moves its pen to
\* place k, may save a status that is no verdict, and may be cut short.
LEMMA RunnerMoves ==
  ASSUME MemoryInv, TypeOK, NEW r \in Runner, NEW s \in Stages,
         NEW k \in {"down", "look", "title", "record", "lifted"},
         stage' = [stage EXCEPT ![r] = s], pen' = [pen EXCEPT ![r] = k],
         UNCHANGED <<history, feedback>>, cut' \subseteq Operator, cut \ {r} \subseteq cut',
         \A q \in Process \ {r} : copy'[q] = copy[q], s # "counting",
         PenTrue(r)',
         r \in Operator /\ (Recording(r) \/ r \in cut) =>
           Recording(r)' \/ Recorded(r, feedback) \/ r \in cut',
         "created" \in pr' => "created" \in pr \/ Recorded(r, history),
         s \in {"opened", "merging", "merged"} => Recorded(r, history),
         inc'.status \in Verdict => inc'.status = inc.status \/ (r \in Operator /\ Recording(r)')
  PROVE  MemoryInv'
<1>1. /\ pen \in [Runner -> {"down", "look", "title", "record", "lifted"}]
      /\ stage \in [Process -> Stages] /\ copy \in [Process -> Incident] /\ r \in Process
  BY DEF MemoryInv, MemoryTyped, TypeOK, Process
<1>2. MemoryTyped'
  BY <1>1 DEF MemoryInv, MemoryTyped
<1>3. \A q \in Process \ {r} : stage'[q] = stage[q] /\ copy'[q] = copy[q]
  BY <1>1
<1>4. \A q \in Runner \ {r} : pen'[q] = pen[q]
  BY <1>1
<1>5. stage'[r] = s
  BY <1>1
<1>6. ASSUME NEW q \in Runner PROVE PenTrue(q)'
  <2>1. CASE q # r
    <3>1. PenTrue(q) /\ stage'[q] = stage[q] /\ pen'[q] = pen[q]
      BY <1>3, <1>4, <2>1 DEF MemoryInv, Process
    <3> QED
      BY <3>1 DEF PenTrue, Recorded
  <2> QED
    BY <2>1
<1>7. CountsOnOpen'
  BY <1>3, <1>5 DEF CountsOnOpen, MemoryInv, Process
<1>8. "created" \in pr' => \E q \in Runner : Recorded(q, history)'
  BY DEF MemoryInv, DecisionsAreOnRecord, Recorded
<1>9. ASSUME NEW q \in Runner, stage'[q] \in {"opened", "merging", "merged"}
      PROVE  Recorded(q, history)'
  BY <1>3, <1>5, <1>9 DEF MemoryInv, DecisionsAreOnRecord, Recorded, Process
<1>10. ASSUME inc'.status \in Verdict
       PROVE  \E o \in Operator : Recorded(o, feedback)' \/ Recording(o)' \/ o \in cut'
  <2>1. CASE r \in Operator /\ Recording(r)'
    BY <2>1
  <2>2. CASE inc'.status = inc.status
    <3>1. PICK o \in Operator : Recorded(o, feedback) \/ Recording(o) \/ o \in cut
      BY <1>10, <2>2 DEF MemoryInv, DecisionsAreOnRecord, Verdict
    <3>2. CASE Recorded(o, feedback)
      BY <3>2 DEF Recorded
    <3>3. CASE (Recording(o) \/ o \in cut) /\ o = r
      BY <3>3 DEF Recorded
    <3>4. CASE (Recording(o) \/ o \in cut) /\ o # r
      BY <3>4, <1>3, <1>4 DEF Recording, Process, Runner
    <3> QED
      BY <3>1, <3>2, <3>3, <3>4
  <2> QED
    BY <1>10, <2>1, <2>2
<1> QED
  BY <1>2, <1>6, <1>7, <1>8, <1>9, <1>10 DEF MemoryInv, DecisionsAreOnRecord, Verdict

-----------------------------------------------------------------------------

\* To record changes nothing of the incident: what is on record stays so.
LEMMA RecordKeepsInv ==
  ASSUME MemoryInv, NEW r \in Runner, UNCHANGED <<vars, cut>>, MemoryTyped',
         \A q \in Runner : Recorded(q, history) => Recorded(q, history)',
         \A q \in Runner : Recorded(q, feedback) => Recorded(q, feedback)',
         \A q \in Runner \ {r} : pen'[q] = pen[q],
         pen'[r] # "down", PenTrue(r)'
  PROVE  MemoryInv'
<1>1. UNCHANGED <<inc, stage, copy, pr, cut>>
  BY DEF vars
<1>2. ASSUME NEW q \in Runner PROVE PenTrue(q)'
  BY <1>1 DEF MemoryInv, PenTrue
<1>3. CountsOnOpen'
  BY <1>1 DEF MemoryInv, CountsOnOpen
<1>4. DecisionsAreOnRecord'
  BY <1>1 DEF MemoryInv, DecisionsAreOnRecord, Recording, Runner
<1> QED
  BY <1>2, <1>3, <1>4 DEF MemoryInv

LEMMA AttemptKeepsInv ==
  ASSUME MemoryInv, NEW r \in Runner, RecordAttempt(r)
  PROVE  MemoryInv'
<1>1. /\ UNCHANGED <<vars, feedback, cut>> /\ stage[r] = "fixing" /\ stage' = stage
      /\ \A q \in Runner : Recorded(q, feedback) => Recorded(q, feedback)'
  BY DEF RecordAttempt, vars, Recorded
<1>2. CASE pen[r] = "down" /\ Puts(r, "look") /\ UNCHANGED history
  <2>1. /\ MemoryTyped' /\ pen'[r] = "look"
        /\ \A q \in Runner \ {r} : pen'[q] = pen[q]
        /\ \A q \in Runner : Recorded(q, history) => Recorded(q, history)'
    BY <1>1, <1>2 DEF MemoryInv, MemoryTyped, Puts, Recorded
  <2>2. PenTrue(r)'
    BY <1>1, <2>1 DEF PenTrue
  <2> QED
    BY <1>1, <2>1, <2>2, RecordKeepsInv
<1>3. CASE Record(r, history)
  <2>1. /\ MemoryTyped'
        /\ \A q \in Runner : Recorded(q, history) => Recorded(q, history)'
        /\ \A q \in Runner \ {r} : pen'[q] = pen[q]
        /\ pen'[r] # "down"
        /\ pen'[r] = "lifted" => Recorded(r, history)'
    BY <1>1, <1>3, RecordOfAttempt
  <2>2. PenTrue(r)'
    BY <1>1, <2>1 DEF PenTrue
  <2> QED
    BY <1>1, <2>1, <2>2, RecordKeepsInv
<1> QED
  BY <1>2, <1>3 DEF RecordAttempt

LEMMA VerdictKeepsInv ==
  ASSUME MemoryInv, NEW o \in Operator, RecordVerdict(o)
  PROVE  MemoryInv'
<1>1. /\ UNCHANGED <<vars, history, cut>> /\ stage[o] = "done" /\ stage' = stage
      /\ \A q \in Runner : Recorded(q, history) => Recorded(q, history)'
      /\ o \in Runner /\ o \notin Worker
  BY MemoryAssumption DEF RecordVerdict, vars, Recorded, Runner
<1>2. /\ MemoryTyped'
      /\ \A q \in Runner : Recorded(q, feedback) => Recorded(q, feedback)'
      /\ \A q \in Runner \ {o} : pen'[q] = pen[q]
      /\ pen'[o] # "down"
      /\ pen'[o] = "lifted" => Recorded(o, feedback)'
  BY <1>1, RecordOfVerdict DEF RecordVerdict
<1>3. PenTrue(o)'
  BY <1>1, <1>2 DEF PenTrue
<1> QED
  BY <1>1, <1>2, <1>3, RecordKeepsInv

\* A run that does not record moves on as it does, with its pen down, after an MR only
\* if it has recorded its attempt.
LEMMA RunKeepsMemory ==
  ASSUME MemoryInv, TypeOK, NEW r \in Runner, RunAndRecord(r), ~RecordAttempt(r)
  PROVE  MemoryInv'
<1>1. /\ r \in Process /\ PenTrue(r) /\ MemoryTyped
      /\ copy \in [Process -> Incident] /\ stage \in [Process -> Stages]
      /\ pen \in [Runner -> {"down", "look", "title", "record", "lifted"}]
      /\ copy = [copy EXCEPT ![r] = copy[r]] /\ pen = [pen EXCEPT ![r] = pen[r]]
      /\ cut \subseteq Operator
  BY DEF MemoryInv, MemoryTyped, TypeOK, Process
<1>2. CASE SettleRun(r)
  <2>1. PICK st \in {"blocked", "validated"} :
          /\ stage[r] = "fixing" /\ stage' = [stage EXCEPT ![r] = "done"]
          /\ inc' = [copy[r] EXCEPT !.status = st] /\ copy' = [copy EXCEPT ![r] = inc']
          /\ pr' = pr /\ pen' = [pen EXCEPT ![r] = "down"] /\ UNCHANGED <<history, feedback, cut>>
    BY <1>2 DEF SettleRun, Settle, Step, At, SaveStatus, PutsDown, Puts
  <2>2. inc'.status = st /\ stage'[r] = "done" /\ pen'[r] = "down"
    BY <1>1, <2>1 DEF Incident
  <2>3. PenTrue(r)' /\ ~Recording(r) /\ inc'.status \notin Verdict
    BY <2>1, <2>2 DEF PenTrue, Recording, Verdict
  <2>4. \A q \in Process \ {r} : copy'[q] = copy[q]
    BY <1>1, <2>1
  <2> QED
    BY <1>1, <2>1, <2>3, <2>4, RunnerMoves DEF Stages
<1>3. CASE OpenMr(r) \/ ThrowRun(r)
  <2>1. PICK s \in {"opened", "done"} :
          /\ stage[r] \in {"analyzing", "fixing"} /\ stage' = [stage EXCEPT ![r] = s]
          /\ inc' = inc /\ copy' = [copy EXCEPT ![r] = copy[r]]
          /\ pr' # pr \/ s = "opened" => stage[r] = "fixing" /\ pen[r] = "lifted"
          /\ pen' = [pen EXCEPT ![r] = "down"] /\ UNCHANGED <<history, feedback, cut>>
    BY <1>1, <1>3 DEF OpenMr, CreateMr, ThrowRun, Throw, OnRecord, Step, At, NoSave, PutsDown,
                      Puts
  <2>2. pr' # pr \/ s = "opened" => Recorded(r, history)
    BY <1>1, <2>1 DEF PenTrue
  <2>3. stage'[r] = s /\ pen'[r] = "down"
    BY <1>1, <2>1
  <2>4. PenTrue(r)' /\ ~Recording(r)
    BY <2>1, <2>3 DEF PenTrue, Recording
  <2>5. \A q \in Process \ {r} : copy'[q] = copy[q]
    BY <1>1, <2>1
  <2> QED
    BY <1>1, <2>1, <2>2, <2>4, <2>5, RunnerMoves DEF Stages
<1>4. CASE ElseOfRun(r)
  <2>1. PICK s \in {"analyzing", "fixing", "done", "merging", "merged"} :
          /\ stage[r] \notin {"fixing", "done"} /\ stage' = [stage EXCEPT ![r] = s]
          /\ s \in {"merging", "merged"} => stage[r] \in {"opened", "merging"}
          /\ inc' = inc \/ \E st \in {"analyzed", "mr_opened", "merged"} :
                             inc' = [copy[r] EXCEPT !.status = st]
          /\ \E c \in {copy[r], inc, inc'} : copy' = [copy EXCEPT ![r] = c]
          /\ "created" \in pr' => "created" \in pr
          /\ pen' = pen /\ UNCHANGED <<history, feedback, cut>>
    BY <1>1, <1>4 DEF ElseOfRun, StartRun, NoFix, AttemptFix, RecordMr, MergeMr, MergeFails,
                      RecordMerge, Step, At, SaveStatus, NoSave, LoadIncident, MrMerged, Silent,
                      memoryVars
  <2>2. pen[r] = "down" /\ pen' = [pen EXCEPT ![r] = "down"]
    BY <1>1, <2>1 DEF PenTrue
  <2>3. inc' = inc \/ inc'.status \notin Verdict
    BY <1>1, <2>1 DEF Incident, Verdict
  <2>4. stage'[r] = s /\ pen'[r] = "down"
    BY <1>1, <2>1, <2>2
  <2>5. PenTrue(r)' /\ ~Recording(r)
    BY <2>1, <2>4 DEF PenTrue, Recording
  <2>6. s \in {"merging", "merged"} => Recorded(r, history)
    BY <2>1 DEF MemoryInv, DecisionsAreOnRecord
  <2>7. \A q \in Process \ {r} : copy'[q] = copy[q]
    BY <1>1, <2>1
  <2> QED
    BY <1>1, <2>1, <2>2, <2>3, <2>5, <2>6, <2>7, RunnerMoves DEF Stages
<1> QED
  BY <1>2, <1>3, <1>4 DEF RunAndRecord

LEMMA OperatorKeepsMemory ==
  ASSUME MemoryInv, TypeOK, NEW o \in Operator,
         SaveCommand(o) \/ ExitCommand(o) \/ CutCommand(o) \/ (CommandLoad(o) /\ Silent)
  PROVE  MemoryInv'
<1>1. /\ o \in Runner /\ o \in Process /\ PenTrue(o) /\ o \notin Worker
      /\ copy \in [Process -> Incident] /\ stage \in [Process -> Stages]
      /\ pen \in [Runner -> {"down", "look", "title", "record", "lifted"}]
      /\ pen = [pen EXCEPT ![o] = pen[o]] /\ cut \subseteq Operator
  BY MemoryAssumption DEF MemoryInv, MemoryTyped, TypeOK, Process, Runner
<1>2. CASE SaveCommand(o)
  <2>1. PICK c \in Command \ {"open-mr"} :
          /\ stage[o] = c /\ stage' = [stage EXCEPT ![o] = "done"]
          /\ inc' = [copy[o] EXCEPT !.status = CommandStatus[c]]
          /\ copy' = [copy EXCEPT ![o] = inc'] /\ pr' = pr
          /\ UNCHANGED <<history, feedback>>
    BY <1>2 DEF SaveCommand, CommandSave, Step, At, SaveStatus
  <2>2. inc'.status \in Verdict => inc'.status \in Verdicts
    BY DEF Verdict, Verdicts, CommandStatus, Commands
  <2>3. PICK k \in {"look", "down"} :
          /\ pen' = [pen EXCEPT ![o] = k]
          /\ inc'.status \in Verdict => k = "look"
          /\ (cut' = cut \ {o} /\ k = "look") \/ cut' = cut
    BY <1>2, <2>2 DEF SaveCommand, Puts
  <2>4. stage'[o] = "done" /\ pen'[o] = k
    BY <1>1, <2>1, <2>3
  <2>5. stage[o] \notin {"fixing", "done"} /\ ~Recording(o)
    BY <2>1, LifecycleAssumption DEF Commands, Recording
  <2>6. PenTrue(o)' /\ (k = "look" => Recording(o)') /\ cut' \subseteq Operator
    BY <1>1, <2>3, <2>4 DEF PenTrue, Recording
  <2>7. \A q \in Process \ {o} : copy'[q] = copy[q]
    BY <1>1, <2>1
  <2> QED
    BY <1>1, <2>1, <2>3, <2>5, <2>6, <2>7, RunnerMoves DEF Stages
<1>3. CASE ExitCommand(o)
  <2>1. /\ stage[o] = "done" /\ stage' = [stage EXCEPT ![o] = "none"]
        /\ inc' = inc /\ copy' = [copy EXCEPT ![o] = NoCopy] /\ pr' = pr
        /\ pen[o] \in {"down", "lifted"} /\ pen' = [pen EXCEPT ![o] = "down"]
        /\ UNCHANGED <<history, feedback, cut>>
    BY <1>3 DEF ExitCommand, CommandExit, Step, At, DropCopy, PutsDown, Puts
  <2>2. Recording(o) => Recorded(o, feedback)
    BY <1>1, <2>1 DEF Recording, PenTrue
  <2>3. stage'[o] = "none" /\ pen'[o] = "down"
    BY <1>1, <2>1
  <2>4. PenTrue(o)'
    BY <2>3 DEF PenTrue
  <2>5. \A q \in Process \ {o} : copy'[q] = copy[q]
    BY <1>1, <2>1
  <2> QED
    BY <1>1, <2>1, <2>2, <2>4, <2>5, RunnerMoves DEF Stages
<1>4. CASE CommandLoad(o) /\ Silent
  <2>1. PICK c \in Command \ {"open-mr"} :
          /\ stage[o] = "none" /\ stage' = [stage EXCEPT ![o] = c]
          /\ inc' = inc /\ copy' = [copy EXCEPT ![o] = inc] /\ pr' = pr
          /\ pen' = pen /\ UNCHANGED <<history, feedback, cut>>
    BY <1>4 DEF CommandLoad, Step, At, LoadIncident, Silent, memoryVars
  <2>2. c \in Stages /\ c \notin {"counting", "opened", "merging", "merged", "fixing", "done"}
    BY LifecycleAssumption DEF Commands, Stages
  <2>3. pen[o] = "down" /\ pen' = [pen EXCEPT ![o] = "down"] /\ ~Recording(o)
    BY <1>1, <2>1 DEF PenTrue, Recording
  <2>4. stage'[o] = c /\ pen'[o] = "down"
    BY <1>1, <2>1, <2>3
  <2>5. PenTrue(o)'
    BY <2>4 DEF PenTrue
  <2>6. \A q \in Process \ {o} : copy'[q] = copy[q]
    BY <1>1, <2>1
  <2> QED
    BY <1>1, <2>1, <2>2, <2>3, <2>5, <2>6, RunnerMoves
<1>5. CASE CutCommand(o)
  <2>1. /\ stage' = [stage EXCEPT ![o] = "none"] /\ inc' = inc /\ pr' = pr
        /\ copy' = [copy EXCEPT ![o] = NoCopy] /\ pen' = [pen EXCEPT ![o] = "down"]
        /\ UNCHANGED <<history, feedback>>
        /\ cut' = IF stage[o] = "done" /\ pen[o] \in {"look", "title", "record"}
                  THEN cut \cup {o} ELSE cut
    BY <1>5 DEF CutCommand, OperatorDies, DropCopy, Puts
  <2>2. Recording(o) => Recorded(o, feedback) \/ o \in cut'
    BY <1>1, <2>1 DEF Recording, PenTrue
  <2>3. stage'[o] = "none" /\ pen'[o] = "down"
    BY <1>1, <2>1
  <2>4. PenTrue(o)'
    BY <2>3 DEF PenTrue
  <2>5. \A q \in Process \ {o} : copy'[q] = copy[q]
    BY <1>1, <2>1
  <2>6. cut \subseteq cut' /\ cut' \subseteq Operator
    BY <1>1, <2>1
  <2> QED
    BY <1>1, <2>1, <2>2, <2>4, <2>5, <2>6, RunnerMoves DEF Stages
<1> QED
  BY <1>2, <1>3, <1>4, <1>5

\* A worker is in the middle of a run only while it holds its claim.
Claiming == \A w \in Worker : pc[w] # "working" => stage[w] \in {"none", "counting"}

LEMMA WorkerKeepsMemory ==
  ASSUME MemoryInv, TypeOK, Claiming, NEW w \in Worker,
         \/ (ListPending(w) \/ TryClaim(w) \/ FinishPass(w)) /\ Silent
         \/ WorkerDies(w) /\ PutsDown(w)
  PROVE  MemoryInv'
<1>1. /\ w \in Runner /\ w \in Process /\ PenTrue(w) /\ w \notin Operator
      /\ copy \in [Process -> Incident] /\ stage \in [Process -> Stages]
      /\ pen \in [Runner -> {"down", "look", "title", "record", "lifted"}]
      /\ cut \subseteq Operator
  BY MemoryAssumption DEF MemoryInv, MemoryTyped, TypeOK, Process, Runner
<1>2. inc' = inc /\ pr' = pr /\ UNCHANGED <<history, feedback, cut>>
  BY DEF ListPending, TryClaim, FinishPass, WorkerDies, DropCopy, Silent, memoryVars, PutsDown
<1>3. CASE ListPending(w) /\ Silent
  BY <1>2, <1>3 DEF ListPending, Silent, memoryVars, MemoryInv, MemoryTyped, PenTrue,
                    CountsOnOpen, DecisionsAreOnRecord, Recording, Recorded
<1>4. CASE \/ (TryClaim(w) \/ FinishPass(w)) /\ Silent
           \/ WorkerDies(w) /\ PutsDown(w)
  <2>1. PICK s \in {"loading", "none"} : stage' = [stage EXCEPT ![w] = s]
    BY <1>4 DEF TryClaim, FinishPass, WorkerDies, At
  <2>2. \A q \in Process \ {w} : copy'[q] = copy[q]
    BY <1>1, <1>4 DEF TryClaim, FinishPass, WorkerDies, DropCopy
  <2>3. pen' = [pen EXCEPT ![w] = "down"]
    <3>1. CASE TryClaim(w) /\ Silent
      <4>1. pc[w] # "working"
        BY <3>1 DEF TryClaim, ClaimStep, OpenExclusive, Stat, RemoveStale, Reopen, Goto
      <4>2. pen[w] = "down"
        BY <1>1, <4>1 DEF Claiming, PenTrue
      <4> QED
        BY <1>1, <3>1, <4>2 DEF Silent, memoryVars
    <3>2. CASE FinishPass(w) /\ Silent
      <4>1. pen[w] = "down"
        BY <1>1, <3>2 DEF FinishPass, At, PenTrue
      <4> QED
        BY <1>1, <3>2, <4>1 DEF Silent, memoryVars
    <3>3. CASE WorkerDies(w) /\ PutsDown(w)
      BY <3>3 DEF PutsDown, Puts
    <3> QED
      BY <1>4, <3>1, <3>2, <3>3
  <2>4. stage'[w] = s /\ pen'[w] = "down"
    BY <1>1, <2>1, <2>3
  <2>5. PenTrue(w)'
    BY <2>4 DEF PenTrue
  <2> QED
    BY <1>1, <1>2, <2>1, <2>2, <2>3, <2>5, RunnerMoves DEF Stages
<1> QED
  BY <1>3, <1>4

\* Engines never hold a verdict: they look for open incidents only.
LEMMA EngineKeepsMemory ==
  ASSUME MemoryInv, TypeOK, NEW e \in Engine, EngineStep(e), Silent
  PROVE  MemoryInv'
<1>1. /\ stage \in [Process -> Stages] /\ copy \in [Process -> Incident] /\ e \in Process
      /\ UNCHANGED <<history, feedback, pen, pr, cut>> /\ MemoryTyped'
  BY DEF TypeOK, Process, MemoryInv, MemoryTyped, Silent, memoryVars, EngineStep,
         EventFindsIncident, EventSaved
<1>2. PICK s \in {"none", "counting"} :
        /\ stage[e] \in {"none", "counting"} /\ stage' = [stage EXCEPT ![e] = s]
        /\ s = "counting" => inc.status \notin Verdict /\ copy' = [copy EXCEPT ![e] = inc]
        /\ \A q \in Process \ {e} : copy'[q] = copy[q]
        /\ inc' = inc \/ inc'.status \notin Verdict
  <2>1. CASE EventFindsIncident(e)
    BY <1>1, <2>1 DEF EventFindsIncident, At, LoadIncident, Closed, Verdict
  <2>2. CASE EventSaved(e)
    <3>1. stage[e] = "counting" /\ inc' = [copy[e] EXCEPT !.event_count = @ + 1]
      BY <2>2 DEF EventSaved, At
    <3>2. copy[e].status \notin Verdict /\ copy[e] \in Incident
      BY <1>1, <3>1 DEF MemoryInv, CountsOnOpen
    <3>3. inc'.status = copy[e].status
      BY <3>1, <3>2 DEF Incident
    <3> QED
      BY <1>1, <2>2, <3>2, <3>3 DEF EventSaved, At
  <2> QED
    BY <2>1, <2>2 DEF EngineStep
<1>3. stage'[e] = s /\ \A q \in Process \ {e} : stage'[q] = stage[q]
  BY <1>1, <1>2
<1>4. ASSUME NEW r \in Runner PROVE PenTrue(r)'
  <2>1. r \in Process /\ PenTrue(r)
    BY DEF MemoryInv, Process
  <2>2. CASE r = e
    BY <1>1, <1>2, <1>3, <2>1, <2>2 DEF PenTrue
  <2>3. CASE r # e
    BY <1>1, <1>3, <2>1, <2>3 DEF PenTrue, Recorded
  <2> QED
    BY <2>2, <2>3
<1>5. CountsOnOpen'
  BY <1>1, <1>2, <1>3 DEF CountsOnOpen, MemoryInv, Process
<1>6. ASSUME NEW o \in Operator, Recording(o) PROVE Recording(o)'
  BY <1>1, <1>2, <1>3, <1>6 DEF Recording, Process, Runner
<1>7. DecisionsAreOnRecord'
  <2>1. \A q \in Runner : /\ Recorded(q, history) => Recorded(q, history)'
                         /\ Recorded(q, feedback) => Recorded(q, feedback)'
    BY <1>1 DEF Recorded
  <2>2. \A q \in Runner : stage'[q] \in {"opened", "merging", "merged"} => stage'[q] = stage[q]
    BY <1>2, <1>3 DEF Process
  <2>3. inc'.status \in Verdict => inc' = inc
    BY <1>2
  <2> QED
    BY <1>1, <1>6, <2>1, <2>2, <2>3 DEF DecisionsAreOnRecord, MemoryInv, Verdict, Runner
<1> QED
  BY <1>1, <1>4, <1>5, <1>7 DEF MemoryInv

\* What happens outside touches neither files nor verdicts.
LEMMA OutsideKeepsMemory ==
  ASSUME MemoryInv, UNCHANGED <<inc, copy, stage>>, Silent, "created" \in pr' => "created" \in pr
  PROVE  MemoryInv'
<1>1. UNCHANGED <<history, feedback, pen, cut>>
  BY DEF Silent, memoryVars
<1>2. \A r \in Runner : PenTrue(r)'
  BY <1>1 DEF MemoryInv, PenTrue, Recorded
<1>3. DecisionsAreOnRecord'
  BY <1>1 DEF MemoryInv, DecisionsAreOnRecord, Recorded, Recording
<1> QED
  BY <1>1, <1>2, <1>3 DEF MemoryInv, MemoryTyped, CountsOnOpen

-----------------------------------------------------------------------------

\* Only the holder of a claim enters the run, and it leaves the run before the claim.
LEMMA ClaimingHolds == Spec => []Claiming
<1>1. Init => Claiming
  BY DEF Init, Claiming, Process, Runner
<1>2. TypeOK /\ Claiming /\ [Next]_vars => Claiming'
  <2> SUFFICES ASSUME TypeOK, Claiming, [Next]_vars PROVE Claiming'
    OBVIOUS
  <2>1. /\ stage \in [Process -> Stages] /\ Worker \subseteq Process
        /\ pc \in [Worker -> {"idle", "stat", "remove", "reopen", "working", "dead"}]
    BY DEF TypeOK, LockTypeOK, Process, Runner
  <2>2. ASSUME NEW r \in Runner, Run(r)
        PROVE  Claiming'
    <3>1. pc' = pc /\ \E s \in Stages : stage' = [stage EXCEPT ![r] = s]
      BY <2>2 DEF Run, StartRun, NoFix, AttemptFix, Settle, CreateMr, Throw, RecordMr,
                  MergeMr, MergeFails, RecordMerge, Step, At, lockVars, Stages
    <3>2. r \in Worker => stage[r] \notin {"none", "counting"}
      BY <2>2, MemoryAssumption DEF Run, StartRun, NoFix, AttemptFix, Settle, CreateMr, Throw,
                  RecordMr, MergeMr, MergeFails, RecordMerge, Step, At
    <3> QED
      BY <2>1, <3>1, <3>2 DEF Claiming
  <2>3. ASSUME NEW w \in Worker, ListPending(w) \/ UNCHANGED <<pc, stage>>
        PROVE  Claiming'
    BY <2>3 DEF ListPending, lockVars, Claiming
  <2>4. ASSUME NEW w \in Worker, TryClaim(w) \/ FinishPass(w) \/ WorkerDies(w)
        PROVE  Claiming'
    <3>1. \A x \in Worker \ {w} : pc'[x] = pc[x] /\ stage'[x] = stage[x]
      BY <2>1, <2>4 DEF TryClaim, FinishPass, WorkerDies, ClaimStep, OpenExclusive, Stat,
                        RemoveStale, Reopen, Release, Crash, Goto, At
    <3>2. stage'[w] = "none" \/ pc'[w] = "working"
      BY <2>1, <2>4 DEF TryClaim, FinishPass, WorkerDies, At
    <3> QED
      BY <3>1, <3>2 DEF Claiming
  <2>5. ASSUME NEW o \in Operator,
               CommandLoad(o) \/ CommandSave(o) \/ CommandExit(o) \/ OperatorDies(o)
        PROVE  Claiming'
    <3>1. pc' = pc /\ \E s \in Stages \cup Commands : stage' = [stage EXCEPT ![o] = s]
      BY <2>5, LifecycleAssumption DEF CommandLoad, CommandSave, CommandExit, OperatorDies, Step,
                                      At, lockVars, Stages
    <3>2. o \notin Worker
      BY MemoryAssumption
    <3> QED
      BY <2>1, <3>1, <3>2 DEF Claiming
  <2>6. ASSUME NEW e \in Engine, EngineStep(e)
        PROVE  Claiming'
    <3>1. pc' = pc /\ \E s \in {"none", "counting"} : stage' = [stage EXCEPT ![e] = s]
      BY <2>6 DEF EngineStep, EventFindsIncident, EventSaved, At, lockVars
    <3> QED
      BY <2>1, <3>1 DEF Claiming
  <2>7. ASSUME Environment
        PROVE  Claiming'
    <3>1. CASE ReviewMr \/ (Tick /\ UNCHANGED stage)
      BY <3>1 DEF ReviewMr, Tick, lockVars, Claiming
    <3>2. ASSUME NEW w \in Worker, Restart(w), UNCHANGED stage
          PROVE  Claiming'
      BY <2>1, <3>2 DEF Restart, Goto, Claiming
    <3> QED
      BY <2>4, <2>5, <2>7, <3>1, <3>2 DEF Environment
  <2>8. CASE UNCHANGED vars
    BY <2>8 DEF vars, lockVars, Claiming
  <2> QED
    BY <2>2, <2>3, <2>4, <2>5, <2>6, <2>7, <2>8 DEF Next, WorkerStep, OperatorStep, Runner
<1> QED
  BY <1>1, <1>2, LifecycleTyping, PTL DEF Spec

-----------------------------------------------------------------------------

LEMMA MemoryInvariant == MemorySpec => []MemoryInv
<1>1. MemoryInit => MemoryInv
  <2> SUFFICES ASSUME MemoryInit PROVE MemoryInv
    OBVIOUS
  <2>1. /\ history = NoFile /\ feedback = NoFile /\ NoFile \in File
        /\ pen = [r \in Runner |-> "down"] /\ stage = [p \in Process |-> "none"]
        /\ inc.status = "created" /\ pr = {} /\ cut = {}
    BY DEF MemoryInit, Init, NoFile, File
  <2> QED
    BY <2>1 DEF MemoryInv, MemoryTyped, PenTrue, CountsOnOpen, DecisionsAreOnRecord, Process,
                Runner, Verdict
<1>2. TypeOK /\ Claiming /\ MemoryInv /\ [MemoryNext]_allVars => MemoryInv'
  <2> SUFFICES ASSUME TypeOK, Claiming, MemoryInv, [MemoryNext]_allVars PROVE MemoryInv'
    OBVIOUS
  <2>1. ASSUME NEW r \in Runner, RunAndRecord(r)
        PROVE  MemoryInv'
    BY <2>1, AttemptKeepsInv, RunKeepsMemory
  <2>2. ASSUME NEW w \in Worker, WorkerRecords(w)
        PROVE  MemoryInv'
    BY <2>1, <2>2, WorkerKeepsMemory DEF WorkerRecords, Runner
  <2>3. ASSUME NEW o \in Operator, OperatorRecords(o)
        PROVE  MemoryInv'
    BY <2>1, <2>3, OperatorKeepsMemory, VerdictKeepsInv DEF OperatorRecords, Runner
  <2>4. ASSUME NEW e \in Engine, EngineStep(e), Silent
        PROVE  MemoryInv'
    BY <2>4, EngineKeepsMemory
  <2>5. ASSUME NEW w \in Worker, WorkerDies(w), PutsDown(w)
        PROVE  MemoryInv'
    BY <2>5, WorkerKeepsMemory
  <2>6. ASSUME ReviewMr \/ UNCHANGED <<inc, copy, stage, pr>>, Silent
        PROVE  MemoryInv'
    BY <2>6, OutsideKeepsMemory DEF ReviewMr, MrMerged, MrClosed
  <2>7. ASSUME OutsideMemory
        PROVE  MemoryInv'
    BY <2>5, <2>6, <2>7, OperatorKeepsMemory DEF OutsideMemory
  <2>8. CASE UNCHANGED allVars
    BY <2>6, <2>8 DEF allVars, vars, Silent
  <2> QED
    BY <2>2, <2>3, <2>4, <2>7, <2>8 DEF MemoryNext
<1> QED
  BY <1>1, <1>2, MemoryImplementsLifecycle, LifecycleTyping, ClaimingHolds, PTL DEF MemorySpec

\* The variables of the memory keep their types for any processes.
THEOREM MemoryTyping == MemorySpec => []MemoryTypeOK
<1>1. TypeOK /\ MemoryInv => MemoryTypeOK
  BY DEF MemoryInv, MemoryTyped, MemoryTypeOK
<1> QED
  BY <1>1, MemoryInvariant, MemoryImplementsLifecycle, LifecycleTyping, PTL

\* For any workers, commands and engines, wherever they stop or die: every merge request
\* was recorded first, and a verdict stands in incident.json only beside a verdict that
\* is on record or being put there, or a command that died between its save and its
\* record.
THEOREM RecordsHold == MemorySpec => []DecisionsAreOnRecord
<1>1. MemoryInv => DecisionsAreOnRecord
  BY DEF MemoryInv
<1> QED
  BY <1>1, MemoryInvariant, PTL

=============================================================================
