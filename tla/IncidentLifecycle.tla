--------------------------- MODULE IncidentLifecycle ---------------------------
(***************************************************************************)
(* One incident and everybody who writes its incident.json: the worker     *)
(* processes (src/incident/worker.ts) that claim it through ClaimLock and  *)
(* run the pipeline (src/incident/pipeline.ts) on it, the command line     *)
(* (src/cli/commands/incidents.ts), and the agents' engines that count     *)
(* repeated events on it (src/incident/engine.ts).                         *)
(*                                                                         *)
(* Each of them loads the whole record, changes a field of its own copy    *)
(* and saves the whole copy, some of them many awaits later: every load,   *)
(* every await and every save is a step here.  The stages of a pipeline    *)
(* run are those between which another process can see a difference; what  *)
(* happens inside the fixing stage is the subject of FixPipeline.  A save  *)
(* takes effect at once.                                                   *)
(***************************************************************************)
EXTENDS ClaimLock

CONSTANTS
  Operator,  \* command-line processes run by people
  Command,   \* the `kafuops incidents' commands they run
  Engine,    \* agent processes that ingest events of this incident
  AutoMerge, \* repo.mr.auto_merge
  MaxEvents  \* bound: events ingested in a behaviour

Commands == {"open-mr", "build-context", "analyze",
             "mark-resolved", "mark-merged", "mark-rejected"}

ASSUME LifecycleAssumption ==
  /\ Worker \cap Operator = {} /\ (Worker \cup Operator) \cap Engine = {}
  /\ Command \subseteq Commands
  /\ AutoMerge \in BOOLEAN
  /\ MaxEvents \in Nat

VARIABLES
  inc,    \* incident.json: the fields status and event_count
  copy,   \* the record each process loaded and will save
  stage,  \* how far each process is with its load .. save
  todo,   \* the workers whose list of pending incidents holds this one
  pr,     \* the provider's side: a merge request of the incident's branch is
          \* "open", one was ever "created", one was ever "merged"
  events  \* how many events of this incident were ingested (a ghost)

vars == <<lockVars, inc, copy, stage, todo, pr, events>>

Runner  == Worker \cup Operator \* they run processIncidentToMr
Process == Runner \cup Engine

\* selectPendingIncidents: the statuses that warrant an automatic pass.
Actionable == {"created", "context_built", "analyzed"}

\* findOpenByFingerprint does not count events on these.
Closed == {"merged", "rejected", "resolved"}

Status == Actionable \cup Closed \cup {"blocked", "validated", "mr_opened"}

NoCopy == [status |-> "created", event_count |-> 0]

Init ==
  /\ LockInit
  /\ inc = [status |-> "created", event_count |-> 1]
  /\ copy = [p \in Process |-> NoCopy]
  /\ stage = [p \in Process |-> "none"]
  /\ todo = {}
  /\ pr = {}
  /\ events = 1

MrCreated == "open" \notin pr /\ pr' = pr \cup {"open", "created"}
MrMerged  == "open" \in pr /\ pr' = (pr \ {"open"}) \cup {"merged"}
MrClosed  == "open" \in pr /\ pr' = pr \ {"open"}

At(p, from, to) == stage[p] = from /\ stage' = [stage EXCEPT ![p] = to]

LoadIncident(p) == copy' = [copy EXCEPT ![p] = inc] /\ UNCHANGED inc

\* inc.status = s; store.save(inc): the copy as it was loaded, with s.
SaveStatus(p, s) ==
  /\ inc' = [copy[p] EXCEPT !.status = s]
  /\ copy' = [copy EXCEPT ![p] = inc']

NoSave == UNCHANGED <<inc, copy>>

DropCopy(p) == copy' = [copy EXCEPT ![p] = NoCopy] /\ UNCHANGED inc

-----------------------------------------------------------------------------
(***************************************************************************)
(* runWorkerOnce: list, then claim, then the pipeline, then release.       *)
(***************************************************************************)

\* A slip of ListPending: selectPendingIncidents keeps the blocked incidents.
ListBlockedToo(w) ==
  /\ pc[w] = "idle"
  /\ w \notin todo
  /\ inc.status \in Actionable \cup {"blocked"}
  /\ todo' = todo \cup {w}
  /\ UNCHANGED <<lockVars, inc, copy, stage, pr, events>>

\* The list is read once per pass; the claim comes after it, and the status is
\* not looked at again under the claim.
ListPending(w) ==
  /\ pc[w] = "idle"
  /\ w \notin todo
  /\ inc.status \in Actionable
  /\ todo' = todo \cup {w}
  /\ UNCHANGED <<lockVars, inc, copy, stage, pr, events>>

\* One call of tryClaim; a refused claim is skipped until the next pass.
TryClaim(w) ==
  /\ w \in todo
  /\ ClaimStep(w)
  /\ stage' = [stage EXCEPT ![w] = IF pc'[w] = "working" THEN "loading" ELSE "none"]
  /\ todo' = IF pc'[w] = "idle" THEN todo \ {w} ELSE todo
  /\ UNCHANGED <<inc, copy, pr, events>>

FinishPass(w) ==
  /\ Release(w)
  /\ At(w, "done", "none")
  /\ DropCopy(w)
  /\ todo' = todo \ {w}
  /\ UNCHANGED <<pr, events>>

-----------------------------------------------------------------------------
(***************************************************************************)
(* processIncidentToMr.  The worker enters it with a claim, the command    *)
(* open-mr without one.                                                    *)
(***************************************************************************)
StartRun(r) ==
  /\ \/ r \in Worker /\ At(r, "loading", "analyzing")
     \/ r \in Operator /\ "open-mr" \in Command /\ At(r, "none", "analyzing")
  /\ LoadIncident(r)
  /\ UNCHANGED <<lockVars, todo, pr, events>>

Step(r, from, to) == At(r, from, to) /\ UNCHANGED <<lockVars, todo, events>>

\* The root cause came back with should_attempt_fix false, or true.
NoFix(r) == Step(r, "analyzing", "done") /\ SaveStatus(r, "analyzed") /\ UNCHANGED pr

AttemptFix(r) == Step(r, "analyzing", "fixing") /\ NoSave /\ UNCHANGED pr

\* A gate blocked the fix, or the MR body was saved without opening an MR.
Settle(r) ==
  /\ Step(r, "fixing", "done")
  /\ \E s \in {"blocked", "validated"} : SaveStatus(r, s)
  /\ UNCHANGED pr

\* openGithubPr / openGitlabMr: the provider refuses a second open MR of the
\* same branch (the branch's name is the incident's).
CreateMr(r) ==
  /\ Step(r, "fixing", "opened")
  /\ MrCreated
  /\ NoSave

\* A slip of Throw: the provider's refusal is swallowed and the run goes on.
ThrowIsSwallowed(r) ==
  /\ \/ Step(r, "analyzing", "done") /\ UNCHANGED pr
     \/ Step(r, "fixing", "opened") /\ UNCHANGED pr
  /\ NoSave

\* An await of the run throws: nothing is saved.  The provider may have created
\* the MR and only its answer been lost.
Throw(r) ==
  /\ \/ Step(r, "analyzing", "done") /\ UNCHANGED pr
     \/ Step(r, "fixing", "done") /\ UNCHANGED pr
     \/ Step(r, "fixing", "done") /\ MrCreated
  /\ NoSave

RecordMr(r) ==
  /\ Step(r, "opened", IF AutoMerge THEN "merging" ELSE "done")
  /\ SaveStatus(r, "mr_opened")
  /\ UNCHANGED pr

MergeMr(r) ==
  /\ Step(r, "merging", "merged")
  /\ MrMerged
  /\ NoSave

\* The merge failed, or it happened and its answer was lost: the catch leaves
\* the incident at mr_opened.
MergeFails(r) ==
  /\ Step(r, "merging", "done")
  /\ \/ UNCHANGED pr
     \/ MrMerged
  /\ NoSave

RecordMerge(r) == Step(r, "merged", "done") /\ SaveStatus(r, "merged") /\ UNCHANGED pr

Run(r) ==
  \/ StartRun(r) \/ NoFix(r) \/ AttemptFix(r) \/ Settle(r) \/ CreateMr(r)
  \/ Throw(r) \/ RecordMr(r) \/ MergeMr(r) \/ MergeFails(r) \/ RecordMerge(r)

-----------------------------------------------------------------------------
(***************************************************************************)
(* The other commands: load, (for analyze) await the model, save.          *)
(***************************************************************************)
\* A slip of CommandStatus: a status that is not an IncidentStatus.
CommandStatusMisspelt == [c \in Commands \ {"open-mr"} |-> "closed"]

CommandStatus ==
  [c \in Commands \ {"open-mr"} |->
     CASE c = "build-context" -> "context_built"
       [] c = "analyze"       -> "analyzed"
       [] c = "mark-resolved" -> "resolved"
       [] c = "mark-merged"   -> "merged"
       [] c = "mark-rejected" -> "rejected"]

CommandLoad(o) ==
  \E c \in Command \ {"open-mr"} :
    Step(o, "none", c) /\ LoadIncident(o) /\ UNCHANGED pr

CommandSave(o) ==
  \E c \in Command \ {"open-mr"} :
    Step(o, c, "done") /\ SaveStatus(o, CommandStatus[c]) /\ UNCHANGED pr

CommandExit(o) == Step(o, "done", "none") /\ DropCopy(o) /\ UNCHANGED pr

(***************************************************************************)
(* IncidentEngine.ingest of a repeated event: the open incident found by   *)
(* its fingerprint is counted up and saved.                                *)
(***************************************************************************)
EventFindsIncident(e) ==
  /\ events < MaxEvents
  /\ inc.status \notin Closed
  /\ At(e, "none", "counting")
  /\ LoadIncident(e)
  /\ events' = events + 1
  /\ UNCHANGED <<lockVars, todo, pr>>

\* A slip of EventSaved: the event is counted twice.
EventSavedTwice(e) ==
  /\ At(e, "counting", "none")
  /\ inc' = [copy[e] EXCEPT !.event_count = @ + 2]
  /\ copy' = [copy EXCEPT ![e] = NoCopy]
  /\ UNCHANGED <<lockVars, todo, pr, events>>

EventSaved(e) ==
  /\ At(e, "counting", "none")
  /\ inc' = [copy[e] EXCEPT !.event_count = @ + 1]
  /\ copy' = [copy EXCEPT ![e] = NoCopy]
  /\ UNCHANGED <<lockVars, todo, pr, events>>

(***************************************************************************)
(* The environment: a reviewer at the provider, time, and processes that   *)
(* die.                                                                    *)
(***************************************************************************)
ReviewMr ==
  /\ MrMerged \/ MrClosed
  /\ UNCHANGED <<lockVars, inc, copy, stage, todo, events>>

WorkerDies(w) ==
  /\ Crash(w)
  /\ stage' = [stage EXCEPT ![w] = "none"]
  /\ todo' = todo \ {w}
  /\ DropCopy(w)
  /\ UNCHANGED <<pr, events>>

\* A command is killed, or throws, between any two of its steps.
OperatorDies(o) ==
  /\ stage[o] # "none"
  /\ stage' = [stage EXCEPT ![o] = "none"]
  /\ DropCopy(o)
  /\ UNCHANGED <<lockVars, todo, pr, events>>

Environment ==
  \/ ReviewMr
  \/ \E w \in Worker : WorkerDies(w)
  \/ \E o \in Operator : OperatorDies(o)
  \/ (Tick \/ \E w \in Worker : Restart(w))
     /\ UNCHANGED <<inc, copy, stage, todo, pr, events>>

WorkerStep(w) == ListPending(w) \/ TryClaim(w) \/ Run(w) \/ FinishPass(w)
OperatorStep(o) == Run(o) \/ CommandLoad(o) \/ CommandSave(o) \/ CommandExit(o)
EngineStep(e) == EventFindsIncident(e) \/ EventSaved(e)

Next ==
  \/ \E w \in Worker : WorkerStep(w)
  \/ \E o \in Operator : OperatorStep(o)
  \/ \E e \in Engine : EngineStep(e)
  \/ Environment

Spec == Init /\ [][Next]_vars

\* A worker that is alive keeps polling, each await of its run settles one way
\* or the other (the provider's calls have no time limit: that they return is assumed),
\* and the clock runs.  Nothing makes a dead worker start again.
Fairness ==
  /\ WF_vars(Tick /\ UNCHANGED <<inc, copy, stage, todo, pr, events>>)
  /\ \A w \in Worker : WF_vars(WorkerStep(w))

FairSpec == Spec /\ Fairness

-----------------------------------------------------------------------------

Stages == {"none", "loading", "analyzing", "fixing", "opened", "merging",
           "merged", "done", "counting"} \cup (Commands \ {"open-mr"})

Incident == [status : Status, event_count : Nat]

\* The type of the variables.
TypeOK ==
  /\ LockTypeOK
  /\ inc \in Incident
  /\ copy \in [Process -> Incident]
  /\ stage \in [Process -> Stages]
  /\ todo \subseteq Worker
  /\ pr \subseteq {"open", "created", "merged"}
  /\ events \in Nat

\* What incident.json says of the merge request has happened at the provider,
\* whoever wrote it, from however old a copy, and wherever a run was cut short:
\* mr_opened is written only after the provider created the MR, merged only
\* after it merged it (unless a person marks the incident merged by hand).
MrStatusIsReal ==
  /\ inc.status = "mr_opened" => "created" \in pr
  /\ inc.status = "merged" /\ "mark-merged" \notin Command => "merged" \in pr

\* However the read-modify-writes of engines and pipelines overlap, the event
\* count of an incident never exceeds the events that were ingested (it may
\* fall short: a save from an older copy loses the events counted meanwhile).
CountsOnlyRealEvents == inc.event_count <= events

\* Once a pipeline run has decided the incident (blocked, validated, mr_opened
\* or merged), its status only moves on from mr_opened to merged: it is not
\* analysed and patched a second time, also when the worker dies in between.
DecidedOnce ==
  [][inc.status \notin Actionable =>
       inc'.status = inc.status \/ (inc.status = "mr_opened" /\ inc'.status = "merged")]_inc

\* No incident is forgotten: one that still warrants an automatic pass gets one
\* again and again, also when a worker died with the claim in its hands, provided
\* some worker is alive in the end and the workers do not die over and over.
DeathsCease ==
  /\ \A w \in Crashable : <>[](pc[w] = "dead") \/ <>[](pc[w] # "dead")
  /\ \E w \in Worker : <>[](pc[w] # "dead")
PendingIsPickedUp ==
  DeathsCease =>
    []<>(inc.status \notin Actionable \/ \E w \in Worker : stage[w] = "analyzing")

=============================================================================
