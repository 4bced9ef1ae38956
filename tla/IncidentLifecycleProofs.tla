------------------------ MODULE IncidentLifecycleProofs ------------------------
(***************************************************************************)
(* Proofs about ClaimLock for any set of workers and any stale age: the    *)
(* type invariant; and, when no worker dies or outlasts the stale age,     *)
(* mutual exclusion and the implementation of ExclusiveClaim (its safety   *)
(* part).                                                                  *)
(*                                                                         *)
(* Proofs about IncidentLifecycle for any number of workers, command lines *)
(* and engines, whichever workers crash or are slow: the type invariant,   *)
(* that incident.json never claims a merge request or a merge that did not *)
(* happen, and that it never counts an event that was not ingested.  Then  *)
(* two results under conditions: the runs of prompt workers do not overlap,*)
(* and a worker by itself decides an incident once.                        *)
(***************************************************************************)
EXTENDS IncidentLifecycle, TLAPS

\* Every step of the lock keeps the three variables in their types: a worker
\* is always at one of the six points of tryClaim / releaseClaim and the file
\* is always some worker's or absent.
THEOREM LockTyping == LockSpec => []LockTypeOK
<1> USE ClaimAssumption DEF LockTypeOK
<1>1. LockInit => LockTypeOK
  BY DEF LockInit
<1>2. LockTypeOK /\ [LockNext]_lockVars => LockTypeOK'
  <2> SUFFICES ASSUME LockTypeOK, [LockNext]_lockVars
               PROVE  LockTypeOK'
    OBVIOUS
  <2>1. CASE Tick
    BY <2>1 DEF Tick
  <2>2. ASSUME NEW w \in Worker, ClaimStep(w)
        PROVE  LockTypeOK'
    BY <2>2 DEF ClaimStep, OpenExclusive, Stat, RemoveStale, Reopen,
                Goto, CreateFile, RemoveFile, SameFile
  <2>3. ASSUME NEW w \in Worker, Release(w) \/ Crash(w) \/ Restart(w)
        PROVE  LockTypeOK'
    BY <2>3 DEF Release, Crash, Restart, Goto, RemoveFile, SameFile
  <2>4. CASE UNCHANGED lockVars
    BY <2>4 DEF lockVars
  <2> QED
    BY <2>1, <2>2, <2>3, <2>4 DEF LockNext
<1> QED
  BY <1>1, <1>2, PTL DEF LockSpec

-----------------------------------------------------------------------------
(***************************************************************************)
(* Mutual exclusion.  AtMostOneWorker is not inductive: a worker about to  *)
(* remove the file, or a file that is no longer its worker's, would break  *)
(* it in the next steps.  The invariant that is adds that the file is      *)
(* exactly the claim of the worker that is processing, that nobody ever    *)
(* finds it stale, and so nobody ever is about to remove it.               *)
(***************************************************************************)
PromptInv ==
  /\ LockTypeOK
  /\ \A w \in Worker : pc[w] = "working" <=> lock = w
  /\ \A w \in Worker : pc[w] \notin {"remove", "dead"}
  /\ age <= StaleAge

\* The claim file is the claim, when workers neither die nor outlast the stale
\* age: the worker that is processing owns the file, and no worker ever decides
\* to steal it.
LEMMA PromptInvariant ==
  ASSUME Crashable = {}, Slow = {}
  PROVE  LockSpec => []PromptInv
<1> USE ClaimAssumption DEF PromptInv, LockTypeOK
<1>1. LockInit => PromptInv
  BY DEF LockInit
<1>2. PromptInv /\ [LockNext]_lockVars => PromptInv'
  <2> SUFFICES ASSUME PromptInv, [LockNext]_lockVars
               PROVE  PromptInv'
    OBVIOUS
  <2>1. CASE Tick
    <3>1. lock \in Worker /\ pc[lock] = "working"
      BY <2>1 DEF Tick
    <3>2. age # StaleAge
      BY <2>1, <3>1 DEF Tick, Overdue
    <3> QED
      BY <2>1, <3>2 DEF Tick
  <2>2. ASSUME NEW w \in Worker, OpenExclusive(w)
        PROVE  PromptInv'
    BY <2>2 DEF OpenExclusive, Goto, CreateFile, SameFile
  <2>3. ASSUME NEW w \in Worker, Stat(w)
        PROVE  PromptInv'
    BY <2>3 DEF Stat, Goto, SameFile
  <2>4. ASSUME NEW w \in Worker, RemoveStale(w)
        PROVE  PromptInv'
    BY <2>4 DEF RemoveStale, Goto
  <2>5. ASSUME NEW w \in Worker, Reopen(w)
        PROVE  PromptInv'
    BY <2>5 DEF Reopen, Goto, CreateFile, SameFile
  <2>6. ASSUME NEW w \in Worker, Release(w)
        PROVE  PromptInv'
    BY <2>6 DEF Release, Goto, RemoveFile
  <2>7. ASSUME NEW w \in Worker, Crash(w) \/ Restart(w)
        PROVE  PromptInv'
    BY <2>7 DEF Crash, Restart, Goto
  <2>8. CASE UNCHANGED lockVars
    BY <2>8 DEF lockVars
  <2> QED
    BY <2>1, <2>2, <2>3, <2>4, <2>5, <2>6, <2>7, <2>8
       DEF LockNext, ClaimStep
<1> QED
  BY <1>1, <1>2, PTL DEF LockSpec

\* Two workers never process one incident at once, for any number of workers
\* and any stale age, as long as no worker dies holding a claim and none holds
\* one for longer than the stale age.
THEOREM ClaimMutualExclusion ==
  ASSUME Crashable = {}, Slow = {}
  PROVE  LockSpec => []AtMostOneWorker
<1>1. PromptInv => AtMostOneWorker
  BY DEF PromptInv, AtMostOneWorker, Working
<1> QED
  BY <1>1, PromptInvariant, PTL

\* Under the same conditions the lock protocol of tryClaim and releaseClaim is
\* the exclusive claim: every step of it acquires the incident while nobody
\* holds it, gives it up, or leaves its holders as they are.
THEOREM ClaimImplementsExclusion ==
  ASSUME Crashable = {}, Slow = {}
  PROVE  LockSpec => Claim!Spec
<1> USE ClaimAssumption DEF Working
<1>1. LockInit => Claim!Init
  BY DEF LockInit, Claim!Init
<1>2. PromptInv /\ [LockNext]_lockVars => [Claim!Next]_Working
  <2> SUFFICES ASSUME PromptInv, [LockNext]_lockVars
               PROVE  Claim!Next \/ Working' = Working
    BY DEF Claim!Next
  <2> USE DEF PromptInv, LockTypeOK
  <2>1. CASE Tick
    BY <2>1 DEF Tick
  <2>2. ASSUME NEW w \in Worker, lock = None, pc' = [pc EXCEPT ![w] = "working"]
        PROVE  Claim!Next
    <3>1. Working = {} /\ Working' = {w}
      BY <2>2
    <3> QED
      BY <3>1 DEF Claim!Next, Claim!Acquire
  <2>3. ASSUME NEW w \in Worker, Release(w)
        PROVE  Claim!Next
    <3>1. Working = {w} /\ Working' = {}
      BY <2>3 DEF Release, Goto
    <3> QED
      BY <3>1 DEF Claim!Next, Claim!GiveUp
  <2>4. ASSUME NEW w \in Worker, ClaimStep(w)
        PROVE  Claim!Next \/ Working' = Working
    <3>1. CASE OpenExclusive(w) \/ Reopen(w)
      BY <3>1, <2>2 DEF OpenExclusive, Reopen, Goto, CreateFile
    <3>2. CASE Stat(w) \/ RemoveStale(w)
      BY <3>2 DEF Stat, RemoveStale, Goto
    <3> QED
      BY <2>4, <3>1, <3>2 DEF ClaimStep
  <2>5. ASSUME NEW w \in Worker, Crash(w) \/ Restart(w)
        PROVE  Working' = Working
    BY <2>5 DEF Crash, Restart, Goto
  <2>6. CASE UNCHANGED lockVars
    BY <2>6 DEF lockVars
  <2> QED
    BY <2>1, <2>3, <2>4, <2>5, <2>6 DEF LockNext
<1> QED
  BY <1>1, <1>2, PromptInvariant, PTL DEF LockSpec, Claim!Spec

-----------------------------------------------------------------------------
(***************************************************************************)
(* The invariants of incident.json are not inductive: what is written next *)
(* is some process's old copy, so the copies must obey them too, and so    *)
(* must the stages, which remember what the provider has answered.         *)
(***************************************************************************)
RecordTrue(r, n, facts) ==
  /\ r.event_count <= n
  /\ r.status = "mr_opened" => "created" \in facts
  /\ r.status = "merged" /\ "mark-merged" \notin Command => "merged" \in facts

ProcessTrue(r, s, n, facts) ==
  /\ RecordTrue(r, n, facts)
  /\ s = "counting" => r.event_count < n
  /\ s \in {"opened", "merging", "merged"} => "created" \in facts
  /\ s = "merged" => "merged" \in facts

LifecycleInv ==
  /\ TypeOK
  /\ RecordTrue(inc, events, pr)
  /\ \A p \in Process : ProcessTrue(copy[p], stage[p], events, pr)

-----------------------------------------------------------------------------

\* The lock protocol keeps the types of its variables in every step that is a
\* step of it or leaves them alone.
LEMMA LockTypeStep ==
  ASSUME LockTypeOK, LockNext \/ UNCHANGED lockVars
  PROVE  LockTypeOK'
<1> USE ClaimAssumption DEF LockTypeOK
<1>1. CASE Tick
  BY <1>1 DEF Tick
<1>2. ASSUME NEW w \in Worker, ClaimStep(w)
      PROVE  LockTypeOK'
  BY <1>2 DEF ClaimStep, OpenExclusive, Stat, RemoveStale, Reopen,
              Goto, CreateFile, RemoveFile, SameFile
<1>3. ASSUME NEW w \in Worker, Release(w) \/ Crash(w) \/ Restart(w)
      PROVE  LockTypeOK'
  BY <1>3 DEF Release, Crash, Restart, Goto, RemoveFile, SameFile
<1>4. CASE UNCHANGED lockVars
  BY <1>4 DEF lockVars
<1> QED
  BY <1>1, <1>2, <1>3, <1>4 DEF LockNext

\* Every step of the whole is a step of the lock protocol or leaves it alone.
LEMMA StepOfLock == Next => LockNext \/ UNCHANGED lockVars
<1> SUFFICES ASSUME Next PROVE LockNext \/ UNCHANGED lockVars
  OBVIOUS
<1>1. ASSUME NEW r \in Runner, Run(r)
      PROVE  UNCHANGED lockVars
  BY <1>1 DEF Run, StartRun, NoFix, AttemptFix, Settle, CreateMr, Throw,
              RecordMr, MergeMr, MergeFails, RecordMerge, Step
<1>2. ASSUME NEW w \in Worker, WorkerStep(w)
      PROVE  LockNext \/ UNCHANGED lockVars
  BY <1>2, <1>1 DEF WorkerStep, ListPending, TryClaim, FinishPass, LockNext, Runner
<1>3. ASSUME NEW o \in Operator, OperatorStep(o)
      PROVE  UNCHANGED lockVars
  BY <1>3, <1>1 DEF OperatorStep, CommandLoad, CommandSave, CommandExit, Step, Runner
<1>4. ASSUME NEW e \in Engine, EngineStep(e)
      PROVE  UNCHANGED lockVars
  BY <1>4 DEF EngineStep, EventFindsIncident, EventSaved
<1>5. ASSUME Environment
      PROVE  LockNext \/ UNCHANGED lockVars
  BY <1>5 DEF Environment, ReviewMr, WorkerDies, OperatorDies, LockNext
<1> QED
  BY <1>2, <1>3, <1>4, <1>5 DEF Next

\* What the provider did is not undone and events are not un-ingested.
FactsGrow ==
  /\ events' \in Nat /\ events <= events'
  /\ pr' \subseteq {"open", "created", "merged"}
  /\ \A f \in {"created", "merged"} : f \in pr => f \in pr'

\* A step in which one process moves to stage s with the record c in its hands,
\* and after which incident.json is true, keeps the invariant: what the others
\* hold stays true.
LEMMA OneProcessMoves ==
  ASSUME LifecycleInv, FactsGrow, LockTypeOK', todo' \subseteq Worker,
         NEW p \in Process, NEW c \in Incident, NEW s \in Stages,
         copy' = [copy EXCEPT ![p] = c], stage' = [stage EXCEPT ![p] = s],
         ProcessTrue(c, s, events', pr'),
         inc' \in Incident, RecordTrue(inc', events', pr')
  PROVE  LifecycleInv'
<1>1. TypeOK'
  BY DEF LifecycleInv, TypeOK, FactsGrow
<1>2. ASSUME NEW q \in Process
      PROVE  ProcessTrue(copy'[q], stage'[q], events', pr')
  <2>1. CASE q = p
    BY <2>1 DEF LifecycleInv, TypeOK
  <2>2. CASE q # p
    <3>1. copy'[q] = copy[q] /\ stage'[q] = stage[q] /\ copy[q] \in Incident
      BY <2>2 DEF LifecycleInv, TypeOK
    <3>2. ProcessTrue(copy[q], stage[q], events, pr) /\ events \in Nat
      BY DEF LifecycleInv, TypeOK
    <3>3. copy[q].event_count \in Nat
      BY <3>1 DEF Incident
    <3> QED
      BY <3>1, <3>2, <3>3 DEF ProcessTrue, RecordTrue, FactsGrow
  <2> QED
    BY <2>1, <2>2
<1> QED
  BY <1>1, <1>2 DEF LifecycleInv

\* The same when the process saves nothing: incident.json stays as it is.
LEMMA OneProcessMovesWithoutSave ==
  ASSUME LifecycleInv, FactsGrow, LockTypeOK', todo' \subseteq Worker, inc' = inc,
         NEW p \in Process, NEW c \in Incident, NEW s \in Stages,
         copy' = [copy EXCEPT ![p] = c], stage' = [stage EXCEPT ![p] = s],
         ProcessTrue(c, s, events', pr')
  PROVE  LifecycleInv'
<1>1. inc \in Incident /\ inc.event_count \in Nat /\ events \in Nat
  BY DEF LifecycleInv, TypeOK, Incident
<1>2. RecordTrue(inc, events', pr')
  BY <1>1 DEF LifecycleInv, RecordTrue, FactsGrow
<1> QED
  BY <1>1, <1>2, OneProcessMoves

-----------------------------------------------------------------------------

\* Every step of a pipeline run keeps the invariant, whoever runs it.
LEMMA RunKeepsInv ==
  ASSUME LifecycleInv, NEW r \in Runner, Run(r)
  PROVE  LifecycleInv'
<1> DEFINE saved(st) == [copy[r] EXCEPT !.status = st]
<1>1. /\ r \in Process /\ inc \in Incident /\ copy[r] \in Incident
      /\ inc.event_count \in Nat /\ copy[r].event_count \in Nat /\ events \in Nat
      /\ RecordTrue(inc, events, pr) /\ ProcessTrue(copy[r], stage[r], events, pr)
      /\ copy = [copy EXCEPT ![r] = copy[r]]
      /\ pr \subseteq {"open", "created", "merged"}
  BY DEF LifecycleInv, TypeOK, Process, Incident
<1>2. UNCHANGED <<lockVars, todo, events>>
  BY DEF Run, StartRun, NoFix, AttemptFix, Settle, CreateMr, Throw,
         RecordMr, MergeMr, MergeFails, RecordMerge, Step
<1>3. LockTypeOK' /\ todo' \subseteq Worker /\ events' = events
  BY <1>2 DEF LifecycleInv, TypeOK, LockTypeOK, lockVars
<1>4. ASSUME NEW st \in Status
      PROVE  saved(st) \in Incident /\ saved(st).event_count = copy[r].event_count
             /\ saved(st).status = st
  BY <1>1 DEF Incident
<1>5. pr' = pr \/ MrCreated \/ MrMerged
  BY DEF Run, StartRun, NoFix, AttemptFix, Settle, CreateMr, Throw,
         RecordMr, MergeMr, MergeFails, RecordMerge, Step
<1>6. FactsGrow
  BY <1>1, <1>3, <1>5 DEF FactsGrow, MrCreated, MrMerged
<1>7. CASE StartRun(r)
  <2>1. stage' = [stage EXCEPT ![r] = "analyzing"] /\ copy' = [copy EXCEPT ![r] = inc]
        /\ inc' = inc /\ pr' = pr
    BY <1>7 DEF StartRun, At, LoadIncident
  <2>2. ProcessTrue(inc, "analyzing", events', pr')
    BY <1>1, <1>3, <2>1 DEF ProcessTrue
  <2> QED
    BY <1>1, <1>3, <1>6, <2>1, <2>2, OneProcessMovesWithoutSave DEF Stages
<1>8. CASE \/ AttemptFix(r) \/ CreateMr(r) \/ Throw(r) \/ MergeMr(r) \/ MergeFails(r)
  <2>1. PICK s \in {"fixing", "opened", "done", "merged"} :
          /\ stage' = [stage EXCEPT ![r] = s]
          /\ s = "opened" => "created" \in pr'
          /\ s = "merged" => "created" \in pr' /\ "merged" \in pr'
    BY <1>1, <1>8 DEF AttemptFix, CreateMr, Throw, MergeMr, MergeFails, Step, At,
                      MrCreated, MrMerged, ProcessTrue
  <2>2. inc' = inc /\ copy' = [copy EXCEPT ![r] = copy[r]]
    BY <1>1, <1>8 DEF AttemptFix, CreateMr, Throw, MergeMr, MergeFails, NoSave
  <2>3. ProcessTrue(copy[r], s, events', pr')
    BY <1>1, <1>3, <1>6, <2>1 DEF ProcessTrue, RecordTrue, FactsGrow
  <2> QED
    BY <1>1, <1>3, <1>6, <2>1, <2>2, <2>3, OneProcessMovesWithoutSave DEF Stages
<1>9. CASE \/ NoFix(r) \/ Settle(r) \/ RecordMr(r) \/ RecordMerge(r)
  <2>1. PICK s \in {"done", "merging"}, st \in Status :
          /\ stage' = [stage EXCEPT ![r] = s]
          /\ inc' = saved(st) /\ copy' = [copy EXCEPT ![r] = inc']
          /\ pr' = pr
          /\ st = "mr_opened" => "created" \in pr
          /\ s = "merging" => "created" \in pr
          /\ st = "merged" => "merged" \in pr
    BY <1>1, <1>9 DEF NoFix, Settle, RecordMr, RecordMerge, Step, At, SaveStatus,
                      Status, Actionable, Closed, ProcessTrue
  <2>2. RecordTrue(saved(st), events', pr')
    BY <1>1, <1>3, <1>4, <2>1 DEF RecordTrue, ProcessTrue
  <2>3. ProcessTrue(saved(st), s, events', pr')
    BY <2>1, <2>2 DEF ProcessTrue
  <2>4. saved(st) \in Incident
    BY <1>4
  <2> HIDE DEF saved
  <2> QED
    BY <1>1, <1>3, <1>6, <2>1, <2>2, <2>3, <2>4, OneProcessMoves DEF Stages
<1> QED
  BY <1>7, <1>8, <1>9 DEF Run

\* So does every other command a person runs, and its death.
LEMMA CommandKeepsInv ==
  ASSUME LifecycleInv, NEW o \in Operator,
         CommandLoad(o) \/ CommandSave(o) \/ CommandExit(o) \/ OperatorDies(o)
  PROVE  LifecycleInv'
<1> USE LifecycleAssumption
<1>1. /\ o \in Process /\ inc \in Incident /\ copy[o] \in Incident
      /\ inc.event_count \in Nat /\ copy[o].event_count \in Nat /\ events \in Nat
      /\ RecordTrue(inc, events, pr) /\ ProcessTrue(copy[o], stage[o], events, pr)
      /\ pr \subseteq {"open", "created", "merged"}
  BY DEF LifecycleInv, TypeOK, Process, Runner, Incident
<1>2. UNCHANGED <<lockVars, todo, events, pr>>
  BY DEF CommandLoad, CommandSave, CommandExit, OperatorDies, Step
<1>3. LockTypeOK' /\ todo' \subseteq Worker /\ events' = events /\ pr' = pr /\ FactsGrow
  BY <1>1, <1>2 DEF LifecycleInv, TypeOK, LockTypeOK, lockVars, FactsGrow
<1>4. CASE CommandLoad(o)
  <2>1. PICK c \in Command \ {"open-mr"} :
          /\ stage' = [stage EXCEPT ![o] = c]
          /\ copy' = [copy EXCEPT ![o] = inc] /\ inc' = inc
    BY <1>4 DEF CommandLoad, Step, At, LoadIncident
  <2>2. c \in Stages /\ c \notin {"counting", "opened", "merging", "merged"}
    BY DEF Commands, Stages
  <2>3. ProcessTrue(inc, c, events', pr')
    BY <1>1, <1>3, <2>2 DEF ProcessTrue
  <2> QED
    BY <1>1, <1>3, <2>1, <2>2, <2>3, OneProcessMovesWithoutSave
<1>5. CASE CommandSave(o)
  <2>1. PICK c \in Command \ {"open-mr"} :
          /\ stage' = [stage EXCEPT ![o] = "done"]
          /\ inc' = [copy[o] EXCEPT !.status = CommandStatus[c]]
          /\ copy' = [copy EXCEPT ![o] = inc']
    BY <1>5 DEF CommandSave, Step, At, SaveStatus
  <2>2. /\ CommandStatus[c] \in Status
        /\ CommandStatus[c] # "mr_opened"
        /\ CommandStatus[c] = "merged" => "mark-merged" \in Command
    BY DEF CommandStatus, Commands, Status, Actionable, Closed
  <2>3. inc' \in Incident /\ inc'.event_count = copy[o].event_count
        /\ inc'.status = CommandStatus[c]
    BY <1>1, <2>1, <2>2 DEF Incident
  <2>4. RecordTrue(inc', events', pr') /\ ProcessTrue(inc', "done", events', pr')
    BY <1>1, <1>3, <2>2, <2>3 DEF RecordTrue, ProcessTrue
  <2> QED
    BY <1>1, <1>3, <2>1, <2>3, <2>4, OneProcessMoves DEF Stages
<1>6. CASE CommandExit(o) \/ OperatorDies(o)
  <2>1. stage' = [stage EXCEPT ![o] = "none"] /\ copy' = [copy EXCEPT ![o] = NoCopy]
        /\ inc' = inc
    BY <1>6 DEF CommandExit, OperatorDies, Step, At, DropCopy
  <2>2. NoCopy \in Incident /\ ProcessTrue(NoCopy, "none", events', pr')
    BY <1>1, <1>3 DEF NoCopy, Incident, Status, Actionable, ProcessTrue, RecordTrue
  <2> QED
    BY <1>1, <1>3, <2>1, <2>2, OneProcessMovesWithoutSave DEF Stages
<1> QED
  BY <1>4, <1>5, <1>6

\* So does an engine that counts an event on the incident.
LEMMA EngineKeepsInv ==
  ASSUME LifecycleInv, NEW e \in Engine, EngineStep(e)
  PROVE  LifecycleInv'
<1>1. /\ e \in Process /\ inc \in Incident /\ copy[e] \in Incident
      /\ inc.event_count \in Nat /\ copy[e].event_count \in Nat /\ events \in Nat
      /\ RecordTrue(inc, events, pr) /\ ProcessTrue(copy[e], stage[e], events, pr)
      /\ pr \subseteq {"open", "created", "merged"}
  BY DEF LifecycleInv, TypeOK, Process, Incident
<1>2. UNCHANGED <<lockVars, todo, pr>> /\ events' \in {events, events + 1}
  BY DEF EngineStep, EventFindsIncident, EventSaved
<1>3. LockTypeOK' /\ todo' \subseteq Worker /\ pr' = pr /\ FactsGrow
  BY <1>1, <1>2 DEF LifecycleInv, TypeOK, LockTypeOK, lockVars, FactsGrow
<1>4. CASE EventFindsIncident(e)
  <2>1. stage' = [stage EXCEPT ![e] = "counting"] /\ copy' = [copy EXCEPT ![e] = inc]
        /\ inc' = inc /\ events' = events + 1
    BY <1>4 DEF EventFindsIncident, At, LoadIncident
  <2>2. ProcessTrue(inc, "counting", events', pr')
    BY <1>1, <1>3, <2>1 DEF ProcessTrue, RecordTrue
  <2> QED
    BY <1>1, <1>3, <2>1, <2>2, OneProcessMovesWithoutSave DEF Stages
<1>5. CASE EventSaved(e)
  <2>1. /\ stage[e] = "counting" /\ stage' = [stage EXCEPT ![e] = "none"]
        /\ inc' = [copy[e] EXCEPT !.event_count = @ + 1]
        /\ copy' = [copy EXCEPT ![e] = NoCopy] /\ events' = events
    BY <1>5 DEF EventSaved, At
  <2>2. inc' \in Incident /\ RecordTrue(inc', events', pr')
    <3>1. copy[e].event_count < events
      BY <1>1, <2>1 DEF ProcessTrue
    <3>2. inc' \in Incident /\ inc'.event_count = copy[e].event_count + 1
          /\ inc'.status = copy[e].status
      BY <1>1, <2>1 DEF Incident
    <3> QED
      BY <1>1, <1>3, <2>1, <3>1, <3>2 DEF ProcessTrue, RecordTrue
  <2>3. NoCopy \in Incident /\ ProcessTrue(NoCopy, "none", events', pr')
    BY <1>1, <2>1 DEF NoCopy, Incident, Status, Actionable, ProcessTrue, RecordTrue
  <2> QED
    BY <1>1, <1>3, <2>1, <2>2, <2>3, OneProcessMoves DEF Stages
<1> QED
  BY <1>4, <1>5 DEF EngineStep

\* So do the steps of a worker around its run: listing, claiming, releasing, and
\* dying.
LEMMA WorkerKeepsInv ==
  ASSUME LifecycleInv, LockTypeOK', NEW w \in Worker,
         ListPending(w) \/ TryClaim(w) \/ FinishPass(w) \/ WorkerDies(w)
  PROVE  LifecycleInv'
<1>1. /\ w \in Process /\ inc \in Incident /\ copy[w] \in Incident /\ events \in Nat
      /\ ProcessTrue(copy[w], stage[w], events, pr)
      /\ pr \subseteq {"open", "created", "merged"}
      /\ copy = [copy EXCEPT ![w] = copy[w]] /\ stage = [stage EXCEPT ![w] = stage[w]]
      /\ stage[w] \in Stages /\ todo \subseteq Worker
  BY DEF LifecycleInv, TypeOK, Process, Runner
<1>2. UNCHANGED <<events, pr, inc>> /\ todo' \subseteq Worker
  BY <1>1 DEF ListPending, TryClaim, FinishPass, WorkerDies, DropCopy
<1>3. FactsGrow
  BY <1>1, <1>2 DEF FactsGrow
<1>4. NoCopy \in Incident /\ ProcessTrue(NoCopy, "none", events', pr')
  BY <1>1, <1>2 DEF NoCopy, Incident, Status, Actionable, ProcessTrue, RecordTrue
<1>5. CASE ListPending(w)
  BY <1>1, <1>2, <1>3, <1>5, OneProcessMovesWithoutSave DEF ListPending
<1>6. CASE TryClaim(w)
  <2>1. PICK s \in {"loading", "none"} : stage' = [stage EXCEPT ![w] = s]
    BY <1>6 DEF TryClaim
  <2>2. copy' = [copy EXCEPT ![w] = copy[w]]
    BY <1>1, <1>6 DEF TryClaim
  <2>3. s \in Stages /\ ProcessTrue(copy[w], s, events', pr')
    BY <1>1, <1>2 DEF ProcessTrue, Stages
  <2> QED
    BY <1>1, <1>2, <1>3, <2>1, <2>2, <2>3, OneProcessMovesWithoutSave
<1>7. CASE FinishPass(w) \/ WorkerDies(w)
  <2>1. stage' = [stage EXCEPT ![w] = "none"] /\ copy' = [copy EXCEPT ![w] = NoCopy]
    BY <1>7 DEF FinishPass, WorkerDies, At, DropCopy
  <2> QED
    BY <1>1, <1>2, <1>3, <1>4, <2>1, OneProcessMovesWithoutSave DEF Stages
<1> QED
  BY <1>5, <1>6, <1>7

\* The invariant holds initially and every step keeps it.
LEMMA LifecycleInvariant == Spec => []LifecycleInv
<1>1. Init => LifecycleInv
  <2> SUFFICES ASSUME Init PROVE LifecycleInv
    OBVIOUS
  <2>1. inc \in Incident /\ NoCopy \in Incident
    BY DEF Init, Incident, NoCopy, Status, Actionable
  <2>2. TypeOK
    BY <2>1, ClaimAssumption DEF Init, LockInit, TypeOK, LockTypeOK, Stages
  <2>3. RecordTrue(inc, events, pr) /\ ProcessTrue(NoCopy, "none", events, pr)
    BY DEF Init, RecordTrue, ProcessTrue, NoCopy
  <2> QED
    BY <2>2, <2>3 DEF LifecycleInv, Init
<1>2. LifecycleInv /\ [Next]_vars => LifecycleInv'
  <2> SUFFICES ASSUME LifecycleInv, [Next]_vars
               PROVE  LifecycleInv'
    OBVIOUS
  <2>1. CASE UNCHANGED vars
    BY <2>1 DEF vars, lockVars, LifecycleInv, TypeOK, LockTypeOK, RecordTrue, ProcessTrue
  <2>2. ASSUME Next PROVE LockTypeOK'
    BY <2>2, StepOfLock, LockTypeStep DEF LifecycleInv, TypeOK
  <2>3. ASSUME NEW w \in Worker, WorkerStep(w) \/ WorkerDies(w)
        PROVE  LifecycleInv'
    <3>1. LockTypeOK'
      BY <2>2, <2>3 DEF Next, Environment
    <3> QED
      BY <2>3, <3>1, WorkerKeepsInv, RunKeepsInv DEF WorkerStep, Runner
  <2>4. ASSUME NEW o \in Operator, OperatorStep(o) \/ OperatorDies(o)
        PROVE  LifecycleInv'
    BY <2>4, RunKeepsInv, CommandKeepsInv DEF OperatorStep, Runner
  <2>5. ASSUME NEW e \in Engine, EngineStep(e)
        PROVE  LifecycleInv'
    BY <2>5, EngineKeepsInv
  <2>6. ASSUME UNCHANGED <<inc, copy, stage, todo, pr, events>>, LockTypeOK'
        PROVE  LifecycleInv'
    BY <2>6 DEF LifecycleInv, TypeOK, RecordTrue, ProcessTrue
  <2>7. CASE ReviewMr
    <3>1. /\ UNCHANGED <<lockVars, inc, copy, stage, todo, events>>
          /\ pr' \subseteq {"open", "created", "merged"}
          /\ "created" \in pr => "created" \in pr'
          /\ "merged" \in pr => "merged" \in pr'
      BY <2>7 DEF ReviewMr, MrMerged, MrClosed, LifecycleInv, TypeOK
    <3> QED
      BY <3>1 DEF LifecycleInv, TypeOK, LockTypeOK, lockVars, RecordTrue, ProcessTrue
  <2>8. CASE Environment
    BY <2>2, <2>3, <2>4, <2>6, <2>7, <2>8 DEF Environment, Next
  <2> QED
    BY <2>1, <2>3, <2>4, <2>5, <2>8 DEF Next
<1> QED
  BY <1>1, <1>2, PTL DEF Spec

-----------------------------------------------------------------------------

\* Types are respected by any number of workers, operators and engines.
THEOREM LifecycleTyping == Spec => []TypeOK
BY LifecycleInvariant, PTL DEF LifecycleInv

\* incident.json says mr_opened only if the provider created an MR for it, and
\* merged only if it merged one (or a person may mark it so), however many
\* processes write it from copies of whatever age and wherever they die.
THEOREM IncidentTellsTheTruth == Spec => []MrStatusIsReal
<1>1. LifecycleInv => MrStatusIsReal
  BY DEF LifecycleInv, RecordTrue, MrStatusIsReal
<1> QED
  BY <1>1, LifecycleInvariant, PTL

\* The event count of an incident never exceeds the events that were ingested,
\* however the counting overlaps with saves of other processes.
THEOREM NoPhantomEvents == Spec => []CountsOnlyRealEvents
<1>1. LifecycleInv => CountsOnlyRealEvents
  BY DEF LifecycleInv, RecordTrue, CountsOnlyRealEvents
<1> QED
  BY <1>1, LifecycleInvariant, PTL

-----------------------------------------------------------------------------
(***************************************************************************)
(* The claim, as the workers use it.                                       *)
(***************************************************************************)

\* What the workers do to the lock file around and during a run is what ClaimLock
\* describes.
THEOREM LifecycleUsesLock == Spec => LockSpec
<1>1. Init => LockInit
  BY DEF Init
<1>2. [Next]_vars => [LockNext]_lockVars
  BY StepOfLock DEF vars
<1> QED
  BY <1>1, <1>2, PTL DEF Spec, LockSpec

\* A worker is in a run only with the claim in its hands.
ClaimedRuns == \A w \in Worker : stage[w] # "none" => pc[w] = "working"

\* The steps of a run in which runner r is.
LEMMA RunMoves ==
  ASSUME NEW r \in Runner, Run(r)
  PROVE  /\ UNCHANGED <<lockVars, todo>>
         /\ \E s \in Stages : stage' = [stage EXCEPT ![r] = s]
         /\ r \in Worker => stage[r] # "none"
<1> USE LifecycleAssumption DEF Stages
<1>1. UNCHANGED <<lockVars, todo>>
  BY DEF Run, StartRun, NoFix, AttemptFix, Settle, CreateMr, Throw,
         RecordMr, MergeMr, MergeFails, RecordMerge, Step
<1>2. \E s \in Stages : stage' = [stage EXCEPT ![r] = s]
  BY DEF Run, StartRun, NoFix, AttemptFix, Settle, CreateMr, Throw,
         RecordMr, MergeMr, MergeFails, RecordMerge, Step, At
<1>3. r \in Worker => stage[r] # "none"
  BY DEF Run, StartRun, NoFix, AttemptFix, Settle, CreateMr, Throw,
         RecordMr, MergeMr, MergeFails, RecordMerge, Step, At
<1> QED
  BY <1>1, <1>2, <1>3

LEMMA ClaimedRunsKept ==
  ASSUME TypeOK, ClaimedRuns, [Next]_vars
  PROVE  ClaimedRuns'
<1> USE LifecycleAssumption DEF ClaimedRuns, TypeOK, LockTypeOK, Process, Runner
<1>1. ASSUME NEW w \in Worker, WorkerStep(w)
      PROVE  ClaimedRuns'
  <2>1. CASE ListPending(w)
    BY <2>1 DEF ListPending, lockVars
  <2>2. CASE TryClaim(w)
    BY <2>2 DEF TryClaim, ClaimStep, OpenExclusive, Stat, RemoveStale, Reopen, Goto
  <2>3. CASE Run(w)
    BY <2>3, RunMoves DEF lockVars
  <2>4. CASE FinishPass(w)
    BY <2>4 DEF FinishPass, Release, Goto, At
  <2> QED
    BY <1>1, <2>1, <2>2, <2>3, <2>4 DEF WorkerStep
<1>2. ASSUME NEW p \in Operator \cup Engine,
             \/ OperatorStep(p) /\ p \in Operator
             \/ EngineStep(p) /\ p \in Engine
      PROVE  ClaimedRuns'
  <2>1. UNCHANGED pc /\ \A w \in Worker : stage'[w] = stage[w]
    <3>1. CASE p \in Operator /\ Run(p)
      BY <3>1, RunMoves DEF lockVars
    <3>2. CASE CommandLoad(p) \/ CommandSave(p) \/ CommandExit(p)
      BY <3>2 DEF CommandLoad, CommandSave, CommandExit, Step, At, lockVars
    <3>3. CASE EngineStep(p)
      BY <3>3 DEF EngineStep, EventFindsIncident, EventSaved, At, lockVars
    <3> QED
      BY <1>2, <3>1, <3>2, <3>3 DEF OperatorStep
  <2> QED
    BY <2>1
<1>3. CASE Environment
  BY <1>3 DEF Environment, ReviewMr, WorkerDies, OperatorDies, Crash, Tick, Restart, Goto,
              lockVars
<1>4. CASE UNCHANGED vars
  BY <1>4 DEF vars, lockVars
<1> HIDE DEF ClaimedRuns, TypeOK, LockTypeOK, Process, Runner
<1>5. ASSUME NEW o \in Operator, OperatorStep(o)
      PROVE  ClaimedRuns'
  BY <1>2, <1>5
<1>6. ASSUME NEW e \in Engine, EngineStep(e)
      PROVE  ClaimedRuns'
  BY <1>2, <1>6
<1> QED
  BY <1>1, <1>3, <1>4, <1>5, <1>6 DEF Next

LEMMA RunsAreClaimed == Spec => [](TypeOK /\ ClaimedRuns)
<1>1. Init => ClaimedRuns
  BY DEF Init, ClaimedRuns, Process, Runner
<1> QED
  BY <1>1, ClaimedRunsKept, LifecycleTyping, PTL DEF Spec

\* No two workers are between the load of the incident and the end of its run.
RunsDoNotOverlap ==
  \A v, w \in Worker : stage[v] # "none" /\ stage[w] # "none" => v = w

\* Any number of workers that do not die and are prompt never run the pipeline on one
\* incident at the same time, from the load of the incident to the release of the claim:
\* the claim of runWorkerOnce covers the run (a person's open-mr takes none).
THEOREM PromptRunsDoNotOverlap ==
  ASSUME Crashable = {}, Slow = {}
  PROVE  Spec => []RunsDoNotOverlap
<1>1. ClaimedRuns /\ AtMostOneWorker => RunsDoNotOverlap
  BY DEF ClaimedRuns, AtMostOneWorker, Working, RunsDoNotOverlap
<1> QED
  BY <1>1, RunsAreClaimed, LifecycleUsesLock, ClaimMutualExclusion, PTL

-----------------------------------------------------------------------------
(***************************************************************************)
(* A worker by itself.                                                     *)
(***************************************************************************)

\* What a worker has listed, claimed or begun is undecided still, and what it merges has
\* been opened.
ListIsFresh(w) ==
  /\ \/ w \in todo /\ stage[w] = "none"
     \/ stage[w] \in {"loading", "analyzing", "fixing", "opened"}
     => inc.status \in Actionable
  /\ stage[w] \in {"merging", "merged"} => inc.status = "mr_opened"

\* Without other writers the list stays fresh, and a decision is saved only over none.
LEMMA LoneWorkerSteps ==
  ASSUME Operator = {}, Engine = {}, \A v, w \in Worker : v = w,
         TypeOK, ClaimedRuns, \A w \in Worker : ListIsFresh(w), [Next]_vars
  PROVE  /\ (\A w \in Worker : ListIsFresh(w))'
         /\ inc.status \notin Actionable =>
              \/ inc'.status = inc.status
              \/ inc.status = "mr_opened" /\ inc'.status = "merged"
<1> USE DEF ClaimedRuns, TypeOK, LockTypeOK, Process, Runner, ListIsFresh
<1>1. ASSUME NEW w \in Worker, ListPending(w) \/ TryClaim(w) \/ FinishPass(w) \/ WorkerDies(w)
      PROVE  inc' = inc /\ ListIsFresh(w)'
  <2>1. CASE ListPending(w)
    BY <2>1 DEF ListPending
  <2>2. CASE TryClaim(w)
    BY <2>2 DEF TryClaim, ClaimStep, OpenExclusive, Stat, RemoveStale, Reopen, Goto
  <2>3. CASE FinishPass(w) \/ WorkerDies(w)
    BY <2>3 DEF FinishPass, WorkerDies, At, DropCopy
  <2> QED
    BY <1>1, <2>1, <2>2, <2>3
<1>2. ASSUME NEW w \in Worker, Run(w), stage[w] # "none"
      PROVE  /\ ListIsFresh(w)'
             /\ inc.status \notin Actionable =>
                  \/ inc'.status = inc.status
                  \/ inc.status = "mr_opened" /\ inc'.status = "merged"
  <2>1. ASSUME NEW s \in Status, SaveStatus(w, s)
        PROVE  inc'.status = s
    BY <2>1 DEF SaveStatus, Incident
  <2>2. CASE StartRun(w)
    BY <1>2, <2>2 DEF StartRun, At, LoadIncident
  <2>3. CASE NoFix(w)
    <3>1. inc'.status = "analyzed" /\ stage[w] = "analyzing" /\ stage'[w] = "done"
      BY <2>1, <2>3 DEF NoFix, Step, At, Status, Actionable
    <3> QED
      BY <3>1
  <2>4. CASE Settle(w)
    <3>1. stage[w] = "fixing" /\ stage'[w] = "done"
      BY <2>4 DEF Settle, Step, At
    <3> QED
      BY <3>1
  <2>5. CASE AttemptFix(w) \/ CreateMr(w) \/ Throw(w) \/ MergeMr(w) \/ MergeFails(w)
    BY <2>5 DEF AttemptFix, CreateMr, Throw, MergeMr, MergeFails, Step, At, NoSave
  <2>6. CASE RecordMr(w)
    <3>1. inc'.status = "mr_opened" /\ stage[w] = "opened" /\ stage'[w] \in {"merging", "done"}
      BY <2>1, <2>6 DEF RecordMr, Step, At, Status
    <3> QED
      BY <3>1
  <2>7. CASE RecordMerge(w)
    <3>1. inc'.status = "merged" /\ stage[w] = "merged" /\ stage'[w] = "done"
      BY <2>1, <2>7 DEF RecordMerge, Step, At, Status, Closed
    <3> QED
      BY <3>1
  <2> QED
    BY <1>2, <2>2, <2>3, <2>4, <2>5, <2>6, <2>7 DEF Run
<1>3. ASSUME UNCHANGED <<inc, stage, todo>>
      PROVE  inc' = inc /\ \A w \in Worker : ListIsFresh(w)'
  BY <1>3
<1>4. CASE \/ UNCHANGED vars \/ ReviewMr
           \/ /\ Tick \/ \E w \in Worker : Restart(w)
              /\ UNCHANGED <<inc, copy, stage, todo, pr, events>>
  BY <1>3, <1>4 DEF vars, ReviewMr
<1>5. ASSUME NEW w \in Worker, WorkerStep(w) \/ WorkerDies(w)
      PROVE  /\ \A v \in Worker : ListIsFresh(v)'
             /\ inc.status \notin Actionable =>
                  \/ inc'.status = inc.status
                  \/ inc.status = "mr_opened" /\ inc'.status = "merged"
  <2>1. Run(w) => stage[w] # "none"
    BY RunMoves
  <2>2. ListIsFresh(w)'
    BY <1>1, <1>2, <1>5, <2>1 DEF WorkerStep
  <2> QED
    BY <1>1, <1>2, <1>5, <2>1, <2>2 DEF WorkerStep
<1>6. \/ UNCHANGED vars \/ ReviewMr
      \/ /\ Tick \/ \E w \in Worker : Restart(w)
         /\ UNCHANGED <<inc, copy, stage, todo, pr, events>>
      \/ \E w \in Worker : WorkerStep(w) \/ WorkerDies(w)
  BY DEF Next, Environment
<1> HIDE DEF ClaimedRuns, TypeOK, LockTypeOK, Process, Runner, ListIsFresh
<1>7. ASSUME \E w \in Worker : WorkerStep(w) \/ WorkerDies(w)
      PROVE  /\ (\A w \in Worker : ListIsFresh(w))'
             /\ inc.status \notin Actionable =>
                  \/ inc'.status = inc.status
                  \/ inc.status = "mr_opened" /\ inc'.status = "merged"
  BY <1>5, <1>7
<1> QED
  BY <1>4, <1>6, <1>7

\* A worker that has the incidents to itself never processes one again that it decided,
\* wherever it dies and whatever it leaves behind: selectPendingIncidents reads the status
\* before the claim, and nobody changes it in between.
THEOREM LoneWorkerDecidesOnce ==
  ASSUME Operator = {}, Engine = {}, \A v, w \in Worker : v = w
  PROVE  Spec => DecidedOnce
<1> DEFINE Fresh == \A w \in Worker : ListIsFresh(w)
           Decides == inc.status \notin Actionable =>
                        \/ inc'.status = inc.status
                        \/ inc.status = "mr_opened" /\ inc'.status = "merged"
<1>1. Init => Fresh
  BY DEF Init, ListIsFresh, Process, Runner
<1>2. TypeOK /\ ClaimedRuns /\ Fresh /\ [Next]_vars => Fresh' /\ Decides
  BY LoneWorkerSteps
<1>3. Decides => [inc.status \notin Actionable =>
                    inc'.status = inc.status \/ (inc.status = "mr_opened" /\ inc'.status = "merged")]_inc
  OBVIOUS
<1> QED
  BY <1>1, <1>2, <1>3, RunsAreClaimed, PTL DEF Spec, DecidedOnce

=============================================================================
