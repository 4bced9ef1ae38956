------------------------------ MODULE FixPipeline ------------------------------
(***************************************************************************)
(* From one incident to a merge request: processIncidentToMr of            *)
(* src/incident/pipeline.ts with the PatchSandbox of src/sandbox/runner.ts *)
(* it works in, the policy gates, the confidence and blast-radius gates    *)
(* and the push of src/mr/github.ts.  It is run again on the same incident *)
(* by a later pass or by a person, and finds the sandbox as it was left.   *)
(*                                                                         *)
(* A step is what a run does between two awaits at which something else    *)
(* can happen to it: the call throws, or its process dies.                 *)
(*                                                                         *)
(* A file is a model value, and a tree is described by the files that      *)
(* differ from the snapshot: in commits (base) and in uncommitted changes  *)
(* (dirty).  The sandbox lies inside the user's repository, so while it    *)
(* has no .git of its own git works on the user's repository instead.      *)
(***************************************************************************)
EXTENDS Confidence, FiniteSets

CONSTANTS
  File,         \* files a patch may change
  NeverModify,  \* policies.never_modify
  NeedsApproval,\* policies.require_approval_to_modify
  HighRisk,     \* the high-risk globs of the score
  Critical,     \* migrations that drop data: blast radius `critical'
  Hidden,       \* new files of new directories: git status names the directory
  Written,      \* files the install and test commands write
  Patches,      \* the sets of files a plan or a diff of the model names
  UserEdits,    \* the user's own uncommitted changes
  Runner,       \* processes that run the pipeline on the incident
  InPlace,      \* those started with --in-place
  SaveOnly,     \* those started with --dry-run, or whose config opens no MR
  MaxFixAttempts, \* llm.max_fix_attempts
  MaxRuns       \* bound: runs in a behaviour

ASSUME FixAssumption ==
  /\ NeverModify \subseteq File /\ NeedsApproval \subseteq File
  /\ HighRisk \subseteq File /\ NeedsApproval \subseteq HighRisk
  /\ Critical \subseteq File /\ Hidden \subseteq File /\ Written \subseteq File
  /\ Patches \subseteq SUBSET File /\ UserEdits \subseteq File
  /\ InPlace \subseteq Runner /\ SaveOnly \subseteq Runner
  /\ MaxFixAttempts \in Nat /\ MaxRuns \in Nat

VARIABLES
  run,    \* the locals of each process's run, and the await it is at
  tree,   \* the user's working tree and the sandbox's
  copied, \* the sandbox: not there ("no"), a copy without a git repository of
          \* its own ("partly"), a repository without the commit of the
          \* snapshot ("bare"), or a finished copy ("yes")
  remote, \* the files of the branch at the provider
  runs    \* how many runs were started

vars == <<run, tree, copied, remote, runs>>

Places == {"user", "sandbox"}

\* A slip of Idle: a validation result the score does not know.
IdleUntested == [stage |-> "idle", plan |-> {}, patch |-> {}, attempts |-> 0,
                 applied |-> FALSE, changed |-> {}, tests |-> "unknown", tested |-> {},
                 approval |-> FALSE]

Idle == [stage |-> "idle", plan |-> {}, patch |-> {}, attempts |-> 0,
         applied |-> FALSE, changed |-> {}, tests |-> "none", tested |-> {},
         approval |-> FALSE]

Init ==
  /\ run = [r \in Runner |-> Idle]
  /\ tree = [p \in Places |-> [base |-> {}, dirty |-> IF p = "user" THEN UserEdits ELSE {}]]
  /\ copied = "no"
  /\ remote = {}
  /\ runs = 0

At(r, stage) == run[r].stage = stage

Goto(r, stage) == run' = [run EXCEPT ![r].stage = stage]

\* The run returns, or throws: its locals are gone.
End(r) == run' = [run EXCEPT ![r] = Idle]

SameWorld == UNCHANGED <<tree, copied, remote, runs>>
OnlyTree  == UNCHANGED <<copied, remote, runs>>

\* The repository git finds from the run's workdir.
Place(r) == IF r \in InPlace \/ copied \in {"no", "partly"} THEN "user" ELSE "sandbox"

Contents(t) == t.base \cup t.dirty

\* The trees once files of the workdir are written.  The files of a copy without a
\* repository are ignored by the user's git.
WithFiles(r, files) ==
  IF Place(r) = "user" /\ r \notin InPlace THEN tree
  ELSE [tree EXCEPT ![Place(r)].dirty = @ \cup files]

-----------------------------------------------------------------------------
(***************************************************************************)
(* PolicyEngine, decideMrAction, computeBlastRadius.                       *)
(***************************************************************************)
Denied(files) == files \cap NeverModify # {}

ApprovalNeeded(files) == files \cap NeedsApproval # {}

BlockedByBlast(files) == files \cap Critical # {}

Opens(r) == r \notin SaveOnly /\ ~run[r].approval

-----------------------------------------------------------------------------
(***************************************************************************)
(* The stages before the sandbox.                                          *)
(***************************************************************************)
Start(r) ==
  /\ At(r, "idle")
  /\ runs < MaxRuns
  /\ runs' = runs + 1
  /\ Goto(r, "analyzing")
  /\ UNCHANGED <<tree, copied, remote>>

NoFix(r) == At(r, "analyzing") /\ End(r) /\ SameWorld

MakePlan(r) ==
  /\ At(r, "analyzing")
  /\ \E p \in Patches :
       \/ Denied(p) /\ End(r)
       \/ ~Denied(p) /\ run' = [run EXCEPT ![r].stage = "planned", ![r].plan = p]
  /\ SameWorld

GeneratePatch(r) ==
  /\ At(r, "planned")
  /\ \E d \in Patches :
       run' = [run EXCEPT ![r].stage = "patching", ![r].patch = d, ![r].attempts = 1]
  /\ SameWorld

(***************************************************************************)
(* PatchSandbox.runPatch: prepareWorkdir, git apply and the report of git  *)
(* status; then validate.                                                  *)
(***************************************************************************)
BeginCopy(r) ==
  /\ At(r, "patching")
  /\ r \notin InPlace
  /\ copied = "no"
  /\ copied' = "partly"
  /\ Goto(r, "copying")
  /\ UNCHANGED <<tree, remote, runs>>

\* Neither the exit code of the copy (rsync, then cp) nor those of git are checked: the
\* snapshot may be smaller than the repository, git init may fail, or the commit of the
\* snapshot, after which every file is an uncommitted change.
FinishCopy(r) ==
  /\ At(r, "copying")
  /\ \/ copied' = "yes" /\ UNCHANGED tree
     \/ copied' = "bare" /\ tree' = [tree EXCEPT !["sandbox"].dirty = File]
     \/ copied' = "partly" /\ UNCHANGED tree
  /\ Goto(r, "patching")
  /\ UNCHANGED <<remote, runs>>

\* A directory that exists is taken for a finished copy.
WorkdirExists(r) == At(r, "patching") /\ (r \in InPlace \/ copied # "no")

\* A slip of Report: only the files of the diff are reported.
ReportOfDiff(r, t) == run[r].patch

\* What git status reports: every uncommitted change, the run's own or not.  An
\* empty report is replaced by the files of the diff.
Report(r, t) == IF t.dirty = {} THEN run[r].patch ELSE t.dirty \ Hidden

\* What is about to be tested is remembered (tested).
PatchApplies(r) ==
  /\ WorkdirExists(r)
  /\ run[r].patch # {}
  /\ tree' = WithFiles(r, run[r].patch)
  /\ run' = [run EXCEPT ![r].stage = "testing", ![r].applied = TRUE,
                        ![r].changed = Report(r, tree'[Place(r)]),
                        ![r].tested = Contents(tree'[Place(r)])]
  /\ OnlyTree

\* No diff, a path outside the repository, or git apply refuses it whole.
PatchRefused(r) ==
  /\ WorkdirExists(r)
  /\ run' = [run EXCEPT ![r].stage = "testing", ![r].applied = FALSE, ![r].changed = {},
                        ![r].tested = Contents(tree[Place(r)])]
  /\ SameWorld

\* validate: the install and the test commands run, and write files as they go.
CommandsWrite(r) ==
  /\ At(r, "testing")
  /\ \E files \in SUBSET Written : tree' = WithFiles(r, files)
  /\ UNCHANGED run
  /\ OnlyTree

Validate(r) ==
  /\ At(r, "testing")
  /\ \E outcome \in TestOutcome :
       run' = [run EXCEPT ![r].stage = "validated", ![r].tests = outcome]
  /\ SameWorld

-----------------------------------------------------------------------------
(***************************************************************************)
(* The self-correction loop.                                               *)
(***************************************************************************)
MaxAttempts == IF MaxFixAttempts < 1 THEN 1 ELSE MaxFixAttempts

Failed(r) == ~run[r].applied \/ run[r].tests = "failed"

MayRevise(r) == Failed(r) /\ run[r].attempts < MaxAttempts

\* revertAll: git reset --hard HEAD and git clean, whose exit codes are not checked.
\* They clear the tree, or some of it stays (no repository, no HEAD to reset to in a
\* bare one, a lock of the index).
RevertAll(r) ==
  \E left \in SUBSET tree[Place(r)].dirty : tree' = [tree EXCEPT ![Place(r)].dirty = left]

\* A slip of Revise: the attempt is not counted.
ReviseUncounted(r) ==
  /\ At(r, "validated")
  /\ MayRevise(r)
  /\ \E d \in Patches \ {{}} :
       run' = [run EXCEPT ![r].stage = "patching", ![r].patch = d]
  /\ RevertAll(r)
  /\ OnlyTree

Revise(r) ==
  /\ At(r, "validated")
  /\ MayRevise(r)
  /\ \E d \in Patches \ {{}} :
       run' = [run EXCEPT ![r].stage = "patching", ![r].patch = d,
                          ![r].attempts = @ + 1]
  /\ RevertAll(r)
  /\ OnlyTree

\* The loop is not entered again, or the model has no further diff (break).
LeaveLoop(r) == At(r, "validated") /\ Goto(r, "gating") /\ SameWorld

-----------------------------------------------------------------------------
(***************************************************************************)
(* The gates after the patch, and the push.                                *)
(***************************************************************************)
DeniedAfterApply(r) ==
  /\ At(r, "gating")
  /\ Denied(run[r].changed)
  /\ End(r)
  /\ RevertAll(r)
  /\ OnlyTree

\* filesChanged: without a report, the files the plan meant to modify.
FilesChanged(r) == IF run[r].applied THEN run[r].changed ELSE run[r].plan

\* The patch file .kafuops-patch.diff is still there when git status runs, and
\* counts as one more changed file.
FileCount(r) == Cardinality(FilesChanged(r)) + When(run[r].applied, 1)

EvidenceOf(r) ==
  [top_frame  : {"changed", "elsewhere", "missing"},
   regression : BOOLEAN,
   tests      : {run[r].tests},
   files      : {FileCount(r)},
   risky      : {FilesChanged(r) \cap HighRisk # {}},
   plan_risk  : {"low", "medium", "high", "critical"},
   no_context : BOOLEAN,
   redacted   : BOOLEAN]

Gate(r) ==
  /\ At(r, "gating")
  /\ ~Denied(run[r].changed)
  /\ \E e \in EvidenceOf(r) :
       \/ (Decision(e) = "block" \/ BlockedByBlast(FilesChanged(r))) /\ End(r)
       \/ /\ Decision(e) # "block"
          /\ ~BlockedByBlast(FilesChanged(r))
          /\ run' = [run EXCEPT ![r].stage = "explaining",
                                ![r].approval = \/ ApprovalNeeded(run[r].changed)
                                                \/ Decision(e) = "request_human_approval"]
  /\ SameWorld

Explain(r) ==
  /\ At(r, "explaining")
  /\ \/ Opens(r) /\ Goto(r, "pushing")
     \/ ~Opens(r) /\ End(r)
  /\ SameWorld

\* git add -A, commit (in a bare repository its first one), and push of the branch,
\* which may fail.
Commit(r) ==
  LET p == Place(r)
  IN  tree' = [tree EXCEPT ![p] = [base |-> Contents(tree[p]), dirty |-> {}]]

Push(r) ==
  /\ At(r, "pushing")
  /\ Commit(r)
  /\ \/ remote' = Contents(tree[Place(r)]) /\ Goto(r, "creating")
     \/ UNCHANGED remote /\ End(r)
  /\ copied' = IF Place(r) = "sandbox" THEN "yes" ELSE copied
  /\ UNCHANGED runs

\* The provider opens the merge request, or refuses it.
CreateMr(r) == At(r, "creating") /\ End(r) /\ SameWorld

\* An await throws, or the process dies.
Interrupt(r) == ~At(r, "idle") /\ End(r) /\ SameWorld

Advance(r) ==
  \/ NoFix(r) \/ MakePlan(r) \/ GeneratePatch(r) \/ BeginCopy(r) \/ FinishCopy(r)
  \/ PatchApplies(r) \/ PatchRefused(r) \/ CommandsWrite(r) \/ Validate(r) \/ Revise(r)
  \/ LeaveLoop(r) \/ DeniedAfterApply(r) \/ Gate(r) \/ Explain(r) \/ Push(r) \/ CreateMr(r)

Next == \E r \in Runner : Start(r) \/ Advance(r) \/ Interrupt(r)

Spec == Init /\ [][Next]_vars

\* Every await of a run settles.  Commands of the user and git apply have time limits; git
\* push and the calls of the provider have none, and are assumed to return.
FairSpec == Spec /\ \A r \in Runner : WF_vars(Advance(r))

-----------------------------------------------------------------------------

Stages == {"idle", "analyzing", "planned", "patching", "copying", "testing",
           "validated", "gating", "explaining", "pushing", "creating"}

RunState == [stage : Stages, plan : SUBSET File, patch : SUBSET File,
             attempts : Nat, applied : BOOLEAN, changed : SUBSET File,
             tests : TestOutcome, tested : SUBSET File, approval : BOOLEAN]

Tree == [base : SUBSET File, dirty : SUBSET File]

\* The type of the variables.
TypeOK ==
  /\ run \in [Runner -> RunState]
  /\ tree \in [Places -> Tree]
  /\ copied \in {"no", "partly", "bare", "yes"}
  /\ remote \in SUBSET File
  /\ runs \in Nat

Restricted == NeverModify \cup NeedsApproval

\* A run whose patch applied pushes no uncommitted change to a file that policy
\* forbids to modify or to modify without approval, neither its own nor one that
\* an earlier, interrupted run left in the sandbox, or an earlier round whose revert
\* failed (the gate after the patch).
AppliedPushIsAllowed ==
  \A r \in Runner :
    At(r, "pushing") /\ run[r].applied =>
      tree[Place(r)].dirty \cap Restricted = {}

\* With the default thresholds a branch is pushed for an MR only if the tests
\* were run and passed: failed tests, no tests and a failed install all end in a
\* block or an approval.  They passed on the tree that is pushed, but for files that
\* the install and the test commands themselves wrote, which are pushed with the
\* patch and which nothing has tested or gated.
UntestedIsNotPushed ==
  \A r \in Runner :
    At(r, "pushing") =>
      LET pushed == Contents(tree[Place(r)])
      IN  /\ run[r].tests = "passed"
          /\ run[r].tested \subseteq pushed
          /\ pushed \ run[r].tested \subseteq Written

\* A run without --in-place never touches the user's own working tree.
UserTreeUntouched ==
  InPlace = {} => tree["user"] = [base |-> {}, dirty |-> UserEdits]

\* Every run comes to its end, as its awaits do: the loop of revisions does not go on for
\* ever.
RunEnds == \A r \in Runner : ~At(r, "idle") ~> At(r, "idle")

=============================================================================
