--------------------------- MODULE FixPipelineProofs ---------------------------
(***************************************************************************)
(* Proofs about FixPipeline, for any files, policy lists, thresholds and   *)
(* number of runs: how far the score lets an untested patch get and, for   *)
(* one run after the other, what a run may push, whatever earlier runs and *)
(* failed reverts left in the tree.                                        *)
(***************************************************************************)
EXTENDS FixPipeline, TLAPS

\* Without passing tests the score is at most 80, whatever the other evidence.
LEMMA UntestedScore ==
  ASSUME NEW e, e.tests \in TestOutcome \ {"passed"}
  PROVE  Score(e) \in 0 .. 80
<1>1. TestPoints(e) <= -5 /\ TestPoints(e) \in Int
  BY DEF TestPoints, When, TestOutcome
<1>2. FramePoints(e) <= 15 /\ FramePoints(e) \in Int
  BY DEF FramePoints, When
<1>3. RegressionPoints(e) <= 10 /\ RegressionPoints(e) \in Int
  BY DEF RegressionPoints
<1>4. SizePoints(e) <= 5 /\ SizePoints(e) \in Int
  BY DEF SizePoints, When
<1>5. RiskPoints(e) <= 5 /\ RiskPoints(e) \in Int
  BY DEF RiskPoints, When
<1>6. ContextPoints(e) <= 0 /\ ContextPoints(e) \in Int
  BY DEF ContextPoints, When
<1> QED
  BY <1>1, <1>2, <1>3, <1>4, <1>5, <1>6 DEF Score

\* So with an approval threshold above 80 (the default is 85) an untested patch
\* is never opened without approval.
LEMMA UntestedDecision ==
  ASSUME NEW e, e.tests \in TestOutcome \ {"passed"}, ApproveBelow > 80
  PROVE  Decision(e) # "open_mr"
  BY UntestedScore, ThresholdAssumption DEF Decision

-----------------------------------------------------------------------------
(***************************************************************************)
(* Any number of runs side by side: the types, and the tests that a patch  *)
(* on its way to the provider has passed.                                  *)
(***************************************************************************)
WorldTyped ==
  /\ tree \in [Places -> Tree]
  /\ copied \in {"no", "partly", "bare", "yes"}
  /\ remote \in SUBSET File
  /\ runs \in Nat

RunTrue(x) ==
  ApproveBelow > 80 =>
    /\ x.stage = "explaining" /\ ~x.approval => x.tests = "passed"
    /\ x.stage = "pushing" => x.tests = "passed"

RunInv ==
  /\ WorldTyped
  /\ run \in [Runner -> RunState]
  /\ \A r \in Runner : RunTrue(run[r])

LEMMA IdleIsTrue == Idle \in RunState /\ RunTrue(Idle)
  BY DEF Idle, RunState, Stages, TestOutcome, RunTrue

LEMMA PlaceIsPlace == \A r : Place(r) \in Places
  BY DEF Place, Places

\* Files written in a workdir leave the trees trees.
LEMMA WithFilesType ==
  ASSUME WorldTyped, NEW r \in Runner, NEW files \in SUBSET File
  PROVE  WithFiles(r, files) \in [Places -> Tree]
  BY PlaceIsPlace DEF WithFiles, WorldTyped, Tree

LEMMA RevertAllType ==
  ASSUME WorldTyped, NEW r \in Runner, RevertAll(r)
  PROVE  tree' \in [Places -> Tree]
<1>1. PICK left \in SUBSET tree[Place(r)].dirty : tree' = [tree EXCEPT ![Place(r)].dirty = left]
  BY DEF RevertAll
<1>2. left \in SUBSET File
  BY PlaceIsPlace DEF WorldTyped, Tree
<1> QED
  BY <1>1, <1>2 DEF WorldTyped, Tree

\* A step of one run leaves the others as they are.
LEMMA OneRunMoves ==
  ASSUME RunInv, NEW r \in Runner, NEW x \in RunState, RunTrue(x),
         run' = [run EXCEPT ![r] = x], WorldTyped'
  PROVE  RunInv'
  BY DEF RunInv

LEMMA WorldKeepsType ==
  ASSUME RunInv, NEW r \in Runner, Start(r) \/ Advance(r) \/ Interrupt(r)
  PROVE  WorldTyped'
<1> USE FixAssumption, PlaceIsPlace DEF RunInv, WorldTyped
<1>1. CASE Start(r)
  BY <1>1 DEF Start
<1>2. CASE NoFix(r) \/ MakePlan(r) \/ GeneratePatch(r) \/ PatchRefused(r) \/ Validate(r)
           \/ LeaveLoop(r) \/ Gate(r) \/ Explain(r) \/ CreateMr(r) \/ Interrupt(r)
  BY <1>2 DEF NoFix, MakePlan, GeneratePatch, PatchRefused, Validate, LeaveLoop, Gate,
              Explain, CreateMr, Interrupt, SameWorld
<1>3. CASE BeginCopy(r) \/ FinishCopy(r)
  BY <1>3 DEF BeginCopy, FinishCopy, Places, Tree
<1>4. CASE PatchApplies(r)
  BY <1>4, WithFilesType DEF PatchApplies, OnlyTree, RunState
<1>5. CASE CommandsWrite(r)
  BY <1>5, WithFilesType DEF CommandsWrite, OnlyTree
<1>6. CASE Revise(r) \/ DeniedAfterApply(r)
  BY <1>6, RevertAllType DEF Revise, DeniedAfterApply, OnlyTree
<1>7. CASE Push(r)
  BY <1>7 DEF Push, Commit, Contents, Tree
<1> QED
  BY <1>1, <1>2, <1>3, <1>4, <1>5, <1>6, <1>7 DEF Advance

\* What an action makes of the locals of its run.
LEMMA RunStaysTrue ==
  ASSUME RunInv, NEW r \in Runner, Start(r) \/ Advance(r) \/ Interrupt(r)
  PROVE  \E x \in RunState : RunTrue(x) /\ run' = [run EXCEPT ![r] = x]
<1> DEFINE Becomes(x) == x \in RunState /\ RunTrue(x) /\ run' = [run EXCEPT ![r] = x]
<1> SUFFICES \E x : Becomes(x)
  OBVIOUS
<1>0. run[r] \in RunState /\ RunTrue(run[r]) /\ run[r].stage \in Stages
  BY DEF RunInv, RunState
<1> USE <1>0, FixAssumption
<1>1. CASE End(r)
  <2>1. Becomes(Idle)
    BY <1>1, IdleIsTrue DEF End
  <2> QED
    BY <2>1
<1>2. ASSUME NEW s \in Stages \ {"explaining", "pushing"}, Goto(r, s)
      PROVE  \E x : Becomes(x)
  <2>1. Becomes([run[r] EXCEPT !.stage = s])
    BY <1>2 DEF Goto, RunTrue, RunState
  <2> QED
    BY <2>1
<1>3. CASE Start(r) \/ BeginCopy(r) \/ FinishCopy(r) \/ LeaveLoop(r)
  BY <1>3, <1>2 DEF Start, BeginCopy, FinishCopy, LeaveLoop, Stages
<1>4. CASE NoFix(r) \/ DeniedAfterApply(r) \/ CreateMr(r) \/ Interrupt(r)
  BY <1>4, <1>1 DEF NoFix, DeniedAfterApply, CreateMr, Interrupt
<1>5. CASE MakePlan(r)
  <2>1. PICK p \in Patches :
          End(r) \/ run' = [run EXCEPT ![r].stage = "planned", ![r].plan = p]
    BY <1>5 DEF MakePlan
  <2>2. ASSUME ~End(r) PROVE Becomes([run[r] EXCEPT !.stage = "planned", !.plan = p])
    BY <2>1, <2>2 DEF RunTrue, RunState, Stages, RunInv
  <2> QED
    BY <2>2, <1>1
<1>6. CASE GeneratePatch(r)
  <2>1. PICK d \in Patches :
          run' = [run EXCEPT ![r].stage = "patching", ![r].patch = d, ![r].attempts = 1]
    BY <1>6 DEF GeneratePatch
  <2>2. Becomes([run[r] EXCEPT !.stage = "patching", !.patch = d, !.attempts = 1])
    BY <2>1 DEF RunTrue, RunState, Stages, RunInv
  <2> QED
    BY <2>2
<1>7. CASE PatchApplies(r)
  <2> DEFINE t == tree'[Place(r)]
             c == Report(r, t)
             x == [run[r] EXCEPT !.stage = "testing", !.applied = TRUE, !.changed = c,
                                 !.tested = Contents(t)]
  <2>1. run' = [run EXCEPT ![r] = x]
    BY <1>7 DEF PatchApplies, RunInv
  <2>2. t \in Tree /\ run[r].patch \in SUBSET File
    BY <1>7, WorldKeepsType, PlaceIsPlace DEF Advance, WorldTyped, RunState
  <2>3. c \in SUBSET File /\ Contents(t) \in SUBSET File
    BY <2>2 DEF Report, Contents, Tree
  <2> HIDE DEF c, t
  <2>4. Becomes(x)
    BY <2>1, <2>3 DEF RunTrue, RunState, Stages
  <2> QED
    BY <2>4
<1>8. CASE PatchRefused(r)
  <2>1. Contents(tree[Place(r)]) \in SUBSET File
    BY PlaceIsPlace DEF RunInv, WorldTyped, Tree, Contents
  <2>2. Becomes([run[r] EXCEPT !.stage = "testing", !.applied = FALSE, !.changed = {},
                               !.tested = Contents(tree[Place(r)])])
    BY <1>8, <2>1 DEF PatchRefused, RunTrue, RunState, Stages, RunInv
  <2> QED
    BY <2>2
<1>9. CASE CommandsWrite(r)
  <2>1. Becomes(run[r])
    BY <1>9 DEF CommandsWrite, RunInv
  <2> QED
    BY <2>1
<1>8a. CASE Validate(r)
  <2>1. PICK o \in TestOutcome :
          run' = [run EXCEPT ![r].stage = "validated", ![r].tests = o]
    BY <1>8a DEF Validate
  <2>2. Becomes([run[r] EXCEPT !.stage = "validated", !.tests = o])
    BY <2>1 DEF RunTrue, RunState, Stages, RunInv
  <2> QED
    BY <2>2
<1>10. CASE Revise(r)
  <2>1. PICK d \in Patches :
          run' = [run EXCEPT ![r].stage = "patching", ![r].patch = d, ![r].attempts = @ + 1]
    BY <1>10 DEF Revise
  <2>2. Becomes([run[r] EXCEPT !.stage = "patching", !.patch = d, !.attempts = @ + 1])
    BY <2>1 DEF RunTrue, RunState, Stages, RunInv
  <2> QED
    BY <2>2
<1>11. CASE Gate(r)
  <2>1. PICK e \in EvidenceOf(r) :
          \/ End(r)
          \/ run' = [run EXCEPT ![r].stage = "explaining",
                                ![r].approval = \/ ApprovalNeeded(run[r].changed)
                                                \/ Decision(e) = "request_human_approval"]
             /\ Decision(e) # "block"
    BY <1>11 DEF Gate
  <2> DEFINE a == ApprovalNeeded(run[r].changed) \/ Decision(e) = "request_human_approval"
  <2>2. e.tests = run[r].tests /\ run[r].tests \in TestOutcome
    BY DEF EvidenceOf, RunState
  <2>3. ApproveBelow > 80 /\ Decision(e) # "block" /\ ~a => run[r].tests = "passed"
    BY <2>2, UntestedDecision DEF Decision
  <2>4. ASSUME ~End(r) PROVE Becomes([run[r] EXCEPT !.stage = "explaining", !.approval = a])
    BY <2>1, <2>3, <2>4 DEF RunTrue, RunState, Stages, RunInv
  <2> QED
    BY <2>4, <1>1
<1>12. CASE Explain(r)
  <2>1. ASSUME ~End(r) PROVE Becomes([run[r] EXCEPT !.stage = "pushing"])
    BY <1>12, <2>1 DEF Explain, Opens, Goto, At, RunTrue, RunState, Stages, RunInv
  <2> QED
    BY <2>1, <1>1
<1>13. CASE Push(r)
  BY <1>13, <1>1, <1>2 DEF Push, Stages
<1> QED
  BY <1>3, <1>4, <1>5, <1>6, <1>7, <1>8, <1>9, <1>10, <1>11, <1>12, <1>13,
     <1>8a DEF Advance

LEMMA RunInvariant == Spec => []RunInv
<1>1. Init => RunInv
  BY IdleIsTrue, FixAssumption DEF Init, RunInv, WorldTyped, Tree
<1>2. RunInv /\ [Next]_vars => RunInv'
  <2> SUFFICES ASSUME RunInv, [Next]_vars PROVE RunInv'
    OBVIOUS
  <2>1. CASE Next
    <3>1. PICK r \in Runner : Start(r) \/ Advance(r) \/ Interrupt(r)
      BY <2>1 DEF Next
    <3> QED
      BY <3>1, RunStaysTrue, WorldKeepsType, OneRunMoves
  <2>2. CASE UNCHANGED vars
    BY <2>2 DEF vars, RunInv, WorldTyped
  <2> QED
    BY <2>1, <2>2
<1> QED
  BY <1>1, <1>2, PTL DEF Spec

-----------------------------------------------------------------------------
(***************************************************************************)
(* One run after the other, each cut short anywhere and taken up by the    *)
(* next in the tree it left.  The gate after the patch sees git's report,  *)
(* so the report must cover the restricted part of the tree, and the       *)
(* workdir must be the same directory from the report to the push.         *)
(***************************************************************************)
CONSTANT Only \* the process that runs the pipeline

OneAfterTheOther == Runner = {Only}

\* What the gate needs besides: git names every file, and the tests write none that is
\* restricted.
Sequential ==
  /\ OneAfterTheOther
  /\ Hidden = {}
  /\ Written \cap Restricted = {}

InWorkdir == {"testing", "validated", "gating", "explaining", "pushing"}

WorkdirFixed(x) == x.stage \in InWorkdir => Only \in InPlace \/ copied # "no"

GateTrue(x, t) ==
  /\ x.stage \in InWorkdir /\ x.applied => t.dirty \cap Restricted \subseteq x.changed
  /\ x.stage \in {"explaining", "pushing"} =>
       /\ x.changed \cap NeverModify = {}
       /\ x.approval \/ x.changed \cap NeedsApproval = {}
  /\ x.stage = "pushing" => ~x.approval

TestedTrue(x, t) ==
  x.stage \in InWorkdir =>
    x.tested \subseteq Contents(t) /\ Contents(t) \ x.tested \subseteq Written

WorkInv == WorkdirFixed(run[Only]) /\ TestedTrue(run[Only], tree[Place(Only)])

GateInv == GateTrue(run[Only], tree[Place(Only)])

LEMMA WorkStep ==
  ASSUME OneAfterTheOther, RunInv, WorkInv, Start(Only) \/ Advance(Only) \/ Interrupt(Only)
  PROVE  WorkInv'
<1> DEFINE r == Only
<1>0. /\ run \in [Runner -> RunState] /\ r \in Runner /\ run[r] \in RunState
      /\ tree \in [Places -> Tree] /\ Place(r) \in Places /\ copied \in {"no", "partly", "bare", "yes"}
  BY PlaceIsPlace DEF OneAfterTheOther, RunInv, WorldTyped
<1> USE <1>0 DEF WorkInv, WorkdirFixed, TestedTrue, InWorkdir, At, SameWorld, OnlyTree, Place,
                 RunState
<1>1. CASE End(r)
  BY <1>1 DEF End, Idle
<1>2. CASE Start(r) \/ LeaveLoop(r)
  BY <1>2 DEF Start, LeaveLoop, Goto
<1>3. CASE NoFix(r) \/ DeniedAfterApply(r) \/ CreateMr(r) \/ Interrupt(r)
  BY <1>3, <1>1 DEF NoFix, DeniedAfterApply, CreateMr, Interrupt
<1>4. CASE MakePlan(r)
  BY <1>4, <1>1 DEF MakePlan
<1>5. CASE GeneratePatch(r)
  BY <1>5 DEF GeneratePatch
<1>6. CASE BeginCopy(r) \/ FinishCopy(r)
  BY <1>6 DEF BeginCopy, FinishCopy, Goto
<1>7. CASE PatchApplies(r)
  BY <1>7 DEF PatchApplies, WorkdirExists
<1>8. CASE PatchRefused(r)
  BY <1>8 DEF PatchRefused, WorkdirExists
<1>9. CASE Validate(r)
  BY <1>9 DEF Validate
<1>10. CASE Revise(r)
  BY <1>10 DEF Revise
<1>8a. CASE CommandsWrite(r)
  BY <1>8a DEF CommandsWrite, WithFiles, Contents, Tree
<1>11. CASE Gate(r)
  BY <1>11, <1>1 DEF Gate
<1>12. CASE Explain(r)
  BY <1>12, <1>1 DEF Explain, Goto
<1>13. CASE Push(r)
  BY <1>13, <1>1 DEF Push, Goto
<1> QED
  BY <1>2, <1>3, <1>4, <1>5, <1>6, <1>7, <1>8, <1>9, <1>10, <1>11, <1>12, <1>13,
     <1>8a DEF Advance

LEMMA GateStep ==
  ASSUME Sequential, RunInv, WorkInv, GateInv,
         Start(Only) \/ Advance(Only) \/ Interrupt(Only)
  PROVE  GateInv'
<1> DEFINE r == Only
<1>0. /\ run \in [Runner -> RunState] /\ r \in Runner /\ run[r] \in RunState
      /\ tree \in [Places -> Tree] /\ Place(r) \in Places /\ copied \in {"no", "partly", "bare", "yes"}
  BY PlaceIsPlace DEF Sequential, OneAfterTheOther, RunInv, WorldTyped
<1> USE <1>0 DEF GateInv, GateTrue, WorkInv, WorkdirFixed, InWorkdir, At, SameWorld, OnlyTree,
                 Place, RunState
<1>1. CASE End(r)
  BY <1>1 DEF End, Idle
<1>2. CASE Start(r) \/ LeaveLoop(r)
  BY <1>2 DEF Start, LeaveLoop, Goto
<1>3. CASE NoFix(r) \/ DeniedAfterApply(r) \/ CreateMr(r) \/ Interrupt(r)
  BY <1>3, <1>1 DEF NoFix, DeniedAfterApply, CreateMr, Interrupt
<1>4. CASE MakePlan(r)
  BY <1>4, <1>1 DEF MakePlan
<1>5. CASE GeneratePatch(r)
  BY <1>5 DEF GeneratePatch
<1>6. CASE BeginCopy(r) \/ FinishCopy(r)
  BY <1>6 DEF BeginCopy, FinishCopy, Goto
<1>7. CASE PatchApplies(r)
  BY <1>7 DEF PatchApplies, Sequential, WorkdirExists, Report
<1>8. CASE PatchRefused(r)
  BY <1>8 DEF PatchRefused, WorkdirExists
<1>9. CASE Validate(r)
  BY <1>9 DEF Validate
<1>10. CASE Revise(r)
  BY <1>10 DEF Revise
<1>8a. CASE CommandsWrite(r)
  BY <1>8a DEF CommandsWrite, WithFiles, Sequential, Restricted, Tree
<1>11. CASE Gate(r)
  BY <1>11, <1>1 DEF Gate, Denied, ApprovalNeeded
<1>12. CASE Explain(r)
  BY <1>12, <1>1 DEF Explain, Opens, Goto
<1>13. CASE Push(r)
  BY <1>13, <1>1 DEF Push, Goto
<1> QED
  BY <1>2, <1>3, <1>4, <1>5, <1>6, <1>7, <1>8, <1>9, <1>10, <1>11, <1>12, <1>13,
     <1>8a DEF Advance

LEMMA WorkInvariant ==
  ASSUME OneAfterTheOther
  PROVE  Spec => []WorkInv
<1>1. Init => WorkInv
  BY DEF OneAfterTheOther, Init, WorkInv, WorkdirFixed, TestedTrue, InWorkdir, Idle
<1>2. RunInv /\ WorkInv /\ [Next]_vars => WorkInv'
  <2> SUFFICES ASSUME RunInv, WorkInv, [Next]_vars PROVE WorkInv'
    OBVIOUS
  <2>1. CASE Next
    BY <2>1, WorkStep DEF Next, OneAfterTheOther
  <2>2. CASE UNCHANGED vars
    BY <2>2 DEF vars, WorkInv, WorkdirFixed, TestedTrue, Place
  <2> QED
    BY <2>1, <2>2
<1> QED
  BY <1>1, <1>2, RunInvariant, PTL DEF Spec

LEMMA GateInvariant ==
  ASSUME Sequential
  PROVE  Spec => []GateInv
<1>1. Init => GateInv
  BY DEF Sequential, OneAfterTheOther, Init, GateInv, GateTrue, InWorkdir, Idle
<1>2. RunInv /\ WorkInv /\ GateInv /\ [Next]_vars => GateInv'
  <2> SUFFICES ASSUME RunInv, WorkInv, GateInv, [Next]_vars PROVE GateInv'
    OBVIOUS
  <2>1. CASE Next
    BY <2>1, GateStep DEF Next, Sequential, OneAfterTheOther
  <2>2. CASE UNCHANGED vars
    BY <2>2 DEF vars, GateInv, GateTrue, Place
  <2> QED
    BY <2>1, <2>2
<1>3. Spec => []WorkInv
  BY WorkInvariant DEF Sequential
<1> QED
  BY <1>1, <1>2, <1>3, RunInvariant, PTL DEF Spec

-----------------------------------------------------------------------------

\* The variables of the fix pipeline keep their types, however many runs share
\* the sandbox and wherever they are cut short.
THEOREM FixTyping == Spec => []TypeOK
<1>1. RunInv => TypeOK
  BY DEF RunInv, WorldTyped, TypeOK
<1> QED
  BY <1>1, RunInvariant, PTL

\* With any approval threshold above 80, whatever the thresholds and the evidence
\* are otherwise, what is pushed has passed its tests, when one run follows the
\* other; and what is in it beyond the tree the tests started on was written by the
\* install and test commands, also after interrupted runs and failed reverts.
THEOREM PushedIsTested ==
  ASSUME OneAfterTheOther, ApproveBelow > 80
  PROVE  Spec => []UntestedIsNotPushed
<1>1. RunInv /\ WorkInv => UntestedIsNotPushed
  BY DEF RunInv, RunTrue, WorkInv, TestedTrue, InWorkdir, OneAfterTheOther,
         UntestedIsNotPushed, At
<1> QED
  BY <1>1, RunInvariant, WorkInvariant, PTL

\* The gate after the patch is enough for a run whose patch applied: when one run
\* follows the other, nothing restricted that is uncommitted in the tree is
\* pushed, also when an earlier run, or a revert that failed, left it there.
THEOREM GateCoversTree ==
  ASSUME Sequential
  PROVE  Spec => []AppliedPushIsAllowed
<1>1. GateInv => AppliedPushIsAllowed
  BY DEF GateInv, GateTrue, InWorkdir, Sequential, OneAfterTheOther, AppliedPushIsAllowed,
         Restricted, At
<1> QED
  BY <1>1, GateInvariant, PTL

=============================================================================
