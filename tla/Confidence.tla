------------------------------- MODULE Confidence -------------------------------
(***************************************************************************)
(* The confidence score of a patch (src/confidence/score.ts): what the     *)
(* evidence adds up to, and what the two thresholds of the policy make of  *)
(* it.  The evidence is what scoreConfidence looks at in the incident, the *)
(* plan, the validation and the context bundle.                            *)
(***************************************************************************)
EXTENDS Integers

CONSTANTS
  OpenAt,      \* confidence.open_mr_if_score_at_least
  ApproveBelow \* confidence.require_human_approval_if_below

ASSUME ThresholdAssumption == OpenAt \in 0 .. 100 /\ ApproveBelow \in 0 .. 100

\* validation: the tests passed or failed, no test command is configured, or the
\* install command failed and no test was run.
TestOutcome == {"passed", "failed", "none", "no_install"}

Evidence ==
  [top_frame  : {"changed", "elsewhere", "missing"},
   regression : BOOLEAN,
   tests      : TestOutcome,
   files      : Nat,     \* how many files the patch changes
   risky      : BOOLEAN, \* one of them is in a high-risk place
   plan_risk  : {"low", "medium", "high", "critical"},
   no_context : BOOLEAN, \* the bundle holds no file of the repository
   redacted   : BOOLEAN] \* more than five redaction patterns matched

When(condition, points) == IF condition THEN points ELSE 0

FramePoints(e) ==
  When(e.top_frame = "changed", 15) + When(e.top_frame = "elsewhere", 3)
    - When(e.top_frame = "missing", 10)

RegressionPoints(e) == IF e.regression THEN 10 ELSE -5

\* A slip of TestPoints: passing tests are rewarded, failing ones not punished.
TestPointsRewardOnly(e) == When(e.tests = "passed", 15)

TestPoints(e) ==
  When(e.tests = "passed", 15) - When(e.tests = "failed", 25)
    - When(e.tests = "none", 5) - When(e.tests = "no_install", 10)

SizePoints(e) == When(e.files <= 3, 5) - When(e.files >= 8, 5)

RiskPoints(e) ==
  When(e.plan_risk = "low", 5) - When(e.plan_risk = "high", 15)
    - When(e.plan_risk = "critical", 25) - When(e.risky, 15)

ContextPoints(e) == 0 - When(e.no_context, 30) - When(e.redacted, 3)

Score(e) ==
  LET score == 50 + FramePoints(e) + RegressionPoints(e) + TestPoints(e)
                  + SizePoints(e) + RiskPoints(e) + ContextPoints(e)
  IN  IF score < 0 THEN 0 ELSE IF score > 100 THEN 100 ELSE score

Decision(e) ==
  IF Score(e) < OpenAt THEN "block"
  ELSE IF Score(e) < ApproveBelow THEN "request_human_approval"
  ELSE "open_mr"

=============================================================================
