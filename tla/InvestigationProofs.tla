-------------------------- MODULE InvestigationProofs --------------------------
(***************************************************************************)
(* Proofs about Investigation, for any project, settings and numbers of    *)
(* retries and attempts: what a run may cost, that it uses no answer       *)
(* without its record, that the walks over the graph are exact and find    *)
(* the nearest first, that the files of the frames come before all others, *)
(* and that no request leaves the bounds of the settings.                  *)
(***************************************************************************)
EXTENDS Investigation, SelectionLemmas, TLAPS

\* The requests that k calls may make.
Allowance(k) == (MaxRetries + 1) * k

\* The calls a run has made before this one.
CallsBefore ==
  CASE call.purpose = "root_cause" -> 0
    [] call.purpose = "patch_plan" -> 1
    [] call.purpose = "code_patch" -> 2
    [] call.purpose = "code_patch_revision" -> 2 + attempts
    [] OTHER -> 2 + MaxFixAttempts

\* The requests of this call so far.
RequestsOfCall == IF call.at = "ready" THEN 0 ELSE call.attempt + 1

CallTyped ==
  /\ call \in [purpose : Purposes, at : {"ready", "waiting", "pausing"},
               attempt : 0 .. MaxRetries]
  /\ call.at = "ready" => call.attempt = 0
  /\ call.at = "pausing" => call.attempt < MaxRetries
  /\ call.purpose = "code_patch_revision" => attempts \in 1 .. MaxFixAttempts - 1

\* What a request that is out, or is to be made again, has passed.
CallAllowed ==
  call.at # "ready" => Provider(config) # "dry-run" /\ ~RedactionMissing

\* How much of the allowance is used, wherever the run is.
WithinAllowance ==
  /\ requests \in Nat
  /\ stage \in {"context", "collecting", "found", "bundled", "blast"} => requests = 0
  /\ stage = "asking" => requests <= Allowance(CallsBefore) + RequestsOfCall
  /\ stage = "trying" => requests <= Allowance(2 + attempts)
  /\ stage = "gating" => requests <= Allowance(2 + MaxFixAttempts)
  /\ requests <= Allowance(3 + MaxFixAttempts)

CallInv ==
  /\ stage \in Stages
  /\ attempts \in Nat
  /\ stage = "asking" => CallTyped /\ CallAllowed
  /\ stage \in {"asking", "trying", "gating"} => config \in Config
  /\ stage = "trying" => attempts \in 1 .. MaxFixAttempts
  /\ WithinAllowance
  /\ stage \in {"context", "collecting", "found", "bundled"} => used = {}
  /\ UsedIsAudited

-----------------------------------------------------------------------------
LEMMA AllowanceFacts ==
  ASSUME NEW k \in Nat
  PROVE  /\ Allowance(k) \in Nat
         /\ Allowance(k + 1) = Allowance(k) + MaxRetries + 1
         /\ \A m \in Nat : k <= m => Allowance(k) <= Allowance(m)
<1> DEFINE W == MaxRetries + 1
<1>1. W \in Nat
  BY CallAssumption
<1>2. W * k \in Nat
  BY <1>1
<1>3. W * (k + 1) = W * k + W
  BY <1>1
<1>4. ASSUME NEW m \in Nat, k <= m
      PROVE  W * k <= W * m
  <2> DEFINE rest == m - k
  <2>1. rest \in Nat /\ m = k + rest
    BY <1>4
  <2> HIDE DEF rest, W
  <2>2. W * rest \in Nat /\ W * (k + rest) = W * k + W * rest
    BY <1>1, <2>1
  <2>3. W * m = W * k + W * rest
    BY <2>1, <2>2
  <2> QED
    BY <1>2, <2>2, <2>3
<1> QED
  BY <1>2, <1>3, <1>4, CallAssumption DEF Allowance

LEMMA AllowanceOfCall ==
  ASSUME CallTyped, attempts \in Nat
  PROVE  /\ CallsBefore \in Nat
         /\ CallsBefore <= 2 + MaxFixAttempts
         /\ RequestsOfCall \in 0 .. MaxRetries + 1
  BY CallAssumption DEF CallTyped, CallsBefore, RequestsOfCall, Purposes

\* Where the run goes after a call, its requests are within what is allowed there.
LEMMA CallIsOver ==
  ASSUME CallInv, stage = "asking"
  PROVE  /\ requests <= Allowance(CallsBefore + 1)
         /\ requests <= Allowance(3 + MaxFixAttempts)
<1>1. CallTyped /\ attempts \in Nat /\ requests \in Nat
  BY DEF CallInv, WithinAllowance
<1>2. /\ CallsBefore \in Nat /\ CallsBefore <= 2 + MaxFixAttempts
      /\ RequestsOfCall \in 0 .. MaxRetries + 1
  BY <1>1, AllowanceOfCall
<1>3. /\ Allowance(CallsBefore) \in Nat
      /\ Allowance(CallsBefore + 1) = Allowance(CallsBefore) + MaxRetries + 1
  BY <1>2, AllowanceFacts
<1>4. requests <= Allowance(CallsBefore) + RequestsOfCall
  BY DEF CallInv, WithinAllowance
<1> QED
  BY <1>1, <1>2, <1>3, <1>4, CallAssumption DEF CallInv, WithinAllowance

\* The next call of the run is within its allowance before its first request.
LEMMA NextCallFits ==
  ASSUME CallInv, NEW purpose \in Purposes, NEW n \in Nat, NEW k \in Nat,
         requests <= Allowance(k), requests' = requests,
         Ask(purpose), attempts' = n,
         purpose = "patch_plan" => k <= 1,
         purpose = "code_patch" => k <= 2,
         purpose = "code_patch_revision" => k <= 2 + n /\ n \in 1 .. MaxFixAttempts - 1,
         purpose = "mr_explanation" => k <= 2 + MaxFixAttempts,
         purpose = "root_cause" => k = 0
  PROVE  /\ CallTyped' /\ CallAllowed'
         /\ WithinAllowance'
         /\ stage' = "asking"
<1>1. /\ call' = [purpose |-> purpose, at |-> "ready", attempt |-> 0]
      /\ stage' = "asking"
  BY DEF Ask
<1>2. CallTyped' /\ CallAllowed' /\ RequestsOfCall' = 0
  BY <1>1, CallAssumption DEF CallTyped, CallAllowed, RequestsOfCall
<1>3. CallsBefore' \in Nat /\ k <= CallsBefore'
  BY <1>1, CallAssumption DEF CallsBefore, Purposes
<1>4. /\ Allowance(k) \in Nat /\ Allowance(CallsBefore') \in Nat
      /\ Allowance(k) <= Allowance(CallsBefore')
  BY <1>3, AllowanceFacts
<1>5. requests \in Nat /\ requests <= Allowance(3 + MaxFixAttempts)
  BY DEF CallInv, WithinAllowance
<1>6. requests' <= Allowance(CallsBefore') + RequestsOfCall'
  BY <1>2, <1>4, <1>5
<1>7. Allowance(CallsBefore)' = Allowance(CallsBefore')
  BY DEF Allowance
<1> QED
  BY <1>1, <1>2, <1>5, <1>6, <1>7 DEF WithinAllowance, Allowance

-----------------------------------------------------------------------------
LEMMA CallInvInit == Init => CallInv
<1> SUFFICES ASSUME Init PROVE CallInv
  OBVIOUS
<1>1. Allowance(3 + MaxFixAttempts) \in Nat
  BY AllowanceFacts, CallAssumption
<1> QED
  BY <1>1 DEF Init, ContextInit, CallInv, Stages, WithinAllowance, UsedIsAudited

\* Nothing that concerns the model happens before the bundle is made.
LEMMA ContextKeepsCallInv ==
  ASSUME CallInv, (BuildContext \/ WalkOn) /\ UNCHANGED callVars
  PROVE  CallInv'
<1>1. /\ stage \in {"context", "collecting", "found", "blast"}
      /\ stage' \in {"collecting", "found", "bundled", "blast"}
      /\ stage = "blast" <=> stage' = "blast"
  BY DEF BuildContext, WalkOn, CollectFrames, WalkFromSeed, AddNeighbors, AddTests,
         AssembleBundle
<1>2. /\ UNCHANGED <<config, attempts, requests, used, audited>>
  BY DEF callVars
<1> QED
  BY <1>1, <1>2 DEF CallInv, WithinAllowance, Allowance, UsedIsAudited, Stages

\* Where the answer, good or made up, leads: to the next call, or out of the calls.
LEMMA GoesOnKeepsCallInv ==
  ASSUME CallInv, stage = "asking", GoesOn, requests' = requests, config' = config,
         attempts' = AttemptsAfter, UsedIsAudited'
  PROVE  CallInv'
<1>1. CallTyped /\ attempts \in Nat /\ requests \in Nat /\ config \in Config
  BY DEF CallInv, WithinAllowance
<1>2. requests <= Allowance(CallsBefore + 1) /\ requests <= Allowance(3 + MaxFixAttempts)
  BY CallIsOver
<1>3. attempts' \in Nat
  BY <1>1 DEF AttemptsAfter
<1>4. CASE stage' = "ended"
  BY <1>1, <1>2, <1>3, <1>4 DEF CallInv, WithinAllowance, Allowance, Stages
<1>5. CASE call.purpose = "root_cause" /\ Ask("patch_plan")
  <2>1. CallsBefore + 1 = 1
    BY <1>5 DEF CallsBefore
  <2>2. attempts' = attempts
    BY <1>5 DEF AttemptsAfter
  <2>3. CallTyped' /\ CallAllowed' /\ WithinAllowance' /\ stage' = "asking"
    BY <1>1, <1>2, <1>3, <1>5, <2>1, NextCallFits DEF Purposes
  <2> QED
    BY <1>1, <1>3, <2>3 DEF CallInv, Stages
<1>6. CASE call.purpose = "patch_plan" /\ Ask("code_patch")
  <2>1. CallsBefore + 1 = 2
    BY <1>6 DEF CallsBefore
  <2>3. CallTyped' /\ CallAllowed' /\ WithinAllowance' /\ stage' = "asking"
    BY <1>1, <1>2, <1>3, <1>6, <2>1, NextCallFits DEF Purposes
  <2> QED
    BY <1>1, <1>3, <2>3 DEF CallInv, Stages
<1>7. CASE call.purpose \in {"code_patch", "code_patch_revision"} /\ stage' = "trying"
  <2>1. attempts' \in 1 .. MaxFixAttempts /\ 2 + attempts' = CallsBefore + 1
    BY <1>1, <1>7, CallAssumption DEF AttemptsAfter, CallsBefore, CallTyped
  <2>2. requests' <= Allowance(2 + attempts')
    BY <1>2, <2>1
  <2> QED
    BY <1>1, <1>2, <1>3, <1>7, <2>1, <2>2 DEF CallInv, WithinAllowance, Allowance, Stages
<1> QED
  BY <1>1, <1>4, <1>5, <1>6, <1>7 DEF GoesOn, CallTyped, Purposes

LEMMA ThrowKeepsCallInv ==
  ASSUME CallInv, stage = "asking", Throws,
         UNCHANGED <<config, attempts, requests, used, audited>>
  PROVE  CallInv'
<1>1. stage' \in {"failed", "ended"}
  BY DEF Throws
<1> QED
  BY <1>1 DEF CallInv, WithinAllowance, Allowance, UsedIsAudited, Stages

\* A revision that brings no patch leads to the gate.
LEMMA NoRevisionKeepsCallInv ==
  ASSUME CallInv, stage = "asking", call.purpose = "code_patch_revision",
         stage' = "gating", UNCHANGED <<config, attempts, requests>>, UsedIsAudited'
  PROVE  CallInv'
<1>1. CallTyped /\ attempts \in 1 .. MaxFixAttempts - 1 /\ requests \in Nat
  BY DEF CallInv, CallTyped, WithinAllowance
<1>2. requests <= Allowance(CallsBefore + 1) /\ requests <= Allowance(3 + MaxFixAttempts)
  BY CallIsOver
<1>3. CallsBefore + 1 = 3 + attempts
  BY <1>1, CallAssumption DEF CallsBefore
<1>4. /\ Allowance(3 + attempts) \in Nat /\ Allowance(2 + MaxFixAttempts) \in Nat
      /\ Allowance(3 + attempts) <= Allowance(2 + MaxFixAttempts)
  BY <1>1, CallAssumption, AllowanceFacts
<1>5. requests <= Allowance(2 + MaxFixAttempts)
  BY <1>1, <1>2, <1>3, <1>4
<1> QED
  BY <1>1, <1>2, <1>5 DEF CallInv, WithinAllowance, Allowance, Stages

LEMMA AskModelKeepsCallInv ==
  ASSUME CallInv, AskModel
  PROVE  CallInv'
<1> USE CallAssumption
<1>0. Allowance(0) = 0
  BY DEF Allowance
<1>1. CASE ChooseProvider
  <2>1. requests = 0 /\ attempts \in Nat /\ used = {}
    BY <1>1 DEF ChooseProvider, CallInv, WithinAllowance
  <2>2. CallTyped' /\ CallAllowed' /\ WithinAllowance' /\ stage' = "asking"
    BY <1>0, <1>1, <2>1, NextCallFits DEF ChooseProvider, Purposes
  <2> QED
    BY <1>1, <2>1, <2>2 DEF ChooseProvider, CallInv, Stages, UsedIsAudited
<1>2. CASE FakeAnswer
  <2>1. UsedIsAudited' /\ stage = "asking"
    BY <1>2 DEF FakeAnswer, CallInv, UsedIsAudited, At
  <2>2. CASE call.purpose = "code_patch_revision"
    BY <1>2, <2>1, <2>2, NoRevisionKeepsCallInv DEF FakeAnswer, FakeRevision
  <2>3. CASE call.purpose # "code_patch_revision"
    <3>1. attempts' = AttemptsAfter
      BY <1>2, <2>3 DEF FakeAnswer, AttemptsAfter
    <3>2. CallTyped
      BY <2>1 DEF CallInv
    <3>3. config.caller = "analyze" \/ config.caller # "analyze"
      OBVIOUS
    <3>4. GoesOn
      BY <1>2, <2>3, <3>2 DEF FakeAnswer, GoesOn, CallTyped, Purposes
    <3> QED
      BY <1>2, <2>1, <3>1, <3>4, GoesOnKeepsCallInv DEF FakeAnswer
  <2> QED
    BY <2>2, <2>3
<1>3. CASE RefuseUnredacted \/ NoAnswer \/ RecordFails
  BY <1>3, ThrowKeepsCallInv DEF RefuseUnredacted, NoAnswer, RecordFails, At
<1>4. CASE Send \/ TransientError \/ Retry
  <2>1. /\ stage = "asking" /\ CallTyped /\ CallAllowed /\ config \in Config
        /\ requests \in Nat /\ attempts \in Nat
        /\ requests <= Allowance(CallsBefore) + RequestsOfCall
    BY <1>4 DEF Send, TransientError, Retry, At, CallInv, WithinAllowance
  <2>2. /\ stage' = stage /\ UNCHANGED <<config, attempts, used, audited, bundle>>
    BY <1>4 DEF Send, TransientError, Retry, contextVars
  <2>3. CallTyped' /\ CallsBefore' = CallsBefore
    <3>1. /\ call' = [purpose |-> call.purpose, at |-> call'.at, attempt |-> call'.attempt]
          /\ call'.at \in {"waiting", "pausing"} /\ call'.attempt \in 0 .. MaxRetries
          /\ call'.at = "pausing" => call'.attempt < MaxRetries
      <4>1. CASE Send
        BY <2>1, <4>1 DEF Send, At, CallTyped
      <4>2. CASE TransientError
        BY <2>1, <4>2 DEF TransientError, At, MayRetry, CallTyped
      <4>3. CASE Retry
        <5>1. call.attempt + 1 \in 0 .. MaxRetries
          BY <2>1, <4>3 DEF Retry, At, CallTyped
        <5>2. call' = [purpose |-> call.purpose, at |-> "waiting", attempt |-> call.attempt + 1]
          BY <2>1, <4>3 DEF Retry, CallTyped
        <5> QED
          BY <5>1, <5>2
      <4> QED
        BY <1>4, <4>1, <4>2, <4>3
    <3>2. call'.purpose = call.purpose
      BY <3>1
    <3> QED
      BY <2>1, <2>2, <3>1, <3>2 DEF CallTyped, CallsBefore
  <2>4. CallAllowed'
    BY <1>4, <2>1, <2>2 DEF Send, TransientError, Retry, At, CallTyped, CallAllowed, DryRun,
                          RedactionMissing, Provider, ForceDryRun
  <2>5. requests' \in Nat /\ requests' <= Allowance(CallsBefore') + RequestsOfCall'
    <3>1. Allowance(CallsBefore) \in Nat
      BY <2>1, AllowanceOfCall, AllowanceFacts
    <3>2. CASE Send
      BY <2>1, <2>3, <3>1, <3>2 DEF Send, At, CallTyped, RequestsOfCall
    <3>3. CASE TransientError
      BY <2>1, <2>3, <3>1, <3>3 DEF TransientError, At, CallTyped, RequestsOfCall
    <3>4. CASE Retry
      BY <2>1, <2>3, <3>1, <3>4 DEF Retry, At, CallTyped, RequestsOfCall
    <3> QED
      BY <1>4, <3>2, <3>3, <3>4
  <2>6. requests' <= Allowance(3 + MaxFixAttempts)
    <3>1. CallsBefore \in Nat /\ CallsBefore <= 2 + MaxFixAttempts
      BY <2>1, AllowanceOfCall
    <3>2. RequestsOfCall' \in 0 .. MaxRetries + 1
      BY <2>3 DEF CallTyped, RequestsOfCall
    <3>3. /\ Allowance(CallsBefore) \in Nat
          /\ Allowance(CallsBefore + 1) = Allowance(CallsBefore) + MaxRetries + 1
          /\ Allowance(CallsBefore + 1) <= Allowance(3 + MaxFixAttempts)
          /\ Allowance(3 + MaxFixAttempts) \in Nat
      <4> DEFINE next == CallsBefore + 1
                 last == 3 + MaxFixAttempts
      <4>1. next \in Nat /\ last \in Nat /\ next <= last
        BY <3>1
      <4>2. /\ Allowance(CallsBefore) \in Nat
            /\ Allowance(next) = Allowance(CallsBefore) + MaxRetries + 1
        BY <3>1, AllowanceFacts
      <4> HIDE DEF next, last
      <4>3. Allowance(next) <= Allowance(last) /\ Allowance(last) \in Nat
        BY <4>1, AllowanceFacts
      <4> QED
        BY <4>2, <4>3 DEF next, last
    <3>4. requests' \in Nat /\ requests' <= Allowance(CallsBefore) + RequestsOfCall'
      BY <2>3, <2>5
    <3> QED
      BY <3>2, <3>3, <3>4
  <2>7. WithinAllowance'
    BY <2>1, <2>2, <2>5, <2>6 DEF WithinAllowance, Allowance
  <2> QED
    BY <2>1, <2>2, <2>3, <2>4, <2>7 DEF CallInv, UsedIsAudited, Stages
<1>5. CASE Answer
  BY <1>5, GoesOnKeepsCallInv DEF Answer, At, CallInv, UsedIsAudited
<1>6. CASE GiveUp
  BY <1>6, NoRevisionKeepsCallInv DEF GiveUp, At, CallInv, UsedIsAudited
<1>7. CASE Revise
  <2>1. /\ attempts \in 1 .. MaxFixAttempts - 1 /\ requests <= Allowance(2 + attempts)
        /\ stage = "trying"
    BY <1>7 DEF Revise, CallInv, WithinAllowance
  <2>2. CallTyped' /\ CallAllowed' /\ WithinAllowance' /\ stage' = "asking"
    BY <1>7, <2>1, NextCallFits DEF Revise, Purposes
  <2> QED
    BY <1>7, <2>1, <2>2 DEF Revise, CallInv, Stages, UsedIsAudited
<1>8. CASE LeaveLoop
  <2>1. attempts \in 1 .. MaxFixAttempts /\ requests <= Allowance(2 + attempts)
    BY <1>8 DEF LeaveLoop, CallInv, WithinAllowance
  <2>2. /\ Allowance(2 + attempts) \in Nat /\ Allowance(2 + MaxFixAttempts) \in Nat
        /\ Allowance(2 + attempts) <= Allowance(2 + MaxFixAttempts)
    BY <2>1, AllowanceFacts
  <2> QED
    BY <1>8, <2>1, <2>2 DEF LeaveLoop, callVars, CallInv, WithinAllowance, Allowance, Stages,
                          UsedIsAudited
<1>9. CASE Gate
  <2>1. CASE stage' = "ended"
    BY <1>9, <2>1 DEF Gate, CallInv, WithinAllowance, Allowance, Stages, UsedIsAudited
  <2>2. CASE Ask("mr_explanation")
    <3>1. /\ stage = "gating" /\ requests <= Allowance(2 + MaxFixAttempts) /\ attempts \in Nat
      BY <1>9 DEF Gate, CallInv, WithinAllowance
    <3>2. CallTyped' /\ CallAllowed' /\ WithinAllowance' /\ stage' = "asking"
      BY <1>9, <2>2, <3>1, NextCallFits DEF Gate, Purposes
    <3> QED
      BY <1>9, <3>1, <3>2 DEF Gate, CallInv, Stages, UsedIsAudited
  <2> QED
    BY <1>9, <2>1, <2>2 DEF Gate
<1> QED
  BY <1>1, <1>2, <1>3, <1>4, <1>5, <1>6, <1>7, <1>8, <1>9 DEF AskModel

LEMMA CallInvStep == CallInv /\ [Next]_vars => CallInv'
<1> SUFFICES ASSUME CallInv, [Next]_vars PROVE CallInv'
  OBVIOUS
<1>1. CASE (BuildContext \/ WalkOn) /\ UNCHANGED callVars
  BY <1>1, ContextKeepsCallInv
<1>2. CASE FindAffected
  BY <1>2 DEF FindAffected, callVars, CallInv, WithinAllowance, Allowance, UsedIsAudited, Stages
<1>3. CASE Affected
  BY <1>3 DEF Affected, callVars, CallInv, WithinAllowance, Allowance, UsedIsAudited, Stages
<1>4. CASE AskModel
  BY <1>4, AskModelKeepsCallInv
<1>5. CASE UNCHANGED vars
  <2>1. UNCHANGED <<stage, callVars, bundle>>
    BY <1>5 DEF vars, contextVars
  <2> QED
    BY <2>1 DEF callVars, CallInv, CallTyped, CallAllowed, WithinAllowance, Allowance,
                CallsBefore, RequestsOfCall, UsedIsAudited, Provider, ForceDryRun, RedactionMissing
<1> QED
  BY <1>1, <1>2, <1>3, <1>4, <1>5 DEF Next

\* The strengthening holds throughout: what a call may cost and what has been recorded
\* of it fit the place of the run (processIncidentToMr and the calls it makes).
THEOREM CallInvHolds == Spec => []CallInv
  BY CallInvInit, CallInvStep, PTL DEF Spec

-----------------------------------------------------------------------------
\* One run of the pipeline makes at most MaxRetries + 1 requests of its own for each of
\* MaxFixAttempts + 3 calls, whichever of them fail: retries and revisions (withRetry
\* inside the self-correction loop) do not add up to more.  It bounds neither the runs of
\* an incident that stays pending nor what the clients of the providers repeat.
THEOREM RequestsAreBounded == Spec => []RequestsBounded
<1>1. CallInv => RequestsBounded
  <2> SUFFICES ASSUME CallInv PROVE RequestsBounded
    OBVIOUS
  <2>1. requests <= (MaxRetries + 1) * (3 + MaxFixAttempts)
    BY DEF CallInv, WithinAllowance, Allowance
  <2>2. 3 + MaxFixAttempts = MaxFixAttempts + 3
    BY CallAssumption
  <2> QED
    BY <2>1, <2>2 DEF RequestsBounded
<1> QED
  BY <1>1, CallInvHolds, PTL

\* With audit_model_context set, no run goes on with an answer of the model that has
\* no audit record (callJson and mrExplanation, whose record may fail).
THEOREM UsedAnswersAreAudited == Spec => []UsedIsAudited
  BY CallInvHolds, PTL DEF CallInv

-----------------------------------------------------------------------------
(***************************************************************************)
(* The breadth-first walks.  A walk and a graph are values here, so that   *)
(* the lemmas can speak of the walk before a step and after it.            *)
(***************************************************************************)
WalkType ==
  [kind : Kinds, start : Node, seen : SUBSET Node, queue : Seq(Entry), out : Seq(Listed)]

\* Adjacent and Ball, of a given graph.
NextTo(E, kind, id) ==
  {n \in Node : <<n, id>> \in E \/ (kind = "neighbors" /\ <<id, n>> \in E)}

\* A set of nodes and what is one hop from it.
Grown(E, kind, N) == N \cup UNION {NextTo(E, kind, n) : n \in N}

Balls(E, kind, start) ==
  LET within[k \in 0..Depth(kind)] ==
        IF k = 0 THEN {start}
        ELSE LET near == within[k - 1]
             IN  near \cup UNION {NextTo(E, kind, n) : n \in near}
  IN  within

\* The nodes within k hops.
Within(E, kind, start, k) == Balls(E, kind, start)[k]

LEMMA BallIsWithin ==
  /\ Ball = Balls(edges, walk.kind, walk.start)
  /\ \A kind, id : Adjacent(kind, id) = NextTo(edges, kind, id)
  BY DEF Ball, Balls, Adjacent, NextTo

LEMMA TaggedIsFinite ==
  ASSUME NEW S, IsFiniteSet(S), NEW tag
  PROVE  IsFiniteSet({<<tag, x>> : x \in S})
<1> DEFINE T == {<<tag, x>> : x \in S}
           f == [x \in S |-> <<tag, x>>]
<1>1. f \in Surjection(S, T)
  BY DEF Surjection
<1> QED
  BY <1>1, FS_Surjection

LEMMA NodeIsFinite == IsFiniteSet(Node)
<1>1. /\ IsFiniteSet(CodeFile) /\ IsFiniteSet(OtherFile) /\ IsFiniteSet(Package)
      /\ IsFiniteSet(Route) /\ IsFiniteSet(Test)
  BY ProjectAssumption, FS_Subset
<1>2. /\ IsFiniteSet({FileId(f) : f \in CodeFile}) /\ IsFiniteSet({FileId(f) : f \in OtherFile})
      /\ IsFiniteSet({TestId(f) : f \in Test}) /\ IsFiniteSet({PackageId(f) : f \in Package})
      /\ IsFiniteSet({RouteId(f) : f \in Route})
  BY <1>1, TaggedIsFinite DEF FileId, TestId, PackageId, RouteId
<1> QED
  BY <1>2, FS_Union DEF Node, Listed

LEMMA DepthType == ASSUME NEW kind \in Kinds PROVE Depth(kind) \in Nat
  BY DepthAssumption DEF Depth

\* The recursive definition of Within has a solution.
LEMMA WithinSteps ==
  ASSUME NEW E, NEW kind \in Kinds, NEW start
  PROVE  /\ DOMAIN Balls(E, kind, start) = 0 .. Depth(kind)
         /\ Within(E, kind, start, 0) = {start}
         /\ \A k \in 1 .. Depth(kind) :
              Within(E, kind, start, k) = Grown(E, kind, Within(E, kind, start, k - 1))
<1> DEFINE Solves(f, m) == f = [k \in 0 .. m |-> IF k = 0 THEN {start} ELSE Grown(E, kind, f[k - 1])]
           Bad == {m \in Nat : ~\E f : Solves(f, m)}
<1>1. Bad = {}
  <2> SUFFICES ASSUME Bad # {} PROVE FALSE
    OBVIOUS
  <2>1. PICK m \in Bad : \A l \in Bad : m <= l
    BY LeastMember
  <2>2. CASE m = 0
    <3> DEFINE f == [k \in 0 .. 0 |-> {start}]
    <3>1. Solves(f, 0)
      OBVIOUS
    <3> QED
      BY <2>1, <2>2, <3>1
  <2>3. CASE m # 0
    <3>0. m \in Nat
      BY <2>1
    <3>1. m - 1 \in Nat /\ m - 1 \notin Bad
      <4> HIDE DEF Bad
      <4> QED
        BY <2>1, <2>3, <3>0
    <3>2. PICK g : Solves(g, m - 1)
      BY <3>1
    <3> DEFINE f == [k \in 0 .. m |-> IF k = 0 THEN {start} ELSE Grown(E, kind, g[k - 1])]
    <3>3. \A k \in 0 .. m - 1 : g[k] = IF k = 0 THEN {start} ELSE Grown(E, kind, g[k - 1])
      BY <3>2
    <3>4. ASSUME NEW k \in 0 .. m - 1 PROVE f[k] = g[k]
      <4>1. k \in 0 .. m
        BY <3>0
      <4> QED
        BY <3>3, <4>1
    <3>5. ASSUME NEW k \in 0 .. m PROVE f[k] = IF k = 0 THEN {start} ELSE Grown(E, kind, f[k - 1])
      <4>1. CASE k = 0
        BY <3>0, <4>1
      <4>2. CASE k # 0
        <5>1. k - 1 \in 0 .. m - 1
          BY <3>0, <4>2
        <5> QED
          BY <3>4, <4>2, <5>1
      <4> QED
        BY <4>1, <4>2
    <3>6. f = [k \in 0 .. m |-> IF k = 0 THEN {start} ELSE Grown(E, kind, f[k - 1])]
      BY <3>5
    <3>7. \E h : Solves(h, m)
      BY <3>6
    <3> QED
      BY <2>1, <3>7
  <2> QED
    BY <2>2, <2>3
<1> DEFINE B == Balls(E, kind, start)
           D == Depth(kind)
<1>2. B = CHOOSE f : Solves(f, D)
  BY DEF Balls, Grown
<1>3. D \in Nat
  BY DepthType
<1> HIDE DEF B, D
<1>4. Solves(B, D)
  BY <1>1, <1>2, <1>3
<1>5. DOMAIN B = 0 .. D /\ B[0] = {start} /\ \A k \in 1 .. D : B[k] = Grown(E, kind, B[k - 1])
  <2>1. \A k \in 0 .. D : B[k] = IF k = 0 THEN {start} ELSE Grown(E, kind, B[k - 1])
    BY <1>4
  <2>2. DOMAIN B = 0 .. D
    BY <1>4
  <2> QED
    BY <1>3, <2>1, <2>2
<1> QED
  BY <1>5 DEF B, D, Within

LEMMA NextBall ==
  ASSUME NEW E, NEW kind \in Kinds, NEW start, NEW k \in Nat, k + 1 \in 1 .. Depth(kind)
  PROVE  Within(E, kind, start, k + 1) = Grown(E, kind, Within(E, kind, start, k))
<1>1. (k + 1) - 1 = k
  OBVIOUS
<1>2. Within(E, kind, start, k + 1) = Grown(E, kind, Within(E, kind, start, (k + 1) - 1))
  BY WithinSteps
<1> QED
  BY <1>1, <1>2

LEMMA WithinGrows ==
  ASSUME NEW E, NEW kind \in Kinds, NEW start,
         NEW i \in 0 .. Depth(kind), NEW j \in i .. Depth(kind)
  PROVE  Within(E, kind, start, i) \subseteq Within(E, kind, start, j)
<1> DEFINE B(x) == Within(E, kind, start, x)
           D == Depth(kind)
           Bad == {l \in i .. D : ~(B(i) \subseteq B(l))}
<1>1. D \in Nat
  BY DepthType
<1>2. ASSUME NEW k \in 1 .. D PROVE B(k - 1) \subseteq B(k)
  <2>0. k - 1 \in Nat /\ (k - 1) + 1 = k
    BY <1>1
  <2>1. B(k) = Grown(E, kind, B(k - 1))
    BY <2>0, NextBall
  <2> QED
    BY <2>1 DEF Grown
<1> SUFFICES ASSUME Bad # {} PROVE FALSE
  BY <1>1
<1>3. Bad \subseteq Nat
  BY <1>1
<1>4. PICK l \in Bad : \A k \in Bad : l <= k
  BY <1>3, LeastMember
<1> HIDE DEF B, D
<1>5. l \in i .. D /\ ~(B(i) \subseteq B(l))
  BY <1>4
<1>6. l # i
  BY <1>5
<1>7. l - 1 \in i .. D /\ l \in 1 .. D /\ ~(l <= l - 1)
  BY <1>1, <1>5, <1>6
<1>8. B(i) \subseteq B(l - 1)
  BY <1>4, <1>7
<1>9. B(l - 1) \subseteq B(l)
  BY <1>2, <1>7
<1> QED
  BY <1>5, <1>8, <1>9

\* A set that has the start and, of all nodes closer than the depth, the neighbors,
\* has all nodes within the depth.
LEMMA WithinIsLeast ==
  ASSUME NEW E, NEW kind \in Kinds, NEW start, NEW S, start \in S,
         \A k \in 0 .. Depth(kind) - 1 : \A n \in Within(E, kind, start, k) \cap S :
           NextTo(E, kind, n) \subseteq S
  PROVE  Within(E, kind, start, Depth(kind)) \subseteq S
<1> DEFINE B(x) == Within(E, kind, start, x)
           D == Depth(kind)
           Bad == {l \in 0 .. D : ~(B(l) \subseteq S)}
<1>1. D \in Nat
  BY DepthType
<1>2. B(0) = {start} /\ \A k \in 1 .. D : B(k) = Grown(E, kind, B(k - 1))
  BY WithinSteps
<1>3. \A k \in 0 .. D - 1 : \A n \in B(k) \cap S : NextTo(E, kind, n) \subseteq S
  OBVIOUS
<1> SUFFICES ASSUME Bad # {} PROVE FALSE
  BY <1>1
<1>4. PICK l \in Bad : \A k \in Bad : l <= k
  <2>1. Bad \in SUBSET Nat
    BY <1>1
  <2> QED
    BY <2>1, LeastMember
<1> HIDE DEF B, D
<1>5. l \in 0 .. D /\ ~(B(l) \subseteq S)
  BY <1>4
<1>6. l # 0
  BY <1>2, <1>5
<1>7. l - 1 \in 0 .. D /\ l - 1 \in 0 .. D - 1 /\ l \in 1 .. D /\ ~(l <= l - 1)
  BY <1>1, <1>5, <1>6
<1>8. B(l - 1) \subseteq S
  BY <1>4, <1>7
<1>9. \A n \in B(l - 1) : NextTo(E, kind, n) \subseteq S
  BY <1>3, <1>7, <1>8
<1>10. B(l) = Grown(E, kind, B(l - 1))
  BY <1>2, <1>7
<1> QED
  BY <1>5, <1>8, <1>9, <1>10 DEF Grown

(***************************************************************************)
(* What is true of a walk under way.                                       *)
(***************************************************************************)
BallOf(E, w, k) == Within(E, w.kind, w.start, k)

\* An entry has the distance of its node, and the nodes of the queue have been seen.
EntryRight(E, w, e) ==
  /\ e.d \in 0 .. Depth(w.kind)
  /\ e.id \in w.seen
  /\ e.id \in BallOf(E, w, e.d)
  /\ \A k \in 0 .. e.d - 1 : e.id \notin BallOf(E, w, k)

\* The queue ascends, by one at most.
QueueRight(E, w) ==
  /\ \A i \in DOMAIN w.queue : EntryRight(E, w, w.queue[i])
  /\ \A i, j \in DOMAIN w.queue :
       i < j => w.queue[i].d <= w.queue[j].d /\ w.queue[j].d <= w.queue[i].d + 1

\* All that is as near as the head of the queue has been seen, and nothing that is more
\* than one hop farther.
SeenRight(E, w) ==
  /\ w.start \in w.seen
  /\ w.seen \subseteq BallOf(E, w, Depth(w.kind))
  /\ w.queue # <<>> =>
       /\ BallOf(E, w, w.queue[1].d) \subseteq w.seen
       /\ \A k \in 0 .. Depth(w.kind) : w.queue[1].d < k => w.seen \subseteq BallOf(E, w, k)

\* What has left the queue has been expanded.
DoneRight(E, w) ==
  \A k \in 0 .. Depth(w.kind) - 1 : \A n \in w.seen \cap BallOf(E, w, k) :
    (\E i \in DOMAIN w.queue : w.queue[i].id = n) \/ NextTo(E, w.kind, n) \subseteq w.seen

OutRight(E, w) ==
  /\ {w.out[i] : i \in DOMAIN w.out} = (w.seen \cap Listed) \ {w.start}
  /\ \A i, j \in DOMAIN w.out : w.out[i] = w.out[j] => i = j
  /\ \A k \in 0 .. Depth(w.kind) : \A i, j \in DOMAIN w.out :
       i < j /\ w.out[j] \in BallOf(E, w, k) => w.out[i] \in BallOf(E, w, k)

WalkRight(E, w) ==
  w \in WalkType /\ QueueRight(E, w) /\ SeenRight(E, w) /\ DoneRight(E, w) /\ OutRight(E, w)

FirstEntry(start) == [id |-> start, d |-> 0]

LEMMA WalkBegins ==
  ASSUME NEW E, NEW kind \in Kinds, NEW start \in Node
  PROVE  WalkRight(E, [kind |-> kind, start |-> start, seen |-> {start},
                       queue |-> <<FirstEntry(start)>>, out |-> <<>>])
<1> DEFINE w == [kind |-> kind, start |-> start, seen |-> {start},
                 queue |-> <<FirstEntry(start)>>, out |-> <<>>]
           D == Depth(kind)
<1>1. D \in Nat
  BY DepthType
<1>2. FirstEntry(start) \in Entry
  BY DEF FirstEntry, Entry
<1>3. w \in WalkType
  BY <1>2 DEF WalkType
<1>4. /\ w.kind = kind /\ w.start = start /\ w.seen = {start} /\ w.out = <<>>
      /\ w.queue # <<>> /\ DOMAIN w.queue = {1} /\ w.queue[1].id = start /\ w.queue[1].d = 0
  BY DEF FirstEntry
<1>5. BallOf(E, w, 0) = {start}
  BY <1>4, WithinSteps DEF BallOf
<1>6. \A k \in 0 .. D : {start} \subseteq BallOf(E, w, k)
  <2>1. 0 \in 0 .. D /\ \A k \in 0 .. D : k \in 0 .. D
    BY <1>1
  <2> QED
    BY <1>4, <1>5, <2>1, WithinGrows DEF BallOf
<1>7. DOMAIN w.out = {}
  BY <1>4
<1> HIDE DEF w, D
<1>8. QueueRight(E, w)
  BY <1>1, <1>4, <1>5 DEF QueueRight, EntryRight, D
<1>9. SeenRight(E, w)
  BY <1>1, <1>4, <1>5, <1>6 DEF SeenRight, D
<1>10. DoneRight(E, w)
  BY <1>4 DEF DoneRight
<1>11. OutRight(E, w)
  BY <1>4, <1>7 DEF OutRight
<1>12. WalkRight(E, w)
  BY <1>3, <1>8, <1>9, <1>10, <1>11 DEF WalkRight
<1> QED
  BY <1>12 DEF w

-----------------------------------------------------------------------------
\* The nodes that the head of the queue adds to it.
Fresh(E, w) ==
  IF w.queue[1].d >= Depth(w.kind) THEN {} ELSE NextTo(E, w.kind, w.queue[1].id) \ w.seen

StepWith(E, w, v, order) ==
  v = [w EXCEPT !.seen  = @ \cup Fresh(E, w),
                !.queue = Enqueued(Tail(@), [i \in DOMAIN order |->
                                               [id |-> order[i], d |-> w.queue[1].d + 1]]),
                !.out   = @ \o Among(order, Listed)]

LEMMA OrderType ==
  ASSUME NEW S, IsFiniteSet(S), NEW order \in SetToSeqs(S)
  PROVE  /\ order \in Seq(S) /\ DOMAIN order = 1 .. Len(order) /\ Len(order) \in Nat
         /\ {order[i] : i \in DOMAIN order} = S
         /\ \A i, j \in DOMAIN order : order[i] = order[j] => i = j
<1> DEFINE n == Cardinality(S)
<1>1. IsFiniteSet(S) /\ n \in Nat
  BY FS_CardinalityType
<1>2. order \in [1 .. n -> S] /\ \A i, j \in 1 .. n : i # j => order[i] # order[j]
  BY DEF SetToSeqs
<1>3. order \in Injection(1 .. n, S)
  BY <1>2 DEF Injection, IsInjective
<1>4. IsFiniteSet(1 .. n) /\ Cardinality(1 .. n) = n
  BY <1>1, FS_Interval
<1>5. order \in Surjection(1 .. n, S)
  BY <1>1, <1>3, <1>4, FS_Injection
<1>6. \A x \in S : \E i \in 1 .. n : order[i] = x
  BY <1>5 DEF Surjection
<1> HIDE DEF n
<1>7. order \in Seq(S) /\ Len(order) = n /\ DOMAIN order = 1 .. n
  BY <1>1, <1>2
<1> QED
  BY <1>1, <1>2, <1>6, <1>7

LEMMA QueueAfter ==
  ASSUME NEW E, NEW w \in WalkType, w.queue # <<>>, NEW order \in SetToSeqs(Fresh(E, w)),
         NEW v, StepWith(E, w, v, order)
  PROVE  /\ v.kind = w.kind /\ v.start = w.start /\ v.seen = w.seen \cup Fresh(E, w)
         /\ v \in WalkType /\ Fresh(E, w) \subseteq Node \ w.seen
         /\ \A i \in DOMAIN v.queue :
              \/ i + 1 \in DOMAIN w.queue /\ v.queue[i] = w.queue[i + 1]
              \/ /\ i >= Len(w.queue)
                 /\ v.queue[i].id \in Fresh(E, w) /\ v.queue[i].d = w.queue[1].d + 1
         /\ \A i \in DOMAIN w.queue :
              i # 1 => i - 1 \in DOMAIN v.queue /\ v.queue[i - 1] = w.queue[i]
         /\ \A n \in Fresh(E, w) : \E i \in DOMAIN v.queue : v.queue[i].id = n
<1> DEFINE F == Fresh(E, w)
           d == w.queue[1].d + 1
           new == [i \in DOMAIN order |-> [id |-> order[i], d |-> d]]
           rest == Tail(w.queue)
<1>1. F \subseteq Node /\ F \cap w.seen = {}
  BY DEF Fresh, NextTo
<1>2. w.queue \in Seq(Entry) /\ w.seen \in SUBSET Node /\ w.out \in Seq(Listed)
      /\ w.kind \in Kinds /\ w.start \in Node
  BY DEF WalkType
<1>3. /\ Len(w.queue) \in Nat \ {0} /\ DOMAIN w.queue = 1 .. Len(w.queue)
      /\ 1 \in DOMAIN w.queue /\ w.queue[1] \in Entry /\ d \in Nat
  <2>1. Len(w.queue) \in Nat \ {0} /\ DOMAIN w.queue = 1 .. Len(w.queue)
    BY <1>2, LenProperties, EmptySeq
  <2>2. 1 \in DOMAIN w.queue /\ w.queue[1] \in Entry
    BY <1>2, <2>1, ElementOfSeq
  <2> QED
    BY <2>1, <2>2 DEF Entry
<1> HIDE DEF F, d
<1>4. /\ order \in Seq(F) /\ DOMAIN order = 1 .. Len(order) /\ Len(order) \in Nat
      /\ {order[i] : i \in DOMAIN order} = F
  BY <1>1, NodeIsFinite, FS_Subset, OrderType DEF F
<1>5. new \in Seq(Entry) /\ Len(new) = Len(order) /\ DOMAIN new = 1 .. Len(order)
  <2>1. \A i \in 1 .. Len(order) : order[i] \in Node
    BY <1>1, <1>4
  <2> QED
    BY <1>3, <1>4, <2>1 DEF Entry
<1>6. /\ rest \in Seq(Entry) /\ Len(rest) = Len(w.queue) - 1
      /\ \A i \in 1 .. Len(rest) : rest[i] = w.queue[i + 1]
  BY <1>2, HeadTailProperties
<1>7. \A i \in 1 .. Len(order) : new[i].id = order[i] /\ new[i].d = d
  BY <1>4
<1> HIDE DEF new, rest
<1>8. /\ rest \o new \in Seq(Entry) /\ Len(rest \o new) = Len(rest) + Len(new)
      /\ \A i \in 1 .. Len(rest) + Len(new) :
           (rest \o new)[i] = IF i <= Len(rest) THEN rest[i] ELSE new[i - Len(rest)]
  <2>1. rest \in Seq(Entry) /\ new \in Seq(Entry)
    BY <1>5, <1>6
  <2> QED
    BY <2>1, ConcatProperties
<1>9. DOMAIN (rest \o new) = 1 .. Len(rest) + Len(new) /\ Len(new) \in Nat /\ Len(rest) \in Nat
  BY <1>3, <1>4, <1>5, <1>6, <1>8, LenProperties
<1>10. Among(order, Listed) \in Seq(Listed) /\ w.out \o Among(order, Listed) \in Seq(Listed)
  BY <1>2, <1>4, AmongType, ConcatProperties
<1>11. v = [w EXCEPT !.seen = w.seen \cup F, !.queue = rest \o new,
                     !.out = w.out \o Among(order, Listed)]
  BY DEF StepWith, F, d, new, rest, Enqueued, WalkType
<1>12. /\ v \in WalkType /\ v.kind = w.kind /\ v.start = w.start /\ v.seen = w.seen \cup F
       /\ v.queue = rest \o new
  BY <1>1, <1>2, <1>8, <1>10, <1>11 DEF WalkType
<1>13. ASSUME NEW i \in DOMAIN v.queue
       PROVE  \/ i + 1 \in DOMAIN w.queue /\ v.queue[i] = w.queue[i + 1]
              \/ i >= Len(w.queue) /\ v.queue[i].id \in F /\ v.queue[i].d = d
  <2>1. i \in 1 .. Len(rest) + Len(new)
    BY <1>9, <1>12
  <2>2. CASE i <= Len(rest)
    BY <1>3, <1>6, <1>8, <1>9, <1>12, <2>1, <2>2
  <2>3. CASE ~(i <= Len(rest))
    <3>1. i - Len(rest) \in 1 .. Len(order) /\ i >= Len(w.queue)
      BY <1>3, <1>5, <1>6, <1>9, <2>1, <2>3
    <3>2. v.queue[i] = new[i - Len(rest)]
      BY <1>8, <1>12, <2>1, <2>3
    <3>3. order[i - Len(rest)] \in F
      BY <1>4, <3>1
    <3> QED
      BY <1>7, <3>1, <3>2, <3>3
  <2> QED
    BY <2>2, <2>3
<1>14. ASSUME NEW i \in DOMAIN w.queue, i # 1
       PROVE  i - 1 \in DOMAIN v.queue /\ v.queue[i - 1] = w.queue[i]
  <2>1. /\ i - 1 \in 1 .. Len(rest) + Len(new) /\ i - 1 \in 1 .. Len(rest) /\ (i - 1) + 1 = i
        /\ i - 1 <= Len(rest)
    BY <1>3, <1>6, <1>9, <1>14
  <2>2. v.queue[i - 1] = rest[i - 1]
    BY <1>8, <1>12, <2>1
  <2> QED
    BY <1>6, <1>9, <1>12, <2>1, <2>2
<1>15. ASSUME NEW n \in F PROVE \E i \in DOMAIN v.queue : v.queue[i].id = n
  <2>1. PICK j \in 1 .. Len(order) : order[j] = n
    BY <1>4
  <2>2. /\ Len(rest) + j \in 1 .. Len(rest) + Len(new) /\ ~(Len(rest) + j <= Len(rest))
        /\ (Len(rest) + j) - Len(rest) = j
    BY <1>5, <1>9
  <2>3. v.queue[Len(rest) + j] = new[j]
    BY <1>8, <1>12, <2>2
  <2> QED
    BY <1>7, <1>9, <1>12, <2>1, <2>2, <2>3
<1> QED
  BY <1>1, <1>12, <1>13, <1>14, <1>15 DEF F, d

LEMMA OutAfter ==
  ASSUME NEW E, NEW w \in WalkType, NEW order \in SetToSeqs(Fresh(E, w)),
         NEW v, StepWith(E, w, v, order)
  PROVE  /\ {v.out[i] : i \in DOMAIN v.out}
              = {w.out[i] : i \in DOMAIN w.out} \cup (Fresh(E, w) \cap Listed)
         /\ DOMAIN w.out = 1 .. Len(w.out) /\ Len(w.out) \in Nat /\ DOMAIN v.out \subseteq Nat
         /\ \A i \in DOMAIN v.out :
              IF i <= Len(w.out) THEN i \in DOMAIN w.out /\ v.out[i] = w.out[i]
              ELSE v.out[i] \in Fresh(E, w)
         /\ \A i, j \in DOMAIN v.out :
              ~(i <= Len(w.out)) /\ ~(j <= Len(w.out)) /\ v.out[i] = v.out[j] => i = j
<1> DEFINE F == Fresh(E, w)
           new == Among(order, Listed)
           out == w.out \o new
<1>1. F \subseteq Node
  BY DEF Fresh, NextTo
<1>2. /\ order \in Seq(F)
      /\ {order[i] : i \in DOMAIN order} = F
      /\ \A i, j \in DOMAIN order : order[i] = order[j] => i = j
  BY <1>1, NodeIsFinite, FS_Subset, OrderType
<1>3. /\ new \in Seq(F) /\ new \in Seq(Listed)
      /\ {new[i] : i \in DOMAIN new} = F \cap Listed
  <2>1. order \in Seq(F)
    BY <1>2
  <2>2. new \in Seq(F) /\ new \in Seq(Listed)
    BY <2>1, AmongType
  <2>3. {new[i] : i \in DOMAIN new} = {order[i] : i \in DOMAIN order} \cap Listed
    BY <2>1, AmongMembers
  <2> QED
    BY <1>2, <2>2, <2>3
<1>4. \A i, j \in DOMAIN new : new[i] = new[j] => i = j
  BY <1>2, AmongDistinct
<1>5. w.out \in Seq(Listed) /\ v.out = out
  BY DEF WalkType, StepWith
<1> HIDE DEF F, new
<1>6. /\ out \in Seq(Listed) /\ Len(out) = Len(w.out) + Len(new)
      /\ \A i \in 1 .. Len(w.out) + Len(new) :
           out[i] = IF i <= Len(w.out) THEN w.out[i] ELSE new[i - Len(w.out)]
  BY <1>3, <1>5, ConcatProperties
<1> HIDE DEF out
<1>7. /\ Len(w.out) \in Nat /\ DOMAIN w.out = 1 .. Len(w.out)
      /\ Len(new) \in Nat /\ DOMAIN new = 1 .. Len(new)
      /\ DOMAIN out = 1 .. Len(w.out) + Len(new)
  BY <1>3, <1>5, <1>6, LenProperties
<1>8. ASSUME NEW i \in DOMAIN out, ~(i <= Len(w.out))
      PROVE  i - Len(w.out) \in DOMAIN new /\ out[i] = new[i - Len(w.out)] /\ out[i] \in F
  <2>1. i - Len(w.out) \in DOMAIN new /\ out[i] = new[i - Len(w.out)]
    BY <1>6, <1>7, <1>8
  <2> QED
    BY <1>3, <2>1
<1>9. ASSUME NEW i \in DOMAIN out, i <= Len(w.out)
      PROVE  i \in DOMAIN w.out /\ out[i] = w.out[i]
  BY <1>6, <1>7, <1>9
<1>10. ASSUME NEW i \in DOMAIN w.out PROVE i \in DOMAIN out /\ out[i] = w.out[i]
  <2>1. i \in 1 .. Len(w.out) + Len(new) /\ i <= Len(w.out)
    BY <1>7
  <2> QED
    BY <1>6, <1>7, <2>1
<1>11. ASSUME NEW i \in DOMAIN new
       PROVE  Len(w.out) + i \in DOMAIN out /\ out[Len(w.out) + i] = new[i]
  <2>1. /\ Len(w.out) + i \in 1 .. Len(w.out) + Len(new) /\ ~(Len(w.out) + i <= Len(w.out))
        /\ (Len(w.out) + i) - Len(w.out) = i
    BY <1>7
  <2> QED
    BY <1>6, <1>7, <2>1
<1>12. {out[i] : i \in DOMAIN out} = {w.out[i] : i \in DOMAIN w.out} \cup {new[i] : i \in DOMAIN new}
  BY <1>8, <1>9, <1>10, <1>11
<1>13. ASSUME NEW i \in DOMAIN out, NEW j \in DOMAIN out, ~(i <= Len(w.out)), ~(j <= Len(w.out)),
              out[i] = out[j]
       PROVE  i = j
  <2>1. i - Len(w.out) = j - Len(w.out)
    BY <1>4, <1>8, <1>13
  <2> QED
    BY <1>7, <2>1
<1>14. DOMAIN out \subseteq Nat
  BY <1>7
<1>15. {out[i] : i \in DOMAIN out} = {w.out[i] : i \in DOMAIN w.out} \cup (F \cap Listed)
  BY <1>3, <1>12
<1>16. \A i \in DOMAIN out :
         IF i <= Len(w.out) THEN i \in DOMAIN w.out /\ out[i] = w.out[i] ELSE out[i] \in F
  BY <1>8, <1>9
<1> QED
  BY <1>5, <1>7, <1>13, <1>14, <1>15, <1>16 DEF F

\* What is added is one hop farther than the head of the queue, and no nearer.
LEMMA FreshIsNext ==
  ASSUME NEW E, NEW w, WalkRight(E, w), w.queue # <<>>, NEW n \in Fresh(E, w)
  PROVE  /\ w.queue[1].d + 1 \in 0 .. Depth(w.kind)
         /\ n \in BallOf(E, w, w.queue[1].d + 1)
         /\ \A k \in 0 .. w.queue[1].d : n \notin BallOf(E, w, k)
<1> DEFINE B(x) == BallOf(E, w, x)
           D == Depth(w.kind)
           d == w.queue[1].d
<1>1. w \in WalkType /\ w.kind \in Kinds /\ D \in Nat
  BY DepthType DEF WalkRight, WalkType
<1>2. w.queue \in Seq(Entry) /\ 1 \in DOMAIN w.queue
  <2>1. w.queue \in Seq(Entry)
    BY <1>1 DEF WalkType
  <2> QED
    BY <2>1, EmptySeq, LenProperties
<1>3. EntryRight(E, w, w.queue[1])
  BY <1>2 DEF WalkRight, QueueRight
<1>4. d \in 0 .. D /\ w.queue[1].id \in B(d)
  BY <1>3 DEF EntryRight
<1>5. ~(d >= D) /\ n \in NextTo(E, w.kind, w.queue[1].id) /\ n \notin w.seen
  BY DEF Fresh
<1>6. d + 1 \in 1 .. D /\ (d + 1) - 1 = d
  BY <1>1, <1>4, <1>5
<1>7. B(d + 1) = Grown(E, w.kind, B(d))
  <2>1. d \in Nat
    BY <1>1, <1>4
  <2> HIDE DEF d
  <2> QED
    BY <1>1, <1>6, <2>1, NextBall DEF BallOf
<1>8. B(d) \subseteq w.seen
  BY DEF WalkRight, SeenRight
<1>9. ASSUME NEW k \in 0 .. d PROVE B(k) \subseteq B(d)
  <2>1. k \in 0 .. D /\ d \in k .. D
    BY <1>1, <1>4
  <2> QED
    BY <1>1, <2>1, WithinGrows DEF BallOf
<1> HIDE DEF B, D, d
<1>10. n \in B(d + 1)
  BY <1>4, <1>5, <1>7 DEF Grown
<1>11. \A k \in 0 .. d : n \notin B(k)
  BY <1>5, <1>8, <1>9
<1>12. d + 1 \in 0 .. D
  BY <1>6
<1> QED
  BY <1>10, <1>11, <1>12 DEF B, D, d

LEMMA StepKeepsQueue ==
  ASSUME NEW E, NEW w, WalkRight(E, w), w.queue # <<>>,
         NEW order \in SetToSeqs(Fresh(E, w)), NEW v, StepWith(E, w, v, order)
  PROVE  QueueRight(E, v)
<1> DEFINE B(x) == BallOf(E, w, x)
           D == Depth(w.kind)
           d == w.queue[1].d
           F == Fresh(E, w)
<1>1. w \in WalkType
  BY DEF WalkRight
<1>2. /\ v.kind = w.kind /\ v.start = w.start /\ v.seen = w.seen \cup F /\ v \in WalkType
      /\ \A i \in DOMAIN v.queue :
           \/ i + 1 \in DOMAIN w.queue /\ v.queue[i] = w.queue[i + 1]
           \/ i >= Len(w.queue) /\ v.queue[i].id \in F /\ v.queue[i].d = d + 1
  BY <1>1, QueueAfter
<1>3. (\A x : BallOf(E, v, x) = B(x)) /\ Depth(v.kind) = D
  BY <1>2 DEF BallOf
<1>4. \A n \in F : d + 1 \in 0 .. D /\ n \in B(d + 1) /\ \A k \in 0 .. d : n \notin B(k)
  BY FreshIsNext
<1>5. /\ DOMAIN w.queue = 1 .. Len(w.queue) /\ Len(w.queue) \in Nat \ {0}
      /\ DOMAIN v.queue \subseteq Nat \ {0}
  <2>1. w.queue \in Seq(Entry) /\ v.queue \in Seq(Entry)
    BY <1>1, <1>2 DEF WalkType
  <2> QED
    BY <2>1, EmptySeq, LenProperties
<1>6. /\ \A i \in DOMAIN w.queue : EntryRight(E, w, w.queue[i])
      /\ \A i, j \in DOMAIN w.queue :
           i < j => w.queue[i].d <= w.queue[j].d /\ w.queue[j].d <= w.queue[i].d + 1
  BY DEF WalkRight, QueueRight
<1>7. \A i \in DOMAIN w.queue : w.queue[i].d \in Nat
  BY <1>6 DEF EntryRight
<1>8. 1 \in DOMAIN w.queue /\ d \in Nat
  BY <1>5, <1>7
<1> HIDE DEF B, D, F, d
<1>9. ASSUME NEW i \in DOMAIN v.queue PROVE EntryRight(E, v, v.queue[i])
  <2>1. CASE i + 1 \in DOMAIN w.queue /\ v.queue[i] = w.queue[i + 1]
    <3>1. EntryRight(E, w, w.queue[i + 1])
      BY <1>6, <2>1
    <3> QED
      BY <1>2, <1>3, <2>1, <3>1 DEF EntryRight, B, D
  <2>2. CASE v.queue[i].id \in F /\ v.queue[i].d = d + 1
    <3>1. 0 .. (d + 1) - 1 = 0 .. d
      BY <1>8
    <3> QED
      BY <1>2, <1>3, <1>4, <2>2, <3>1 DEF EntryRight
  <2> QED
    BY <1>2, <2>1, <2>2
<1>10. ASSUME NEW i \in DOMAIN v.queue, NEW j \in DOMAIN v.queue, i < j
       PROVE  v.queue[i].d <= v.queue[j].d /\ v.queue[j].d <= v.queue[i].d + 1
  <2>0. i \in Nat \ {0} /\ j \in Nat \ {0}
    BY <1>5
  <2>1. CASE /\ i + 1 \in DOMAIN w.queue /\ v.queue[i] = w.queue[i + 1]
             /\ j + 1 \in DOMAIN w.queue /\ v.queue[j] = w.queue[j + 1]
    <3>1. i + 1 < j + 1
      BY <1>10, <2>0
    <3> QED
      BY <1>6, <2>1, <3>1
  <2>2. CASE /\ i + 1 \in DOMAIN w.queue /\ v.queue[i] = w.queue[i + 1]
             /\ v.queue[j].d = d + 1
    <3>1. 1 < i + 1
      BY <2>0
    <3>2. d <= w.queue[i + 1].d /\ w.queue[i + 1].d <= d + 1
      BY <1>6, <1>8, <2>2, <3>1 DEF d
    <3>3. w.queue[i + 1].d \in Nat
      BY <1>7, <2>2
    <3> QED
      BY <1>8, <2>2, <3>2, <3>3
  <2>3. CASE v.queue[i].d = d + 1 /\ v.queue[j].d = d + 1
    BY <1>8, <2>3
  <2>4. CASE i >= Len(w.queue) /\ j + 1 \in DOMAIN w.queue
    BY <1>5, <1>10, <2>0, <2>4
  <2> QED
    BY <1>2, <2>1, <2>2, <2>3, <2>4
<1> QED
  BY <1>9, <1>10 DEF QueueRight

LEMMA StepKeepsDone ==
  ASSUME NEW E, NEW w, WalkRight(E, w), w.queue # <<>>,
         NEW order \in SetToSeqs(Fresh(E, w)), NEW v, StepWith(E, w, v, order)
  PROVE  DoneRight(E, v)
<1> DEFINE B(x) == BallOf(E, w, x)
           D == Depth(w.kind)
           F == Fresh(E, w)
<1>1. w \in WalkType
  BY DEF WalkRight
<1>2. /\ v.kind = w.kind /\ v.start = w.start /\ v.seen = w.seen \cup F
      /\ \A i \in DOMAIN w.queue : i # 1 => i - 1 \in DOMAIN v.queue /\ v.queue[i - 1] = w.queue[i]
      /\ \A n \in F : \E i \in DOMAIN v.queue : v.queue[i].id = n
  BY <1>1, QueueAfter
<1>3. (\A x : BallOf(E, v, x) = B(x)) /\ Depth(v.kind) = D
  BY <1>2 DEF BallOf
<1>4. w.kind \in Kinds /\ D \in Nat
  BY <1>1, DepthType DEF WalkType
<1> SUFFICES ASSUME NEW k \in 0 .. D - 1, NEW n \in v.seen \cap B(k)
             PROVE  \/ \E i \in DOMAIN v.queue : v.queue[i].id = n
                    \/ NextTo(E, w.kind, n) \subseteq v.seen
  BY <1>2, <1>3 DEF DoneRight
<1>5. CASE n \in F
  BY <1>2, <1>5
<1>6. CASE n \in w.seen
  <2>1. (\E i \in DOMAIN w.queue : w.queue[i].id = n) \/ NextTo(E, w.kind, n) \subseteq w.seen
    BY <1>6 DEF WalkRight, DoneRight
  <2>2. CASE NextTo(E, w.kind, n) \subseteq w.seen
    BY <1>2, <2>2
  <2>3. ASSUME NEW i \in DOMAIN w.queue, w.queue[i].id = n, i # 1
        PROVE  \E j \in DOMAIN v.queue : v.queue[j].id = n
    BY <1>2, <2>3
  <2>4. CASE 1 \in DOMAIN w.queue /\ w.queue[1].id = n
    <3>1. EntryRight(E, w, w.queue[1])
      BY <2>4 DEF WalkRight, QueueRight
    <3>2. ~(k < w.queue[1].d) /\ w.queue[1].d \in Nat
      <4>1. w.queue[1].d \in 0 .. D /\ \A l \in 0 .. w.queue[1].d - 1 : n \notin B(l)
        BY <2>4, <3>1 DEF EntryRight
      <4> QED
        BY <1>4, <4>1
    <3>3. ~(w.queue[1].d >= D)
      BY <1>4, <3>2
    <3>4. F = NextTo(E, w.kind, n) \ w.seen
      BY <2>4, <3>3 DEF Fresh
    <3> QED
      BY <1>2, <3>4
  <2> QED
    BY <2>1, <2>2, <2>3, <2>4
<1> QED
  BY <1>2, <1>5, <1>6

LEMMA StepKeepsSeen ==
  ASSUME NEW E, NEW w, WalkRight(E, w), w.queue # <<>>,
         NEW order \in SetToSeqs(Fresh(E, w)), NEW v, StepWith(E, w, v, order),
         QueueRight(E, v), DoneRight(E, v)
  PROVE  SeenRight(E, v)
<1> DEFINE B(x) == BallOf(E, w, x)
           D == Depth(w.kind)
           d == w.queue[1].d
           F == Fresh(E, w)
<1>1. w \in WalkType /\ w.kind \in Kinds /\ D \in Nat
  BY DepthType DEF WalkRight, WalkType
<1>2. /\ v.kind = w.kind /\ v.start = w.start /\ v.seen = w.seen \cup F /\ v \in WalkType
      /\ \A i \in DOMAIN v.queue :
           \/ i + 1 \in DOMAIN w.queue /\ v.queue[i] = w.queue[i + 1]
           \/ i >= Len(w.queue) /\ v.queue[i].id \in F /\ v.queue[i].d = d + 1
  BY <1>1, QueueAfter
<1>3. (\A x : BallOf(E, v, x) = B(x)) /\ Depth(v.kind) = D
  BY <1>2 DEF BallOf
<1>4. \A n \in F : d + 1 \in 0 .. D /\ n \in B(d + 1)
  BY FreshIsNext
<1>5. /\ w.start \in w.seen /\ w.seen \subseteq B(D) /\ B(d) \subseteq w.seen
      /\ \A k \in 0 .. D : d < k => w.seen \subseteq B(k)
  BY DEF WalkRight, SeenRight
<1>6. 1 \in DOMAIN w.queue /\ EntryRight(E, w, w.queue[1]) /\ d \in 0 .. D
  <2>1. 1 \in DOMAIN w.queue
    <3>1. w.queue \in Seq(Entry)
      BY <1>1 DEF WalkType
    <3> QED
      BY <3>1, EmptySeq, LenProperties
  <2>2. EntryRight(E, w, w.queue[1])
    BY <2>1 DEF WalkRight, QueueRight
  <2> QED
    BY <2>1, <2>2 DEF EntryRight
<1>7. ASSUME NEW k \in 0 .. D, d < k PROVE F \subseteq B(k)
  <2> SUFFICES ASSUME NEW n \in F PROVE n \in B(k)
    OBVIOUS
  <2>1. d + 1 \in 0 .. D /\ k \in d + 1 .. D /\ n \in B(d + 1)
    BY <1>1, <1>4, <1>6, <1>7
  <2>2. B(d + 1) \subseteq B(k)
    BY <1>1, <2>1, WithinGrows DEF BallOf
  <2> QED
    BY <2>1, <2>2
<1>8. v.seen \subseteq B(D)
  <2> SUFFICES ASSUME NEW n \in F PROVE n \in B(D)
    BY <1>2, <1>5
  <2>1. D \in 0 .. D /\ d < D
    BY <1>1, <1>4, <1>6
  <2> QED
    BY <1>7, <2>1
<1>9. ASSUME v.queue # <<>>
      PROVE  /\ B(v.queue[1].d) \subseteq v.seen
             /\ \A k \in 0 .. D : v.queue[1].d < k => v.seen \subseteq B(k)
  <2> DEFINE e == v.queue[1].d
  <2>1. 1 \in DOMAIN v.queue /\ DOMAIN v.queue \subseteq Nat
    <3>1. v.queue \in Seq(Entry)
      BY <1>2 DEF WalkType
    <3> QED
      BY <1>9, <3>1, EmptySeq, LenProperties
  <2>2. e \in 0 .. D
    <3>1. EntryRight(E, v, v.queue[1])
      BY <2>1 DEF QueueRight
    <3> QED
      BY <1>3, <3>1 DEF EntryRight
  <2>3. e = d \/ e = d + 1
    <3>1. CASE 2 \in DOMAIN w.queue /\ v.queue[1] = w.queue[2]
      <4>1. d <= w.queue[2].d /\ w.queue[2].d <= d + 1
        BY <1>6, <3>1 DEF WalkRight, QueueRight
      <4> QED
        BY <1>1, <1>6, <2>2, <3>1, <4>1
    <3> QED
      BY <1>2, <2>1, <3>1
  <2> HIDE DEF e, d, D, F
  <2>4. B(e) \subseteq v.seen
    <3>1. CASE e = d
      BY <1>2, <1>5, <3>1
    <3>2. CASE e = d + 1
      <4>1. d \in Nat /\ d + 1 \in 1 .. D /\ d \in 0 .. D - 1
        BY <1>1, <1>6, <2>2, <3>2
      <4>2. B(d + 1) = Grown(E, w.kind, B(d))
        BY <1>1, <4>1, NextBall DEF BallOf, D
      <4>3. ASSUME NEW n \in B(d) PROVE NextTo(E, w.kind, n) \subseteq v.seen
        <5>1. n \in v.seen \cap BallOf(E, v, d)
          BY <1>2, <1>3, <1>5
        <5>2. (\E i \in DOMAIN v.queue : v.queue[i].id = n) \/ NextTo(E, w.kind, n) \subseteq v.seen
          BY <1>2, <1>3, <4>1, <5>1 DEF DoneRight
        <5>3. ASSUME NEW i \in DOMAIN v.queue PROVE v.queue[i].id # n
          <6>1. EntryRight(E, v, v.queue[i])
            BY DEF QueueRight
          <6>2. e <= v.queue[i].d
            <7>1. i = 1 \/ 1 < i
              BY <2>1, <5>3, LenProperties, <1>2 DEF WalkType
            <7>2. CASE i = 1
              BY <2>2, <7>2 DEF e
            <7>3. CASE 1 < i
              BY <2>1, <7>3 DEF QueueRight, e
            <7> QED
              BY <7>1, <7>2, <7>3
          <6>3. v.queue[i].d \in Nat
            BY <6>1 DEF EntryRight
          <6>4. d \in 0 .. v.queue[i].d - 1
            BY <3>2, <4>1, <6>2, <6>3
          <6> QED
            BY <1>3, <6>1, <6>4 DEF EntryRight
        <5> QED
          BY <5>2, <5>3
      <4> QED
        BY <1>2, <1>5, <3>2, <4>2, <4>3 DEF Grown
    <3> QED
      BY <2>3, <3>1, <3>2
  <2>5. ASSUME NEW k \in 0 .. D, e < k PROVE v.seen \subseteq B(k)
    <3>1. d < k
      BY <1>1, <1>6, <2>2, <2>3, <2>5
    <3> QED
      BY <1>2, <1>5, <1>7, <3>1
  <2> QED
    BY <2>4, <2>5 DEF e
<1> QED
  BY <1>2, <1>3, <1>5, <1>8, <1>9 DEF SeenRight

LEMMA StepKeepsOut ==
  ASSUME NEW E, NEW w, WalkRight(E, w), w.queue # <<>>,
         NEW order \in SetToSeqs(Fresh(E, w)), NEW v, StepWith(E, w, v, order)
  PROVE  OutRight(E, v)
<1> DEFINE B(x) == BallOf(E, w, x)
           D == Depth(w.kind)
           d == w.queue[1].d
           F == Fresh(E, w)
           old == {w.out[i] : i \in DOMAIN w.out}
           m == Len(w.out)
<1>1. w \in WalkType /\ w.kind \in Kinds /\ D \in Nat
  BY DepthType DEF WalkRight, WalkType
<1>2. v.kind = w.kind /\ v.start = w.start /\ v.seen = w.seen \cup F /\ F \subseteq Node \ w.seen
  BY <1>1, QueueAfter
<1>3. (\A x : BallOf(E, v, x) = B(x)) /\ Depth(v.kind) = D
  BY <1>2 DEF BallOf
<1>4. \A n \in F : d + 1 \in 0 .. D /\ n \in B(d + 1) /\ \A k \in 0 .. d : n \notin B(k)
  BY FreshIsNext
<1>5. w.start \in w.seen /\ \A k \in 0 .. D : d < k => w.seen \subseteq B(k)
  BY DEF WalkRight, SeenRight
<1>6. /\ old = (w.seen \cap Listed) \ {w.start}
      /\ \A i, j \in DOMAIN w.out : w.out[i] = w.out[j] => i = j
      /\ \A k \in 0 .. D : \A i, j \in DOMAIN w.out :
           i < j /\ w.out[j] \in B(k) => w.out[i] \in B(k)
  BY DEF WalkRight, OutRight
<1>7. d \in Nat
  <2>1. 1 \in DOMAIN w.queue
    <3>1. w.queue \in Seq(Entry)
      BY <1>1 DEF WalkType
    <3> QED
      BY <3>1, EmptySeq, LenProperties
  <2>2. EntryRight(E, w, w.queue[1])
    BY <2>1 DEF WalkRight, QueueRight
  <2> QED
    BY <2>2 DEF EntryRight
<1> HIDE DEF B, D, d, F, old, m
<1>8. /\ {v.out[i] : i \in DOMAIN v.out} = old \cup (F \cap Listed)
      /\ m \in Nat /\ DOMAIN v.out \subseteq Nat
      /\ \A i \in DOMAIN v.out :
           IF i <= m THEN i \in DOMAIN w.out /\ v.out[i] = w.out[i] ELSE v.out[i] \in F
      /\ \A i, j \in DOMAIN v.out : ~(i <= m) /\ ~(j <= m) /\ v.out[i] = v.out[j] => i = j
  <2>1. {v.out[i] : i \in DOMAIN v.out} = old \cup (F \cap Listed)
    BY <1>1, OutAfter DEF old, F
  <2>2. m \in Nat /\ DOMAIN v.out \subseteq Nat
    BY <1>1, OutAfter DEF m
  <2>3. \A i \in DOMAIN v.out :
          IF i <= m THEN i \in DOMAIN w.out /\ v.out[i] = w.out[i] ELSE v.out[i] \in F
    BY <1>1, OutAfter DEF m, F
  <2>4. \A i, j \in DOMAIN v.out : ~(i <= m) /\ ~(j <= m) /\ v.out[i] = v.out[j] => i = j
    BY <1>1, OutAfter DEF m
  <2> QED
    BY <2>1, <2>2, <2>3, <2>4
<1>9. \A i \in DOMAIN w.out : w.out[i] \in w.seen
  BY <1>6 DEF old
<1>10. {v.out[i] : i \in DOMAIN v.out} = (v.seen \cap Listed) \ {v.start}
  BY <1>2, <1>5, <1>6, <1>8
<1>11. ASSUME NEW i \in DOMAIN v.out, NEW j \in DOMAIN v.out, v.out[i] = v.out[j] PROVE i = j
  BY <1>2, <1>6, <1>8, <1>9, <1>11
<1>12. ASSUME NEW k \in 0 .. D, NEW i \in DOMAIN v.out, NEW j \in DOMAIN v.out, i < j,
              v.out[j] \in B(k)
       PROVE  v.out[i] \in B(k)
  <2>1. CASE j <= m
    <3>1. i <= m
      BY <1>8, <1>12, <2>1
    <3> QED
      BY <1>6, <1>8, <1>12, <2>1, <3>1
  <2>2. CASE ~(j <= m)
    <3>1. v.out[j] \in F /\ d + 1 \in 0 .. D
      BY <1>4, <1>8, <2>2
    <3>2. d < k
      BY <1>1, <1>4, <1>7, <1>12, <3>1 DEF D
    <3>3. CASE i <= m
      BY <1>5, <1>8, <1>9, <3>2, <3>3
    <3>4. CASE ~(i <= m)
      <4>1. v.out[i] \in B(d + 1)
        BY <1>4, <1>8, <3>4
      <4>2. k \in d + 1 .. D
        BY <1>1, <1>7, <3>2
      <4>3. B(d + 1) \subseteq B(k)
        BY <1>1, <3>1, <4>2, WithinGrows DEF B, BallOf, D
      <4> QED
        BY <4>1, <4>3
    <3> QED
      BY <3>3, <3>4
  <2> QED
    BY <2>1, <2>2
<1> QED
  BY <1>3, <1>10, <1>11, <1>12 DEF OutRight, B, D

\* A step keeps the walk right.
LEMMA WalkSteps ==
  ASSUME NEW E, NEW w, WalkRight(E, w), w.queue # <<>>,
         NEW order \in SetToSeqs(Fresh(E, w)), NEW v, StepWith(E, w, v, order)
  PROVE  WalkRight(E, v)
<1>1. w \in WalkType
  BY DEF WalkRight
<1>2. v \in WalkType
  BY <1>1, QueueAfter
<1>3. QueueRight(E, v) /\ DoneRight(E, v) /\ OutRight(E, v)
  BY StepKeepsQueue, StepKeepsDone, StepKeepsOut
<1>4. SeenRight(E, v)
  BY <1>3, StepKeepsSeen
<1> QED
  BY <1>2, <1>3, <1>4 DEF WalkRight

\* What a finished walk has seen.
LEMMA WalkEnds ==
  ASSUME NEW E, NEW w, WalkRight(E, w), w.queue = <<>>
  PROVE  w.seen = BallOf(E, w, Depth(w.kind))
<1>1. w.kind \in Kinds
  BY DEF WalkRight, WalkType
<1>2. DOMAIN w.queue = {}
  OBVIOUS
<1>3. \A k \in 0 .. Depth(w.kind) - 1 : \A n \in BallOf(E, w, k) \cap w.seen :
        NextTo(E, w.kind, n) \subseteq w.seen
  BY <1>2 DEF WalkRight, DoneRight
<1>4. w.start \in w.seen /\ w.seen \subseteq BallOf(E, w, Depth(w.kind))
  BY DEF WalkRight, SeenRight
<1>5. BallOf(E, w, Depth(w.kind)) \subseteq w.seen
  BY <1>1, <1>3, <1>4, WithinIsLeast DEF BallOf
<1> QED
  BY <1>4, <1>5

-----------------------------------------------------------------------------
(***************************************************************************)
(* The steps of the run, as far as the context goes.                       *)
(***************************************************************************)
Candidate == [file : File, strength : {"high", "medium"}]

WalkInv == walk = NoWalk \/ WalkRight(edges, walk)

\* A walk is under way only where there is one to make, and then in the right graph.
StageOfWalk ==
  /\ stage \notin {"collecting", "blast"} => walk = NoWalk
  /\ stage = "collecting" /\ walk # NoWalk => seeds # <<>>

\* The files of the frames are the first candidates, and strong ones.
FramesLead ==
  stage \in {"collecting", "found"} =>
    \E more \in Seq(Candidate) : candidates = Rated(frames, "high") \o more

ContextInv ==
  /\ stage \in Stages
  /\ edges \subseteq Node \X Node
  /\ WalkInv
  /\ StageOfWalk
  /\ frames \in Seq(File) /\ seeds \in Seq(File)
  /\ candidates \in Seq(Candidate)
  /\ FramesLead
  /\ bundle \in [files : Seq(File \ (Denied \cup Gone)), redacted : BOOLEAN,
                texts : {"redacted", "partly", "raw"}]
  /\ bundle.redacted => bundle.texts # "raw"

-----------------------------------------------------------------------------
LEMMA FileIdIsNode == ASSUME NEW f \in File PROVE FileId(f) \in Node
  BY DEF File, Node, Listed

LEMMA BuiltGraphType ==
  ASSUME NEW project \in Projects
  PROVE  BuiltGraph(project) \subseteq Node \X Node
<1>1. /\ project.imports \subseteq CodeFile \X (CodeFile \cup OtherFile)
      /\ project.requires \subseteq CodeFile \X Package
      /\ project.handles \subseteq Route \X (CodeFile \cup OtherFile)
  BY ProjectAssumption
<1>2. Imports(project) \subseteq Node \X Node
  BY <1>1 DEF Imports, Node, Listed
<1>3. DependsOn(project) \subseteq Node \X Node
  BY <1>1 DEF DependsOn, Node, Listed
<1>4. HandledBy(project) \subseteq Node \X Node
  BY <1>1 DEF HandledBy, Node, Listed
<1>5. Tests(project) \subseteq Node \X Node
  BY <1>1 DEF Tests, Node, Listed
<1> QED
  BY <1>2, <1>3, <1>4, <1>5 DEF BuiltGraph

LEMMA ResolvedType ==
  ASSUME NEW trace \in FrameLists
  PROVE  Resolved(trace) \in Seq(File)
<1> DEFINE files == [i \in DOMAIN trace |-> ResolveFile[trace[i]]]
           P == {i \in DOMAIN files :
                   files[i] # NoFile /\ \A j \in 1 .. i - 1 : files[j] # files[i]}
<1>1. trace \in Seq(Frame) /\ ResolveFile \in [Frame -> (File \ Gone) \cup {NoFile}]
  BY ContextAssumption
<1>2. /\ Len(trace) \in Nat /\ DOMAIN trace = 1 .. Len(trace)
      /\ \A i \in 1 .. Len(trace) : trace[i] \in Frame
  BY <1>1, LenProperties
<1>3. \A i \in 1 .. Len(trace) : ResolveFile[trace[i]] \in File \cup {NoFile}
  BY <1>1, <1>2
<1>4. files \in Seq(File \cup {NoFile})
  BY <1>2, <1>3
<1>5. P \in SUBSET (DOMAIN files)
  OBVIOUS
<1>6. {files[p] : p \in P} \subseteq File
  BY <1>2, <1>3
<1> HIDE DEF files, P
<1>7. Selected(files, P) \in Seq({files[p] : p \in P})
  BY <1>4, <1>5, SelectedType
<1>8. Selected(files, P) \in Seq(File)
  BY <1>6, <1>7, SeqMonotonic
<1> QED
  BY <1>8 DEF Resolved, files, P

LEMMA RatedType ==
  ASSUME NEW files \in Seq(File), NEW strength \in {"high", "medium"}
  PROVE  /\ Rated(files, strength) \in Seq(Candidate)
         /\ Len(Rated(files, strength)) = Len(files)
         /\ DOMAIN Rated(files, strength) = DOMAIN files
         /\ \A i \in DOMAIN files :
              /\ Rated(files, strength)[i].file = files[i]
              /\ Rated(files, strength)[i].strength = strength
<1>1. /\ Len(files) \in Nat /\ DOMAIN files = 1 .. Len(files)
      /\ \A i \in 1 .. Len(files) : files[i] \in File
  BY LenProperties
<1> QED
  BY <1>1 DEF Rated, Candidate

LEMMA NearIsFile ==
  ASSUME NEW n \in Listed, IsNear(n)
  PROVE  LabelOf(n) \in File
  BY DEF Listed, IsNear, TypeOf, LabelOf, FileId, TestId, PackageId, RouteId, File

\* More candidates come after those that are there.
LEMMA CandidatesGrow ==
  ASSUME ContextInv, stage = "collecting", NEW files \in Seq(File),
         NEW strength \in {"high", "medium"},
         candidates' = candidates \o Rated(files, strength), frames' = frames
  PROVE  candidates' \in Seq(Candidate) /\ FramesLead'
<1>1. candidates \in Seq(Candidate) /\ Rated(files, strength) \in Seq(Candidate)
  BY RatedType DEF ContextInv
<1>2. candidates' \in Seq(Candidate)
  BY <1>1, ConcatProperties
<1>3. PICK more \in Seq(Candidate) : candidates = Rated(frames, "high") \o more
  BY DEF ContextInv, FramesLead
<1>4. Rated(frames, "high") \in Seq(Candidate)
  BY RatedType DEF ContextInv
<1>5. candidates' = Rated(frames, "high") \o (more \o Rated(files, strength))
  BY <1>1, <1>3, <1>4, ConcatAssociative
<1>6. more \o Rated(files, strength) \in Seq(Candidate)
  BY <1>1, <1>3, ConcatProperties
<1>7. Rated(frames', "high") = Rated(frames, "high")
  OBVIOUS
<1> QED
  BY <1>2, <1>5, <1>6, <1>7 DEF FramesLead

\* Which candidates come first, when they begin with the files of the frames.
LEMMA OrderedType ==
  ASSUME ContextInv, stage = "found"
  PROVE  /\ Ordered \in Seq(File)
         /\ \E more \in Seq(File) : Ordered = frames \o more
<1> DEFINE H == [file : File, strength : {"high"}]
           M == [file : File, strength : {"medium"}]
           lead == Rated(frames, "high")
<1>1. frames \in Seq(File) /\ candidates \in Seq(Candidate)
  BY DEF ContextInv
<1>2. /\ lead \in Seq(Candidate) /\ Len(lead) = Len(frames) /\ DOMAIN lead = DOMAIN frames
      /\ \A i \in DOMAIN frames : lead[i].file = frames[i] /\ lead[i].strength = "high"
  BY <1>1, RatedType
<1>3. PICK more \in Seq(Candidate) : candidates = lead \o more
  BY DEF ContextInv, FramesLead
<1>4. DOMAIN frames = 1 .. Len(frames) /\ Len(frames) \in Nat
  BY <1>1, LenProperties
<1>5. \A i \in DOMAIN lead : lead[i] \in H
  <2>1. \A i \in DOMAIN lead : lead[i] \in Candidate
    BY <1>2, LenProperties
  <2> QED
    BY <1>2, <2>1 DEF Candidate
<1> HIDE DEF H, M, lead
<1>6. /\ Among(more, H) \in Seq(Candidate) /\ Among(candidates, M) \in Seq(Candidate)
      /\ Among(candidates, H) = lead \o Among(more, H)
  <2>1. Among(candidates, H) = Among(lead, H) \o Among(more, H)
    BY <1>2, <1>3, AmongConcat
  <2>2. Among(lead, H) = lead
    BY <1>2, <1>5, AmongAll
  <2> QED
    BY <1>1, <1>3, <2>1, <2>2, AmongType
<1> DEFINE rest == Among(more, H) \o Among(candidates, M)
           all == Among(candidates, H) \o Among(candidates, M)
<1>7. rest \in Seq(Candidate) /\ all = lead \o rest
  BY <1>2, <1>6, ConcatProperties, ConcatAssociative
<1>8. Ordered = [i \in DOMAIN all |-> all[i].file]
  BY DEF Ordered, H, M
<1> HIDE DEF rest, all
<1> DEFINE tail == [i \in DOMAIN rest |-> rest[i].file]
<1>9. /\ all \in Seq(Candidate) /\ Len(all) = Len(lead) + Len(rest)
      /\ \A i \in 1 .. Len(lead) + Len(rest) :
           all[i] = IF i <= Len(lead) THEN lead[i] ELSE rest[i - Len(lead)]
  <2>1. lead \in Seq(Candidate) /\ rest \in Seq(Candidate)
    BY <1>2, <1>7
  <2>2. /\ lead \o rest \in Seq(Candidate) /\ Len(lead \o rest) = Len(lead) + Len(rest)
        /\ \A i \in 1 .. Len(lead) + Len(rest) :
             (lead \o rest)[i] = IF i <= Len(lead) THEN lead[i] ELSE rest[i - Len(lead)]
    BY <2>1, ConcatProperties
  <2> QED
    BY <1>7, <2>2
<1>10. /\ Len(rest) \in Nat /\ DOMAIN rest = 1 .. Len(rest)
       /\ \A i \in 1 .. Len(rest) : rest[i] \in Candidate
  BY <1>7, LenProperties
<1>11. tail \in Seq(File) /\ Len(tail) = Len(rest) /\ \A i \in 1 .. Len(rest) : tail[i] = rest[i].file
  BY <1>10 DEF Candidate
<1> HIDE DEF tail
<1>12. /\ frames \o tail \in Seq(File) /\ Len(frames \o tail) = Len(frames) + Len(tail)
       /\ \A i \in 1 .. Len(frames) + Len(tail) :
            (frames \o tail)[i] = IF i <= Len(frames) THEN frames[i] ELSE tail[i - Len(frames)]
  BY <1>1, <1>11, ConcatProperties
<1>13. /\ Ordered \in Seq(File) /\ Len(Ordered) = Len(all)
       /\ \A i \in 1 .. Len(all) : Ordered[i] = all[i].file
  <2>1. /\ Len(all) \in Nat /\ DOMAIN all = 1 .. Len(all)
        /\ \A i \in 1 .. Len(all) : all[i] \in Candidate
    BY <1>9, LenProperties
  <2> QED
    BY <1>8, <2>1 DEF Candidate
<1>14. ASSUME NEW i \in 1 .. Len(Ordered) PROVE Ordered[i] = (frames \o tail)[i]
  <2>1. i \in 1 .. Len(lead) + Len(rest) /\ Len(lead) = Len(frames) /\ Len(tail) = Len(rest)
    BY <1>2, <1>9, <1>11, <1>13
  <2>2. CASE i <= Len(frames)
    <3>1. i \in DOMAIN frames
      BY <1>4, <2>1, <2>2
    <3>2. lead[i].file = frames[i]
      BY <1>2, <3>1
    <3> QED
      BY <1>9, <1>12, <1>13, <2>1, <2>2, <3>2
  <2>3. CASE ~(i <= Len(frames))
    <3>1. i - Len(frames) \in 1 .. Len(rest)
      BY <1>4, <1>10, <2>1, <2>3
    <3>2. tail[i - Len(frames)] = rest[i - Len(frames)].file
      BY <1>11, <3>1
    <3> QED
      BY <1>9, <1>12, <1>13, <2>1, <2>3, <3>2
  <2> QED
    BY <2>2, <2>3
<1>15. Len(Ordered) = Len(frames \o tail)
  BY <1>2, <1>9, <1>11, <1>12, <1>13
<1>16. Ordered = frames \o tail
  BY <1>12, <1>13, <1>14, <1>15, SeqEqual
<1> QED
  BY <1>11, <1>13, <1>16

LEMMA CappedType ==
  ASSUME NEW files \in Seq(File)
  PROVE  /\ Capped(files) \in Seq(File)
         /\ Extends(File, files, Capped(files))
         /\ Len(files) > MaxContextFiles => Len(Capped(files)) = MaxContextFiles
<1>1. /\ Len(files) \in Nat /\ MaxContextFiles \in Nat
      /\ \A i \in 1 .. Len(files) : files[i] \in File
  BY LenProperties, ContextAssumption
<1>2. CASE Len(files) <= MaxContextFiles
  <2>1. Capped(files) = files
    BY <1>2 DEF Capped
  <2>2. Extends(File, files, files)
    <3>1. files = files \o <<>> /\ <<>> \in Seq(File)
      BY ConcatEmptySeq
    <3> QED
      BY <3>1 DEF Extends
  <2>3. ~(Len(files) > MaxContextFiles)
    BY <1>1, <1>2
  <2> QED
    BY <2>1, <2>2, <2>3
<1>3. CASE Len(files) > MaxContextFiles
  <2>1. MaxContextFiles \in 0 .. Len(files)
    BY <1>1, <1>3
  <2>2. Capped(files) = SubSeq(files, 1, MaxContextFiles)
    BY <1>1, <1>3 DEF Capped
  <2> QED
    <3> DEFINE kept == SubSeq(files, 1, MaxContextFiles)
    <3>1. kept \in Seq(File) /\ Len(kept) = MaxContextFiles
      BY <2>1, CutInTwo
    <3>2. Extends(File, files, kept)
      BY <2>1, CutInTwo
    <3> QED
      BY <2>2, <3>1, <3>2
<1> QED
  BY <1>1, <1>2, <1>3

-----------------------------------------------------------------------------
LEMMA ContextInvInit == Init => ContextInv
<1> SUFFICES ASSUME Init PROVE ContextInv
  OBVIOUS
<1>1. \A S : <<>> \in Seq(S)
  OBVIOUS
<1> QED
  BY <1>1 DEF Init, ContextInit, ContextInv, Stages, WalkInv, StageOfWalk, FramesLead, NoBundle

LEMMA BeginKeepsWalkInv ==
  ASSUME NEW kind \in Kinds, NEW start \in Node, BeginWalk(kind, start)
  PROVE  WalkRight(edges', walk')
<1>1. WalkRight(edges', [kind |-> kind, start |-> start, seen |-> {start},
                         queue |-> <<FirstEntry(start)>>, out |-> <<>>])
  BY WalkBegins
<1> QED
  BY <1>1 DEF BeginWalk, FirstEntry

LEMMA DequeueKeepsWalkInv ==
  ASSUME WalkInv, Dequeue
  PROVE  WalkRight(edges', walk') /\ edges' = edges /\ walk # NoWalk
<1>1. walk.queue # <<>> /\ edges' = edges
  BY DEF Dequeue, Walking
<1>2. walk # NoWalk
  BY <1>1 DEF NoWalk
<1>3. WalkRight(edges, walk)
  BY <1>2 DEF WalkInv
<1>4. walk.queue \in Seq(Entry) /\ Head(walk.queue) = walk.queue[1]
  BY <1>3 DEF WalkRight, WalkType
<1>5. (IF TooFar(Head(walk.queue)) THEN {}
       ELSE Adjacent(walk.kind, Head(walk.queue).id) \ walk.seen) = Fresh(edges, walk)
  BY <1>4 DEF TooFar, Adjacent, NextTo, Fresh
<1>6. PICK order \in SetToSeqs(Fresh(edges, walk)) :
        walk' = [walk EXCEPT
          !.seen  = @ \cup Fresh(edges, walk),
          !.queue = Enqueued(Tail(@), [i \in DOMAIN order |->
                                         [id |-> order[i], d |-> Head(walk.queue).d + 1]]),
          !.out   = @ \o Among(order, Listed)]
  BY <1>5 DEF Dequeue
<1>7. StepWith(edges, walk, walk', order)
  BY <1>4, <1>6 DEF StepWith
<1>8. WalkRight(edges, walk')
  BY <1>1, <1>3, <1>7, WalkSteps
<1> QED
  BY <1>1, <1>2, <1>8

LEMMA ContextKeepsContextInv ==
  ASSUME ContextInv, BuildContext \/ WalkOn
  PROVE  ContextInv'
<1>1. CASE CollectFrames
  <2>1. PICK trace \in FrameLists : frames' = Resolved(trace)
    BY <1>1 DEF CollectFrames
  <2>2. frames' \in Seq(File)
    BY <2>1, ResolvedType
  <2>3. candidates' = Rated(frames', "high") /\ candidates' \in Seq(Candidate)
    BY <1>1, <2>2, RatedType DEF CollectFrames
  <2>4. edges' \subseteq Node \X Node /\ seeds' \in Seq(File)
    <3>1. Seeds(frames') \in Seq(File) /\ <<>> \in Seq(File)
      BY <2>2, AmongType DEF Seeds
    <3> QED
      BY <1>1, <3>1, BuiltGraphType DEF CollectFrames
  <2>5. walk' = NoWalk /\ stage' = "collecting" /\ bundle' = bundle
    BY <1>1 DEF CollectFrames, ContextInv, StageOfWalk
  <2>6. FramesLead'
    <3>1. candidates' = Rated(frames', "high") \o <<>> /\ <<>> \in Seq(Candidate)
      BY <2>3, ConcatEmptySeq
    <3> QED
      BY <3>1 DEF FramesLead
  <2> QED
    BY <2>2, <2>3, <2>4, <2>5, <2>6 DEF ContextInv, WalkInv, StageOfWalk, Stages
<1>2. CASE WalkFromSeed
  <2>1. /\ stage = "collecting" /\ stage' = stage /\ seeds # <<>>
        /\ UNCHANGED <<edges, frames, seeds, candidates, bundle>>
        /\ BeginWalk("neighbors", FileId(Head(seeds)))
    BY <1>2 DEF WalkFromSeed
  <2>2. Head(seeds) \in File
    BY <2>1, HeadTailProperties DEF ContextInv
  <2>3. WalkRight(edges', walk')
    BY <2>1, <2>2, FileIdIsNode, BeginKeepsWalkInv DEF Kinds
  <2> QED
    BY <2>1, <2>3 DEF ContextInv, WalkInv, StageOfWalk, FramesLead
<1>3. CASE WalkOn
  <2>1. /\ stage \in {"collecting", "blast"} /\ Dequeue
        /\ UNCHANGED <<stage, frames, seeds, candidates, bundle>>
    BY <1>3 DEF WalkOn
  <2>2. WalkRight(edges', walk') /\ edges' = edges /\ walk # NoWalk
    BY <2>1, DequeueKeepsWalkInv DEF ContextInv
  <2> QED
    BY <2>1, <2>2 DEF ContextInv, WalkInv, StageOfWalk, FramesLead
<1>4. CASE AddNeighbors
  <2> DEFINE near == Among(walk.out, {n \in Listed : IsNear(n)})
             files == [i \in DOMAIN near |-> LabelOf(near[i])]
  <2>1. /\ stage = "collecting" /\ stage' = stage /\ walk # NoWalk /\ walk' = NoWalk
        /\ candidates' = candidates \o Rated(files, "medium") /\ seeds' = Tail(seeds)
        /\ UNCHANGED <<edges, frames, bundle>>
    BY <1>4 DEF AddNeighbors
  <2>2. walk.out \in Seq(Listed)
    BY <2>1 DEF ContextInv, WalkInv, WalkRight, WalkType
  <2>3. near \in Seq({n \in Listed : IsNear(n)})
    BY <2>2, AmongType
  <2>4. files \in Seq(File)
    <3>1. /\ Len(near) \in Nat /\ DOMAIN near = 1 .. Len(near)
          /\ \A i \in 1 .. Len(near) : near[i] \in {n \in Listed : IsNear(n)}
      BY <2>3, LenProperties
    <3> HIDE DEF near
    <3>2. \A i \in 1 .. Len(near) : LabelOf(near[i]) \in File
      BY <3>1, NearIsFile
    <3> QED
      BY <3>1, <3>2
  <2> HIDE DEF files
  <2>5. candidates' \in Seq(Candidate) /\ FramesLead'
    BY <2>1, <2>4, CandidatesGrow
  <2>6. seeds' \in Seq(File)
    BY <2>1, HeadTailProperties DEF ContextInv, StageOfWalk
  <2> QED
    BY <2>1, <2>5, <2>6 DEF ContextInv, WalkInv, StageOfWalk
<1>5. CASE AddTests
  <2>1. PICK order \in SetToSeqs(UNION {TestsFor(f) : f \in ToSet(Seeds(frames))} \ Found) :
          candidates' = candidates \o Rated(order, "high")
    BY <1>5 DEF AddTests
  <2>2. /\ stage = "collecting" /\ stage' = "found" /\ walk = NoWalk
        /\ UNCHANGED <<edges, walk, frames, seeds, bundle>>
    BY <1>5 DEF AddTests
  <2>3. order \in Seq(File)
    <3> DEFINE S == UNION {TestsFor(f) : f \in ToSet(Seeds(frames))} \ Found
    <3>1. S \subseteq Test
      BY DEF TestsFor
    <3>2. S \subseteq CodeFile /\ IsFiniteSet(CodeFile)
      BY <3>1, ProjectAssumption
    <3>3. IsFiniteSet(S) /\ S \subseteq File
      BY <3>2, FS_Subset DEF File
    <3> HIDE DEF S
    <3>4. order \in Seq(S)
      BY <2>1, <3>3, OrderType DEF S
    <3> QED
      BY <3>3, <3>4, SeqMonotonic
  <2>4. candidates' \in Seq(Candidate) /\ FramesLead'
    BY <2>1, <2>2, <2>3, CandidatesGrow
  <2> QED
    BY <2>2, <2>4 DEF ContextInv, WalkInv, StageOfWalk, Stages
<1>6. CASE AssembleBundle
  <2>1. /\ stage = "found" /\ stage' = "bundled" /\ edges' = {} /\ frames' = <<>>
        /\ candidates' = <<>> /\ walk' = walk /\ seeds' = seeds
    BY <1>6 DEF AssembleBundle
  <2>2. PICK redact_before_llm \in BOOLEAN, enabled \in BOOLEAN :
          \E texts \in Texts(redact_before_llm, enabled) :
            bundle' = [files |-> Sendable(Capped(Ordered)), texts |-> texts,
                       redacted |-> RedactionApplied(redact_before_llm, enabled)]
    BY <1>6 DEF AssembleBundle
  <2>3. PICK texts \in Texts(redact_before_llm, enabled) :
          bundle' = [files |-> Sendable(Capped(Ordered)), texts |-> texts,
                     redacted |-> RedactionApplied(redact_before_llm, enabled)]
    BY <2>2
  <2>4. Sendable(Capped(Ordered)) \in Seq(File \ (Denied \cup Gone))
    <3>1. Capped(Ordered) \in Seq(File)
      BY <2>1, OrderedType, CappedType
    <3> QED
      BY <3>1, AmongType DEF Sendable
  <2>5. /\ texts \in {"redacted", "partly", "raw"}
        /\ RedactionApplied(redact_before_llm, enabled) \in BOOLEAN
        /\ RedactionApplied(redact_before_llm, enabled) => texts # "raw"
    BY <2>3 DEF Texts, RedactionApplied
  <2>6. /\ bundle' \in [files : Seq(File \ (Denied \cup Gone)), redacted : BOOLEAN,
                        texts : {"redacted", "partly", "raw"}]
        /\ bundle'.redacted => bundle'.texts # "raw"
    BY <2>3, <2>4, <2>5
  <2>7. walk = NoWalk
    BY <2>1 DEF ContextInv, StageOfWalk
  <2>8. <<>> \in Seq(File) /\ <<>> \in Seq(Candidate)
    OBVIOUS
  <2> QED
    BY <2>1, <2>6, <2>7, <2>8 DEF ContextInv, WalkInv, StageOfWalk, FramesLead, Stages
<1> QED
  BY <1>1, <1>2, <1>3, <1>4, <1>5, <1>6 DEF BuildContext

LEMMA ContextInvStep == ContextInv /\ [Next]_vars => ContextInv'
<1> SUFFICES ASSUME ContextInv, [Next]_vars PROVE ContextInv'
  OBVIOUS
<1>1. CASE (BuildContext \/ WalkOn) /\ UNCHANGED callVars
  BY <1>1, ContextKeepsContextInv
<1>2. CASE FindAffected
  <2>1. /\ stage' = "blast" /\ UNCHANGED <<frames, seeds, candidates, bundle>>
    BY <1>2 DEF FindAffected
  <2>2. edges' \subseteq Node \X Node
    BY <1>2, BuiltGraphType DEF FindAffected
  <2>3. WalkRight(edges', walk')
    <3>1. PICK file \in CodeFile : BeginWalk("dependents", FileId(file))
      BY <1>2 DEF FindAffected
    <3> QED
      BY <3>1, FileIdIsNode, BeginKeepsWalkInv DEF Kinds, File
  <2> QED
    BY <2>1, <2>2, <2>3 DEF ContextInv, WalkInv, StageOfWalk, FramesLead, Stages
<1>3. CASE Affected
  BY <1>3 DEF Affected, ContextInv, WalkInv, StageOfWalk, FramesLead, Stages
<1>4. CASE AskModel
  <2>1. /\ stage \in Stages \ {"context", "collecting", "found", "blast"}
        /\ stage' \in Stages \ {"context", "collecting", "found", "blast"}
        /\ UNCHANGED contextVars
    BY <1>4 DEF AskModel, ChooseProvider, FakeAnswer, RefuseUnredacted, Send, TransientError,
         Retry, NoAnswer, Answer, RecordFails, GiveUp, Revise, LeaveLoop, Gate, At, Ask, Throws,
         GoesOn, FakeRevision, Stages, ContextInv
  <2> QED
    BY <2>1 DEF ContextInv, WalkInv, StageOfWalk, FramesLead, contextVars
<1>5. CASE UNCHANGED vars
  BY <1>5 DEF vars, contextVars, ContextInv, WalkInv, StageOfWalk, FramesLead
<1> QED
  BY <1>1, <1>2, <1>3, <1>4, <1>5 DEF Next

\* The strengthening holds throughout: every walk is right at each of its steps, and the
\* candidates begin with the files of the frames (neighbors, dependents, buildContext).
THEOREM ContextInvHolds == Spec => []ContextInv
  BY ContextInvInit, ContextInvStep, PTL DEF Spec

-----------------------------------------------------------------------------
\* A finished walk has found every listed node within its number of hops, no other and
\* none twice, whatever the graph (neighbors and dependents).
THEOREM WalksAreExact == Spec => []WalkIsExact
<1>1. ContextInv => WalkIsExact
  <2> SUFFICES ASSUME ContextInv, walk.kind \in Kinds, ~Walking
               PROVE  /\ ToSet(walk.out) = (Ball[Depth(walk.kind)] \cap Listed) \ {walk.start}
                      /\ IsInjective(walk.out)
    BY DEF WalkIsExact
  <2>1. walk # NoWalk
    BY DEF NoWalk, Kinds
  <2>2. WalkRight(edges, walk) /\ walk.queue = <<>>
    BY <2>1 DEF ContextInv, WalkInv, Walking
  <2>3. walk.seen = Ball[Depth(walk.kind)]
    BY <2>2, WalkEnds, BallIsWithin DEF BallOf, Within
  <2>4. ToSet(walk.out) = (walk.seen \cap Listed) \ {walk.start}
    BY <2>2 DEF WalkRight, OutRight, ToSet
  <2>5. IsInjective(walk.out)
    BY <2>2 DEF WalkRight, OutRight, IsInjective
  <2> QED
    BY <2>3, <2>4, <2>5
<1> QED
  BY <1>1, ContextInvHolds, PTL

\* What a walk has found is in the order of its distance from the start, at each step
\* of it and whatever the order of the edges (neighbors and dependents).
THEOREM WalksFindNearestFirst == Spec => []NearestFirst
<1>1. ContextInv => NearestFirst
  <2> SUFFICES ASSUME ContextInv, walk.kind \in Kinds, NEW k \in DOMAIN Ball,
                      NEW i \in DOMAIN walk.out, NEW j \in DOMAIN walk.out,
                      i < j, walk.out[j] \in Ball[k]
               PROVE  walk.out[i] \in Ball[k]
    BY DEF NearestFirst
  <2>1. walk # NoWalk
    BY DEF NoWalk, Kinds
  <2>2. WalkRight(edges, walk)
    BY <2>1 DEF ContextInv, WalkInv
  <2>3. k \in 0 .. Depth(walk.kind)
    BY BallIsWithin, WithinSteps
  <2>4. Ball[k] = BallOf(edges, walk, k)
    BY BallIsWithin DEF BallOf, Within
  <2> QED
    BY <2>2, <2>3, <2>4 DEF WalkRight, OutRight
<1> QED
  BY <1>1, ContextInvHolds, PTL

-----------------------------------------------------------------------------
\* IsPrefix, of a sequence and what is put after it.
LEMMA ConcatIsPrefix ==
  ASSUME NEW S, NEW s \in Seq(S), NEW t \in Seq(S)
  PROVE  /\ IsPrefix(s, s \o t)
         /\ s # <<>> => (s \o t)[1] = s[1] /\ s \o t # <<>>
<1>1. /\ s \o t \in Seq(S) /\ Len(s \o t) = Len(s) + Len(t)
      /\ \A i \in 1 .. Len(s) + Len(t) :
           (s \o t)[i] = IF i <= Len(s) THEN s[i] ELSE t[i - Len(s)]
  BY ConcatProperties
<1>2. Len(s) \in Nat /\ Len(t) \in Nat /\ \A i \in 1 .. Len(s) : s[i] \in S
  BY LenProperties
<1> DEFINE u == s \o t
           n == Len(s)
<1> HIDE DEF u
<1>3. \A i \in 1 .. n : u[i] = s[i] /\ i - 1 + 1 = i
  BY <1>1, <1>2 DEF u
<1>4. /\ SubSeq(s, 1, n) \in Seq(S) /\ Len(SubSeq(s, 1, n)) = (IF 1 <= n THEN n - 1 + 1 ELSE 0)
      /\ \A i \in 1 .. n - 1 + 1 : SubSeq(s, 1, n)[i] = s[1 + i - 1]
  BY <1>2, SubSeqProperties
<1>5. /\ SubSeq(u, 1, n) \in Seq(S) /\ Len(SubSeq(u, 1, n)) = (IF 1 <= n THEN n - 1 + 1 ELSE 0)
      /\ \A i \in 1 .. n - 1 + 1 : SubSeq(u, 1, n)[i] = u[1 + i - 1]
  BY <1>2, <1>3, SubSeqProperties
<1>6. ASSUME NEW i \in 1 .. n PROVE SubSeq(s, 1, n)[i] = SubSeq(u, 1, n)[i]
  <2>1. i \in 1 .. n - 1 + 1 /\ 1 + i - 1 = i
    BY <1>2
  <2>2. SubSeq(s, 1, n)[i] = s[i] /\ SubSeq(u, 1, n)[i] = u[i]
    BY <1>4, <1>5, <2>1
  <2> QED
    BY <1>3, <2>2
<1>7. Len(SubSeq(s, 1, n)) = n
  BY <1>2, <1>4
<1>8. SubSeq(s, 1, n) = SubSeq(u, 1, n)
  BY <1>4, <1>5, <1>6, <1>7, SeqEqual
<1>9. IsPrefix(s, u)
  BY <1>1, <1>2, <1>8 DEF IsPrefix, u
<1>10. ASSUME s # <<>> PROVE u[1] = s[1] /\ u # <<>>
  <2>1. n \in Nat \ {0}
    BY <1>10, EmptySeq
  <2>2. Len(u) # 0
    BY <1>1, <1>2, <2>1 DEF u
  <2> QED
    BY <1>3, <2>1, <2>2
<1> QED
  BY <1>9, <1>10 DEF u

\* Of what is put together, what may be sent is what may be sent of the parts.
LEMMA SendableOfConcat ==
  ASSUME NEW s \in Seq(File), NEW t \in Seq(File)
  PROVE  /\ Sendable(s) \in Seq(File) /\ Sendable(t) \in Seq(File)
         /\ Sendable(s \o t) = Sendable(s) \o Sendable(t)
         /\ ToSet(Sendable(s)) \subseteq ToSet(s)
<1>1. Sendable(s) \in Seq(File) /\ Sendable(t) \in Seq(File)
  BY AmongType DEF Sendable
<1>2. Sendable(s \o t) = Sendable(s) \o Sendable(t)
  BY AmongConcat DEF Sendable
<1>3. {Sendable(s)[n] : n \in DOMAIN Sendable(s)}
        = {s[i] : i \in DOMAIN s} \cap (File \ (Denied \cup Gone))
  <2> DEFINE T == File \ (Denied \cup Gone)
  <2>1. Sendable(s) = Among(s, T)
    BY DEF Sendable
  <2> HIDE DEF T
  <2>2. {Among(s, T)[n] : n \in DOMAIN Among(s, T)} = {s[i] : i \in DOMAIN s} \cap T
    BY AmongMembers
  <2> QED
    BY <2>1, <2>2 DEF T
<1> QED
  BY <1>1, <1>2, <1>3 DEF ToSet

\* The cap and the filter keep the files of the frames in front.
LEMMA CapKeepsFramesFirst ==
  ASSUME NEW lead \in Seq(File), NEW more \in Seq(File), NEW sent, NEW due,
         sent = Sendable(Capped(lead \o more)), due = Sendable(lead)
  PROVE  /\ (\E i \in DOMAIN sent : sent[i] \notin ToSet(lead)) => IsPrefix(due, sent)
         /\ sent # <<>> /\ due # <<>> => sent[1] = due[1]
<1> DEFINE kept == Capped(lead \o more)
<1>1. lead \o more \in Seq(File)
  BY ConcatProperties
<1>2. kept \in Seq(File)
  BY <1>1, CappedType
<1>3. PICK lost \in Seq(File) : lead \o more = kept \o lost
  BY <1>1, CappedType DEF Extends
<1> HIDE DEF kept
<1>4. Len(lead) <= Len(kept) \/ Len(kept) <= Len(lead)
  BY <1>2, LenProperties
<1>5. sent = Sendable(kept)
  BY DEF kept
<1>6. CASE Len(lead) <= Len(kept)
  <2>1. PICK rest \in Seq(File) : kept = lead \o rest
    <3>1. Extends(File, kept, lead)
      BY <1>2, <1>3, <1>6, BothBegin
    <3> QED
      BY <3>1 DEF Extends
  <2>2. sent = due \o Sendable(rest) /\ due \in Seq(File) /\ Sendable(rest) \in Seq(File)
    BY <1>5, <2>1, SendableOfConcat
  <2> QED
    BY <2>2, ConcatIsPrefix
<1>7. CASE Len(kept) <= Len(lead)
  <2>1. PICK rest \in Seq(File) : lead = kept \o rest
    <3>1. Extends(File, lead, kept)
      BY <1>2, <1>3, <1>7, BothBegin
    <3> QED
      BY <3>1 DEF Extends
  <2>2. due = sent \o Sendable(rest) /\ sent \in Seq(File) /\ Sendable(rest) \in Seq(File)
    BY <1>2, <1>5, <2>1, SendableOfConcat
  <2>3. sent # <<>> => due[1] = sent[1]
    BY <2>2, ConcatIsPrefix
  <2>4. \A i \in DOMAIN sent : sent[i] \in ToSet(lead)
    <3>1. ToSet(sent) \subseteq ToSet(kept)
      BY <1>2, <1>5, SendableOfConcat
    <3>2. ASSUME NEW i \in DOMAIN kept PROVE kept[i] \in ToSet(lead)
      <4>1. /\ Len(kept) \in Nat /\ DOMAIN kept = 1 .. Len(kept) /\ Len(rest) \in Nat
            /\ Len(lead) = Len(kept) + Len(rest) /\ DOMAIN lead = 1 .. Len(lead)
            /\ \A l \in 1 .. Len(kept) + Len(rest) :
                 lead[l] = IF l <= Len(kept) THEN kept[l] ELSE rest[l - Len(kept)]
        BY <1>2, <2>1, ConcatProperties, LenProperties
      <4>2. i \in 1 .. Len(kept) + Len(rest) /\ i <= Len(kept)
        BY <4>1
      <4>3. i \in DOMAIN lead /\ lead[i] = kept[i]
        BY <4>1, <4>2
      <4> QED
        BY <4>3 DEF ToSet
    <3> QED
      BY <3>1, <3>2 DEF ToSet
  <2> QED
    BY <2>3, <2>4
<1> QED
  BY <1>4, <1>6, <1>7

\* The files of the stack frames come before all others, through the walks of several
\* seeds, the sort, the cap and the filters (buildContext).
THEOREM FramesAreFirst == Spec => FramesComeFirst
<1> DEFINE Leads ==
      stage' = "bundled" /\ stage # "bundled" =>
        LET sent == bundle'.files
            due  == Sendable(frames)
        IN  /\ (\E i \in DOMAIN sent : sent[i] \notin ToSet(frames)) => IsPrefix(due, sent)
            /\ sent # <<>> /\ due # <<>> /\ frames[1] = due[1] => sent[1] = due[1]
<1>1. ContextInv /\ [Next]_vars => [Leads]_<<stage, contextVars>>
  <2> SUFFICES ASSUME ContextInv, [Next]_vars, stage' = "bundled", stage # "bundled"
               PROVE  Leads
    OBVIOUS
  <2>1. AssembleBundle
    BY DEF Next, vars, BuildContext, CollectFrames, WalkFromSeed, WalkOn, AddNeighbors, AddTests,
         FindAffected, Affected, AskModel, ChooseProvider, FakeAnswer, RefuseUnredacted, Send,
         TransientError, Retry, NoAnswer, Answer, RecordFails, GiveUp, Revise, LeaveLoop, Gate,
         At, Ask, Throws, GoesOn, FakeRevision
  <2>2. stage = "found" /\ bundle'.files = Sendable(Capped(Ordered))
    BY <2>1 DEF AssembleBundle
  <2>3. PICK more \in Seq(File) : Ordered = frames \o more
    BY <2>2, OrderedType
  <2>4. frames \in Seq(File)
    BY DEF ContextInv
  <2> QED
    BY <2>2, <2>3, <2>4, CapKeepsFramesFirst
<1> HIDE DEF Leads
<1>2. Spec => [][Leads]_<<stage, contextVars>>
  BY <1>1, ContextInvHolds, PTL DEF Spec
<1> QED
  BY <1>2 DEF FramesComeFirst, Leads

-----------------------------------------------------------------------------
\* The types of the variables of the calls, whatever the stage.
DataTyped ==
  /\ config \in Config \cup {NoConfig}
  /\ call \in [purpose : Purposes \cup {"none"}, attempt : Nat,
               at : {"none", "ready", "waiting", "pausing"}]
  /\ used \subseteq Purposes \X Nat /\ audited \subseteq Purposes \X Nat

LEMMA AskIsTyped ==
  ASSUME NEW purpose \in Purposes, Ask(purpose)
  PROVE  call' \in [purpose : Purposes \cup {"none"}, attempt : Nat,
                    at : {"none", "ready", "waiting", "pausing"}]
  BY DEF Ask

LEMMA SilentIsTyped ==
  ASSUME Silent
  PROVE  call' \in [purpose : Purposes \cup {"none"}, attempt : Nat,
                    at : {"none", "ready", "waiting", "pausing"}]
  BY DEF Silent, Quiet

LEMMA GoesOnIsTyped ==
  ASSUME GoesOn
  PROVE  call' \in [purpose : Purposes \cup {"none"}, attempt : Nat,
                    at : {"none", "ready", "waiting", "pausing"}]
<1>1. Silent \/ \E purpose \in Purposes : Ask(purpose)
  BY DEF GoesOn, Purposes
<1> QED
  BY <1>1, AskIsTyped, SilentIsTyped

LEMMA ThisIsTyped ==
  ASSUME CallInv, stage = "asking"
  PROVE  This \in Purposes \X Nat
  BY DEF CallInv, CallTyped, This

LEMMA AskModelKeepsDataTyped ==
  ASSUME CallInv, DataTyped, AskModel
  PROVE  DataTyped'
<1> DEFINE Calls == [purpose : Purposes \cup {"none"}, attempt : Nat,
                     at : {"none", "ready", "waiting", "pausing"}]
<1>1. /\ config \in Config \cup {NoConfig} /\ call \in Calls
      /\ used \subseteq Purposes \X Nat /\ audited \subseteq Purposes \X Nat
  BY DEF DataTyped
<1> HIDE DEF Calls
<1>2. (\E purpose \in Purposes : Ask(purpose)) => call' \in Calls
  BY AskIsTyped DEF Calls
<1>3. Silent => call' \in Calls
  BY SilentIsTyped DEF Calls
<1>4. GoesOn => call' \in Calls
  BY GoesOnIsTyped DEF Calls
<1>5. CASE ChooseProvider
  <2>1. Ask("root_cause") /\ "root_cause" \in Purposes
    BY <1>5 DEF ChooseProvider, Purposes
  <2> QED
    BY <1>1, <1>2, <1>5, <2>1 DEF ChooseProvider, DataTyped, Calls
<1>6. CASE FakeAnswer
  <2>1. Silent \/ GoesOn \/ Ask("patch_plan")
    BY <1>6 DEF FakeAnswer, FakeRevision
  <2>2. call' \in Calls
    BY <1>2, <1>3, <1>4, <2>1 DEF Purposes
  <2> QED
    BY <1>1, <1>6, <2>2 DEF FakeAnswer, DataTyped, Calls
<1>7. CASE RefuseUnredacted \/ NoAnswer \/ RecordFails
  <2>1. Silent /\ UNCHANGED <<config, used, audited>>
    BY <1>7 DEF RefuseUnredacted, NoAnswer, RecordFails, Throws
  <2> QED
    BY <1>1, <1>3, <2>1 DEF DataTyped, Calls
<1>8. CASE Send \/ TransientError \/ Retry
  <2>1. call' \in Calls
    <3>1. CASE Send \/ TransientError
      BY <1>1, <1>8, <3>1 DEF Send, TransientError, Calls
    <3>2. CASE Retry
      <4>1. call.attempt + 1 \in Nat
        BY <1>1 DEF Calls
      <4>2. call' = [call EXCEPT !.at = "waiting", !.attempt = call.attempt + 1]
        BY <3>2 DEF Retry
      <4> QED
        BY <1>1, <4>1, <4>2 DEF Calls
    <3> QED
      BY <1>8, <3>1, <3>2
  <2>2. UNCHANGED <<config, used, audited>>
    BY <1>8 DEF Send, TransientError, Retry
  <2> QED
    BY <1>1, <2>1, <2>2 DEF DataTyped, Calls
<1>9. CASE Answer \/ GiveUp
  <2>1. GoesOn \/ Silent
    BY <1>9 DEF Answer, GiveUp
  <2>2. This \in Purposes \X Nat
    BY <1>9, ThisIsTyped DEF Answer, GiveUp, At
  <2>3. /\ config' = config /\ used' = used \cup {This}
        /\ audited' \in {audited, audited \cup {This}}
    BY <1>9 DEF Answer, GiveUp
  <2>4. call' \in Calls
    BY <1>3, <1>4, <2>1
  <2> QED
    BY <1>1, <2>2, <2>3, <2>4 DEF DataTyped, Calls
<1>10. CASE Revise \/ Gate
  <2>1. Silent \/ Ask("code_patch_revision") \/ Ask("mr_explanation")
    BY <1>10 DEF Revise, Gate
  <2>2. call' \in Calls
    BY <1>2, <1>3, <2>1 DEF Purposes
  <2>3. UNCHANGED <<config, used, audited>>
    BY <1>10 DEF Revise, Gate
  <2> QED
    BY <1>1, <2>2, <2>3 DEF DataTyped, Calls
<1>11. CASE LeaveLoop
  BY <1>1, <1>11 DEF LeaveLoop, callVars, DataTyped, Calls
<1> QED
  BY <1>5, <1>6, <1>7, <1>8, <1>9, <1>10, <1>11 DEF AskModel

\* The variables of the run keep their types: what it holds of the project, of the walk
\* and of the calls (buildContext, LLMOrchestrator).
THEOREM TypeCorrect == Spec => []TypeOK
<1>1. Init => DataTyped
  BY DEF Init, DataTyped, Quiet
<1>2. CallInv /\ DataTyped /\ [Next]_vars => DataTyped'
  <2> SUFFICES ASSUME CallInv, DataTyped, [Next]_vars PROVE DataTyped'
    OBVIOUS
  <2>1. CASE AskModel
    BY <2>1, AskModelKeepsDataTyped
  <2>2. CASE UNCHANGED callVars
    BY <2>2 DEF callVars, DataTyped
  <2> QED
    BY <2>1, <2>2 DEF Next, FindAffected, Affected, vars
<1>3. CallInv /\ ContextInv /\ DataTyped => TypeOK
  <2> SUFFICES ASSUME CallInv, ContextInv, DataTyped PROVE TypeOK
    OBVIOUS
  <2>1. \/ walk = NoWalk
        \/ /\ walk.kind \in Kinds /\ walk.start \in Node /\ walk.seen \subseteq Node
           /\ walk.queue \in Seq(Entry) /\ walk.out \in Seq(Listed)
    BY DEF ContextInv, WalkInv, WalkRight, WalkType
  <2>2. candidates \in Seq([file : File, strength : {"high", "medium"}])
    BY DEF ContextInv, Candidate
  <2>3. /\ bundle.files \in Seq(File) /\ bundle.redacted \in BOOLEAN
        /\ bundle.texts \in {"redacted", "partly", "raw"}
    BY SeqMonotonic DEF ContextInv
  <2>4. attempts \in Nat /\ requests \in Nat
    BY DEF CallInv, WithinAllowance
  <2> QED
    BY <2>1, <2>2, <2>3, <2>4 DEF TypeOK, ContextInv, DataTyped
<1>4. Spec => []DataTyped
  BY <1>1, <1>2, CallInvHolds, PTL DEF Spec
<1> QED
  BY <1>3, <1>4, CallInvHolds, ContextInvHolds, PTL

-----------------------------------------------------------------------------
\* While a request is out, provider, trigger mode and caller allow it, none of its files is
\* denied, and its files went through the redactor if policy requires that, which says
\* nothing of the memory and of the failed patch and its output: over all the walks, calls
\* and retries of a run (buildContext, the constructor of the orchestrator and the gate of
\* callProvider).
THEOREM RequestsArePermitted == Spec => []SentIsAllowed
<1>1. CallInv /\ ContextInv => SentIsAllowed
  <2> SUFFICES ASSUME CallInv, ContextInv, At("waiting")
               PROVE  /\ config.provider # "none" /\ config.mode # "off"
                      /\ config.mode = "manual_only" => config.caller \in {"analyze", "open-mr"}
                      /\ config.require_redaction => RawParts \subseteq {"memory", "failure"}
                      /\ ToSet(bundle.files) \cap (Denied \cup Gone) = {}
    BY DEF SentIsAllowed
  <2>1. config \in Config /\ Provider(config) # "dry-run" /\ ~RedactionMissing
    BY DEF CallInv, CallAllowed, At
  <2>2. ~ForceDryRun(config)
    BY <2>1 DEF Provider
  <2>3. bundle.files \in Seq(File \ (Denied \cup Gone))
    BY DEF ContextInv
  <2>4. ToSet(bundle.files) \subseteq File \ (Denied \cup Gone)
    BY <2>3, LenProperties DEF ToSet
  <2>5. config.require_redaction => RawParts \subseteq {"memory", "failure"}
    BY <2>1 DEF RedactionMissing, ContextInv, RawParts
  <2> QED
    BY <2>1, <2>2, <2>4, <2>5 DEF ForceDryRun, Config, Callers
<1> QED
  BY <1>1, CallInvHolds, ContextInvHolds, PTL

=============================================================================
