----------------------------- MODULE Investigation -----------------------------
(***************************************************************************)
(* What one run asks of the language model, and when: LLMOrchestrator of   *)
(* src/llm/orchestrator.ts with withRetry of src/util/retry.ts and the     *)
(* records of src/audit/logger.ts, as the pipeline and `incidents analyze' *)
(* use it on the bundle of ContextBuilder.                                 *)
(*                                                                         *)
(* An answer is parsed, recorded and used without an await in between, so  *)
(* this is one step; the model's side, the network and the disk decide how *)
(* it ends.  Sandbox, policy and score appear by what they make the run    *)
(* ask next; FixPipeline has them in full.                                 *)
(***************************************************************************)
EXTENDS ContextBuilder

CONSTANTS
  MaxRetries,     \* llm.max_retries
  MaxFixAttempts  \* llm.max_fix_attempts

ASSUME CallAssumption == MaxRetries \in Nat /\ MaxFixAttempts \in Nat \ {0}

VARIABLES
  config,   \* the settings the orchestrator was made with
  call,     \* the call under way
  attempts, \* patches asked for
  requests, \* how many requests went out
  used,     \* the calls whose answer the run went on with
  audited   \* the calls with an audit record

callVars == <<config, call, attempts, requests, used, audited>>
vars == <<stage, contextVars, callVars>>

Callers == {"analyze", "open-mr", "worker"}

\* "api" stands for openai, azure-openai and anthropic, "cli" for codex and claude-cli;
\* key tells whether the provider's API key is set.
Config == [caller : Callers, provider : {"api", "cli", "none"},
           mode : {"incident_only", "manual_only", "off"}, key : BOOLEAN,
           require_redaction : BOOLEAN, audit_model_context : BOOLEAN]

\* Before the orchestrator is made.
NoConfig == [caller |-> "none", provider |-> "none", mode |-> "off", key |-> FALSE,
             require_redaction |-> FALSE, audit_model_context |-> FALSE]

Purposes == {"root_cause", "patch_plan", "code_patch", "code_patch_revision",
             "mr_explanation"}

Quiet == [purpose |-> "none", at |-> "none", attempt |-> 0]

Init ==
  /\ ContextInit
  /\ config = NoConfig
  /\ call = Quiet
  /\ attempts = 0 /\ requests = 0
  /\ used = {} /\ audited = {}

\* One call of a run: revisions are told apart by their number.
This == <<call.purpose, attempts>>

\* A slip of ForceDryRun: manual_only forgets who called.
ForceDryRunByMode(c) == c.provider = "none" \/ c.mode = "off"

ForceDryRun(c) ==
  \/ c.provider = "none"
  \/ c.mode = "off"
  \/ c.mode = "manual_only" /\ c.caller = "worker"

Provider(c) ==
  IF ForceDryRun(c) \/ (c.provider = "api" /\ ~c.key) THEN "dry-run" ELSE c.provider

DryRun == Provider(config) = "dry-run"

Ask(purpose) ==
  /\ call' = [purpose |-> purpose, at |-> "ready", attempt |-> 0]
  /\ stage' = "asking"

Silent == call' = Quiet

ChooseProvider ==
  /\ stage = "bundled"
  /\ config' \in Config
  /\ Ask("root_cause")
  /\ UNCHANGED <<contextVars, attempts, requests, used, audited>>

At(where) == stage = "asking" /\ call.at = where

IsJson == call.purpose # "mr_explanation"

\* The call throws: an explanation has a fallback, anything else ends the run.
\* Either way the call is over, and an explanation was the last one.
Throws ==
  /\ stage' = IF IsJson THEN "failed" ELSE "ended"
  /\ Silent

\* What the run does next after the answer to each of its calls.
GoesOn ==
  CASE call.purpose = "root_cause" ->
         \/ stage' = "ended" /\ Silent
         \/ config.caller # "analyze" /\ Ask("patch_plan")
    [] call.purpose = "patch_plan" ->
         \/ stage' = "ended" /\ Silent
         \/ Ask("code_patch")
    [] call.purpose \in {"code_patch", "code_patch_revision"} ->
         stage' = "trying" /\ Silent
    [] OTHER -> stage' = "ended" /\ Silent

AttemptsAfter ==
  IF call.purpose = "code_patch" THEN 1
  ELSE IF call.purpose = "code_patch_revision" THEN attempts + 1 ELSE attempts

\* A slip of FakeRevision: it is tried, though there is nothing to try.
FakeRevisionTried == stage' = "trying" /\ Silent

\* The made-up diff is empty, which means that the model gives up.
FakeRevision == stage' = "gating" /\ Silent

\* Without a provider the answers are made up: a root cause that should be fixed when
\* there is a file, the file as the plan, and no diff.
FakeAnswer ==
  /\ At("ready") /\ DryRun
  /\ CASE call.purpose = "root_cause" ->
            IF bundle.files = <<>> \/ config.caller = "analyze"
            THEN stage' = "ended" /\ Silent ELSE Ask("patch_plan")
       [] call.purpose = "code_patch_revision" -> FakeRevision
       [] OTHER -> GoesOn
  /\ attempts' = IF call.purpose = "code_patch" THEN 1 ELSE attempts
  /\ UNCHANGED <<contextVars, config, requests, used, audited>>

RedactionMissing == config.require_redaction /\ ~bundle.redacted

RefuseUnredacted ==
  /\ At("ready") /\ ~DryRun /\ RedactionMissing
  /\ Throws
  /\ UNCHANGED <<contextVars, config, attempts, requests, used, audited>>

Send ==
  /\ At("ready") /\ ~DryRun /\ ~RedactionMissing
  /\ call' = [call EXCEPT !.at = "waiting"]
  /\ requests' = requests + 1
  /\ UNCHANGED <<stage, contextVars, config, attempts, used, audited>>

\* A slip of MayRetry: the attempts are counted from one.
MayRetryOnceMore == call.attempt <= MaxRetries

MayRetry == call.attempt < MaxRetries

\* The request fails with an error that isTransientLLMError knows, and is made again
\* after a pause.
TransientError ==
  /\ At("waiting") /\ MayRetry
  /\ call' = [call EXCEPT !.at = "pausing"]
  /\ UNCHANGED <<stage, contextVars, config, attempts, requests, used, audited>>

Retry ==
  /\ At("pausing")
  /\ call' = [call EXCEPT !.at = "waiting", !.attempt = @ + 1]
  /\ requests' = requests + 1
  /\ UNCHANGED <<stage, contextVars, config, attempts, used, audited>>

\* Another error, or one too many; no JSON, or not of the schema; no text.
NoAnswer ==
  /\ At("waiting")
  /\ Throws
  /\ UNCHANGED <<contextVars, config, attempts, requests, used, audited>>

\* A slip of Answer: a record that cannot be written is passed over.
AnswerAnyway ==
  /\ At("waiting")
  /\ \/ audited' = audited \cup {This}
     \/ audited' = audited
  /\ GoesOn
  /\ used' = used \cup {This}
  /\ attempts' = AttemptsAfter
  /\ UNCHANGED <<contextVars, config, requests>>

\* The answer is good, recorded if the settings say so, and used.
Answer ==
  /\ At("waiting")
  /\ audited' = IF config.audit_model_context THEN audited \cup {This} ELSE audited
  /\ GoesOn
  /\ used' = used \cup {This}
  /\ attempts' = AttemptsAfter
  /\ UNCHANGED <<contextVars, config, requests>>

\* The answer is good, but its record cannot be written.
RecordFails ==
  /\ At("waiting") /\ config.audit_model_context
  /\ Throws
  /\ UNCHANGED <<contextVars, config, attempts, requests, used, audited>>

\* A revision without a diff leaves the loop.
GiveUp ==
  /\ At("waiting") /\ call.purpose = "code_patch_revision"
  /\ audited' = IF config.audit_model_context THEN audited \cup {This} ELSE audited
  /\ used' = used \cup {This}
  /\ stage' = "gating" /\ Silent
  /\ UNCHANGED <<contextVars, config, attempts, requests>>

\* The sandbox has run: the patch failed and is revised, or the loop is left.  A
\* made-up patch always fails, for it does not apply.
Revise ==
  /\ stage = "trying" /\ attempts < MaxFixAttempts
  /\ Ask("code_patch_revision")
  /\ UNCHANGED <<contextVars, config, attempts, requests, used, audited>>

LeaveLoop ==
  /\ stage = "trying"
  /\ DryRun => attempts >= MaxFixAttempts
  /\ stage' = "gating"
  /\ UNCHANGED <<contextVars, callVars>>

\* Policy, confidence or blast radius block the patch, or it gets its explanation.
Gate ==
  /\ stage = "gating"
  /\ \/ stage' = "ended" /\ Silent
     \/ Ask("mr_explanation")
  /\ UNCHANGED <<contextVars, config, attempts, requests, used, audited>>

\* The pipeline of another run is about to say what its changed file may affect.
FindAffected ==
  /\ stage = "context"
  /\ \E project \in Projects : edges' = BuiltGraph(project)
  /\ \E file \in CodeFile : BeginWalk("dependents", FileId(file))
  /\ stage' = "blast"
  /\ UNCHANGED <<frames, seeds, candidates, bundle, callVars>>

Affected ==
  /\ stage = "blast" /\ ~Walking
  /\ stage' = "ended"
  /\ edges' = {} /\ walk' = NoWalk
  /\ UNCHANGED <<frames, seeds, candidates, bundle, callVars>>

AskModel ==
  \/ ChooseProvider \/ FakeAnswer \/ RefuseUnredacted \/ Send \/ TransientError \/ Retry
  \/ NoAnswer \/ Answer \/ RecordFails \/ GiveUp \/ Revise \/ LeaveLoop \/ Gate

Next ==
  \/ (BuildContext \/ WalkOn) /\ UNCHANGED callVars
  \/ FindAffected \/ Affected
  \/ AskModel

\* Every await of the run settles: a request that hangs is given up by its client or its
\* time limit, and a pause is a timer.
Spec == Init /\ [][Next]_vars /\ WF_vars(Next)

-----------------------------------------------------------------------------

Stages == {"context", "collecting", "found", "bundled", "asking", "trying", "gating", "blast",
           "ended", "failed"}

Entry == [id : Node, d : Nat]

\* The type of the variables.
TypeOK ==
  /\ stage \in Stages
  /\ edges \subseteq Node \X Node
  /\ \/ walk = NoWalk
     \/ /\ walk.kind \in Kinds /\ walk.start \in Node
        /\ walk.seen \subseteq Node
        /\ walk.queue \in Seq(Entry) /\ walk.out \in Seq(Listed)
  /\ frames \in Seq(File) /\ seeds \in Seq(File)
  /\ candidates \in Seq([file : File, strength : {"high", "medium"}])
  /\ bundle.files \in Seq(File) /\ bundle.redacted \in BOOLEAN
  /\ bundle.texts \in {"redacted", "partly", "raw"}
  /\ config \in Config \cup {NoConfig}
  /\ call \in [purpose : Purposes \cup {"none"}, attempt : Nat,
               at : {"none", "ready", "waiting", "pausing"}]
  /\ attempts \in Nat /\ requests \in Nat
  /\ used \subseteq Purposes \X Nat /\ audited \subseteq Purposes \X Nat

\* What the request under way carries that no redactor has seen: the notes of the memory
\* and the git history always, the failed patch and the output of its tests in a
\* revision, and the files unless they were redacted.
RawParts ==
  {"memory"}
  \cup (IF call.purpose = "code_patch_revision" THEN {"failure"} ELSE {})
  \cup (IF bundle.texts = "raw" THEN {"files"} ELSE {})

\* While a request is out, the settings allow it for this caller, none of its files is
\* denied, and its files went through the redactor if policy requires that, though the
\* gate only sees a flag: the choice of provider, the gate on redaction and the selection
\* of files each do their part.  Of the rest the policy holds back nothing: the memory,
\* and the failed patch and its output, go out as they are, and in a file whose redaction
\* ran out of time so does what the patterns left over would have hidden.
SentIsAllowed ==
  At("waiting") =>
    /\ config.provider # "none" /\ config.mode # "off"
    /\ config.mode = "manual_only" => config.caller \in {"analyze", "open-mr"}
    /\ config.require_redaction => RawParts \subseteq {"memory", "failure"}
    /\ ToSet(bundle.files) \cap (Denied \cup Gone) = {}

\* One run of the pipeline makes a bounded number of requests, whatever fails: the
\* retries of a call and the revisions of a patch are loops within each other.  The bound
\* is of this code's own requests (the clients of the providers may repeat each of them)
\* and of one run: an incident that stays pending is run again at the worker's next pass.
RequestsBounded == requests <= (MaxRetries + 1) * (MaxFixAttempts + 3)

\* With audit_model_context set, the run never goes on with an answer of the model
\* that has no audit record (callJson and mrExplanation, whose record may fail).
UsedIsAudited == config.audit_model_context => used \subseteq audited

\* Each run comes to its end, with a model that always fails or always fails to
\* please the tests as well.
InvestigationEnds == <>(stage \in {"ended", "failed"})

=============================================================================
