# A TLA+ verification of KafuOps

KafuOps watches a backend (its logs, traces and alerts), groups what fails into
*incidents*, asks a language model for a fix, tries the fix in a sandbox copy of
the repository, and opens a merge request when policy, tests and a confidence
score allow it. This directory holds TLA+ modules of the parts of it in which
several processes, crashes and partial failures meet, the TLC configurations that
check them on small instances, and TLAPS proofs for instances of any size.

All paths below are relative to the repository; `engine.ts:72` is line 72 of
`src/incident/engine.ts`.

## 1. The system

| Component | State | Operations | Talks to |
|---|---|---|---|
| Incident store (`src/incident/store.ts`) | one directory per incident under `.kafuops/incidents`: `incident.json`, `.claim.lock`, `runtime-logs.json`, `changed-files.json`, the context bundle | `save`, `load`, `list`, `findOpenByFingerprint`, `tryClaim`, `releaseClaim`, artifacts | everything below, from several processes, with no lock but the claim |
| Incident engine (`src/incident/engine.ts`) | in memory: the rolling window of events, when incidents were created per service; on disk: incidents, `deploys.json` | `ingest` (noise, window, triggers, rate limit, deduplication, creation) | store, deploys |
| Worker (`src/incident/worker.ts`) | the list of pending incidents of the current pass | `runWorkerOnce`, `runWorkerLoop` | store (list, claim), pipeline |
| Fix pipeline (`src/incident/pipeline.ts`) | the run's locals; the incident record it loaded | `processIncidentToMr`: context, root cause, plan, policy gate, patch loop, policy gate, confidence and blast-radius gates, MR, optional merge | store, context builder, model, sandbox, policy, provider |
| Patch sandbox (`src/sandbox/runner.ts`) | a copy of the repository, with a git snapshot of its own, in `.kafuops/sandbox/<incident>` | `prepareWorkdir`, `applyDiff`, `runPatch`, `validate`, `revertAll` | git, the user's test and install commands |
| Policy engine, blast radius, confidence (`src/policies`, `src/blast-radius`, `src/confidence`) | none | `evaluate`, `computeBlastRadius`, `scorePatch` | pipeline |
| Merge requests (`src/mr`) | none of their own | `decideMrAction`, `openGithubPr`, `openGitlabMr`, merge | git in the work directory, provider |
| Incident commands (`src/cli/commands/incidents.ts`) | none | list, show, build-context, analyze, open-mr, mark-* | store, pipeline, memory |
| Webhook server (`src/webhooks/server.ts`) | one engine; the request it is working on | seven routes: gate, normalise Sentry, Datadog, Alertmanager, OpenTelemetry and custom events, ingest one after the other, answer | engine, store |
| Log tailer (`src/runtime/tailer.ts`, `parser.ts`) | file offsets (persisted), partial lines, recent lines, a ring buffer | poll, parse error blocks, emit events, persist excerpts | engine, store |
| Wrapper (`src/runtime/wrapper.ts`, `ringbuffer.ts`, `capture.ts`) | two half lines, a ring buffer | read two pipes in chunks, redact, buffer, parse error blocks, persist excerpts, report the exit | engine, store, redaction |
| Redaction (`src/redaction/index.ts`) | the list of patterns | install patterns, replace within a time budget | observers, webhook server, context builder |
| Model calls (`src/llm`, `src/util/retry.ts`, `src/audit`) | none; audit files | choose provider, gate on redaction, retry, parse, audit | pipeline |
| Context builder (`src/context/builder.ts`) | none; writes the bundle | select, order, cap and redact files, logs, memory | store, graph, memory |
| Graph (`src/graph`) | `architecture-graph.json` | build, index, `neighbors`, `dependents` | context builder, blast radius |
| Incident memory (`src/scanner/incident-memory.ts`) | `incidents.md`, `review-feedback.md` | append the record of an attempt, or of a reviewer's verdict | pipeline, incident commands, context builder |
| Scanner, configuration, wizard, update check, evaluation | project memory; a cache file | one-shot commands | — |

What is hard here:

* **Several processes on one directory.** A webhook server, an agent (which hosts
  two engines), wrappers, any number of workers and people's commands read and
  rewrite whole `incident.json` files. In one process a synchronous function is
  atomic; between processes nothing is, except creation of the claim file.
* **Long awaits between a read and a write.** A pipeline run loads the incident
  once, waits minutes for a model, for tests and for a provider, and saves its copy.
* **Crashes.** A run can die at every await. It leaves a claim file, a half-made
  sandbox copy, a dirty sandbox, a pushed branch, an MR nobody recorded.
* **Gates that must agree about the same thing.** The plan, the diff, git's report of
  what changed, the tree that was tested and the tree that is pushed are five
  different sets of files.
* **Windows and limits.** Deduplication, trigger windows and the hourly limit are
  measured from different clocks and pruned together.

What makes the components correct:

* claim: at most one worker processes an incident; a dead worker's claim is not in
  the way for ever;
* incident record: it does not say what did not happen; what is decided is decided
  once; a pending incident is picked up;
* pipeline: nothing restricted or untested is pushed, also when a revert failed and the
  next revision starts on a dirty tree; the loop of revisions ends; the user's own tree is
  left alone;
* engine: one open incident per failure; the hourly limit; no event lost from a
  window that a rule still counts;
* webhook server: an answer of 200 accounts for every event of the body;
* incident memory: what was attempted and what was decided is on record;
* tailer: no line twice and no error reported twice but for what was read and not saved;
  none under another's name; a header not forgotten while its frames are on their way;
* wrapper: every line logged, once, in order and redacted, however the pipes cut it; the
  excerpt kept with an incident shows its error;
* context and model: the frames' files first, what is near before what is far, no denied
  file and no file that was not redacted sent, a bounded number of requests in a run, no
  answer used unrecorded.

## 2. The modules

| Module | Models | Depends on |
|---|---|---|
| `ExclusiveClaim` | what a claim promises: at most one holder, and a free claim is taken again | — |
| `ClaimLock` | `tryClaim`, `releaseClaim`: one action per file-system call | refines `ExclusiveClaim` |
| `IncidentLifecycle` | `incident.json` and everyone who loads and saves it: workers, `open-mr` and the other commands, engines, the provider | extends `ClaimLock`: a worker's claim is the lock protocol itself |
| `IncidentMemory` | the records of attempts and verdicts, written beside other processes | extends `IncidentLifecycle` and implements it |
| `Confidence` | `score.ts`: points and decision | — |
| `FixPipeline` | `processIncidentToMr` from the plan to the pushed branch, with the sandbox it works in | extends `Confidence` |
| `IncidentEngine` | `ingest`: windows, triggers, rate limit, deduplication, by any number of processes over one store whose files can be torn | — |
| `WebhookServer` | the HTTP intake beside other processes that feed engines | extends `IncidentEngine` and implements it |
| `Selection` | `Array.prototype.filter`: the members of a sequence at chosen places | — |
| `ErrorBlocks` | `parseErrorBlock`: the first error report among some lines | extends `Selection` |
| `LogTailer` | the agent's tailer of one log file: polls, rotation, restart | extends `ErrorBlocks` |
| `Redaction` | which patterns are installed, and what they make of a text | — |
| `RingBuffer` | the log buffer with its running count and its bounds, and the excerpt kept with an incident | extends `Selection` |
| `LogWrapper` | two pipes of a program, read in chunks | extends `RingBuffer`, `Redaction`; instantiates `ErrorBlocks` |
| `LogObservers` | the tailer or the wrapper | extends `LogTailer`, `LogWrapper` |
| `GraphBuilder` | which nodes and edges the architecture graph of a project has | — |
| `GraphWalk` | `neighbors` and `dependents`, one queue entry per step | extends `GraphBuilder`, `Selection` |
| `ContextBuilder` | which files the model gets to see, and in which order | extends `GraphWalk` |
| `Investigation` | the calls of the model in one run: provider, gates, retries, audit | extends `ContextBuilder` |
| `MC*` | instances for TLC | |
| `SelectionLemmas` | what `Selected` and `Among` return: the types, the order and the members of what they select, and how they go with concatenation | `Selection` |
| `IncidentLifecycleProofs` (also those about `ClaimLock`), `IncidentMemoryProofs`, `FixPipelineProofs`, `IncidentEngineProofs`, `WebhookServerProofs`, `LogObserversProofs`, `InvestigationProofs` | the theorems | the module of the name; the proofs of a module that extends another rest on the other's, and those about sequences that are filtered on `SelectionLemmas` |

### ClaimLock

`pc[w]` is the place of worker `w` in `tryClaim` (store.ts:105-133): `idle` before the
call, `stat` after a failed exclusive open, `remove` when the lock was found stale,
`reopen` before the second exclusive open, `working` between a successful claim and
`releaseClaim`. `lock` names the creator of the file (the code cannot see it) and
`age` its age. `Crash` and `Restart` are the environment; `Tick` is the clock. A worker
that is not in `Slow` is done, or dead, before its own file is older than `StaleAge`
(`Overdue`): this is the assumption "an incident takes less than 30 minutes".

### IncidentLifecycle

`inc` is the file (status and event count), `copy[p]` the record a process has loaded,
`stage[p]` where it is between its load and its save. `ListPending` is the read of the
list at the start of a pass; `TryClaim` is one step of `ClaimLock`; the steps of `Run`
are those of `processIncidentToMr` between two awaits at which another process can see
a difference. `CommandLoad` / `CommandSave` are the other commands, with the await of
the model between them for `analyze`; `OperatorDies` ends a command between any two of its
steps. `EventFindsIncident` / `EventSaved` are the two
halves of `ingest` on an existing incident. `pr` is the provider's side. What happens
inside the `fixing` stage is the subject of `FixPipeline`.

### IncidentMemory

The two Markdown files of `incident-memory.ts`, composed with the lifecycle. `pen[r]` is how
far a process is with its record: it has yet to `look` whether the file exists
(`existsSync`), is about to write the `title` (`writeFileSync`, which empties the file), or
to append the `record` (`appendFileSync`). `history` and `feedback` hold the processes whose
records are in the file, and `lost` says whether a late title wiped any. A verdict is
recorded after it was saved (incidents.ts:148-149), and a command may end in between
(`CutCommand`): the ghost `cut` has those that did. A step of a run
that follows the record in `processIncidentToMr` waits for it (`OnRecord`), so each action
is an action of `IncidentLifecycle` with a condition on the pen, or leaves the lifecycle
alone.

### FixPipeline and Confidence

A file is a model value and a patch a set of files. A tree is described by what differs
from the snapshot: `base` by commits, `dirty` by uncommitted changes. `copied` tells what
`prepareWorkdir` has made: nothing, a copy without a repository (`partly`), a repository
without the commit of the snapshot (`bare`), or all of it. The code looks at no exit code
there but that of `git init`, so `FinishCopy` may end in each of the last three; while the
sandbox has no `.git` of its own git finds the user's repository, which is `Place`.
`run[r]` are the locals of a run and the await it is at. Each run may be interrupted at each
await (`Interrupt`), and a later run finds the tree as it was left. `Report` is what
`git status --porcelain` says. `RevertAll` is `revertAll`, whose git commands may fail
unnoticed: it clears the tree or leaves any part of it. The ghost `tested` is what the
workdir holds when the patch is in, before the install and the test commands run;
`CommandsWrite` is what these write next to it, which the push takes along. `Confidence`
translates the whole table of points of `score.ts`; the pipeline's gate quantifies over
all evidence that the run does not determine.

### IncidentEngine

`recent[e]`, `created[e]` are the fields of an engine; `store` the incidents in order of
creation; `deployed` the file of deploys. `ingest` is one synchronous function, so in one
process it is atomic; its first half (filter, window, triggers, limit, look-up) and its save
are steps of their own because other processes run between them. The save is two steps
again: `OpenNew` or `OpenCounted` empties the file (`whole` becomes false), `Fill` writes
it. `pending[e]` is what the process is about to do. Whoever lists the store while a file is
torn, or after a process ended between the two steps, throws (`Torn`, `Throw`): a request
handler catches that (`Catch`), a timer or a stream does not, and the process ends (`Die`).
If two processes fill one file, the end of the longer text may stay behind the shorter.
`Restart` takes a tick, so that what a process did before and after can be told apart.
`heard`, `started`, `raced` and the fields `born`, `by`, `touched`, `forced`, `whole` of an
incident are ghosts.

### WebhookServer

`buildWebhookApp`: a server (one of the engines) works on one request at a time. `Receive`
is the gate of the route: `Refusals` has the statuses of a missing secret, a wrong
signature or token, a body that is not JSON, a receiver that is off. `Handle` normalises the
next item of the body (`Normal`, per route) and ingests it; `SaveHandled` is the save of it;
`Answer` is the 200 with the incidents `named`. An item that cannot be read, or a save that
throws, ends the request with 400 and leaves what was ingested before (`FailToRead`,
`FailToSave`). For OpenTelemetry all spans are read first and the harmless ones passed over.
The processes that are no server (`kafuops run`, the tailer of the agent) feed their engines
with what they `Observe`.

### LogTailer and ErrorBlocks

The observed program writes a `Script` of lines byte by byte: a line is two bytes, its
text and its newline, so that a poll can see half of one. `wrote` and `base` are the
program's and the rotation's side of the file; `cursor` is `FileCursor` of tailer.ts,
`measured` the size a poll has seen, `saved` the offset in `tailer-state.json`. A poll is
one synchronous function, but the program, a rotation and the end of the process come
between its file calls, so `Stat`, `Read` (or `ReadFails`) and `Save`, which may fail
unnoticed, are steps. `EndOfProcess` may come at each of them: between `Read` and `Save` it
is an event handler that throws (tailer.ts:153-155) as well as a kill. A line is known by
its number, and of its text `ErrorBlocks` keeps what the regular expressions of parser.ts
tell apart. `read` and `events` are ghosts: what was pushed to the ring buffer, and
which reports were emitted. So are `unsaved`, the lines read since the last save of the
offset, and `again`, those that the next start will read once more because the process
ended before the save, or the next poll because the file was rotated after its `stat`.

### LogWrapper, RingBuffer, Redaction and LogObservers

A byte is a word of a line or the newline at its end, so a chunk may end in a line, in a
secret, or between a header and its frames. `output` is where the program is in what it
writes, `pipe[s]` what nobody has read of a stream yet. `Data` is the whole of `handleData` for what is
in one pipe: the half line and the chunk are joined, cut into lines (`Processable`,
`Remainder`), and each piece is redacted and pushed to the buffer before the text is
searched for a report, whose incident gets an excerpt (`Keep`). Like the code, it passes
on a chunk without any newline, and a text that ends with one, as it is. The handler of the
event runs inside `handleData`; when it throws, the wrapper is over (`HandlerThrows`).
`ExitEvent` may come while output is still in the pipes. `Redaction` gives a word for each kind of text the
default patterns tell apart; `Patterns` is the list after the user's patterns (a name that
is set again keeps its place, an unsafe one is refused), and the time may run out after any
of them. `RingBuffer` has the entries and `bytes`, the count that `push` adds to and `prune` subtracts
from: by age from the front, then by that count, and never the last entry.
What the engine makes of a report is left open. `LogObservers` puts the two observers side
by side: they share no state, and one run checks both.

### GraphBuilder, GraphWalk, ContextBuilder, Investigation

These four are one run's way from an incident to the model and back, layer by layer.
A project says what each file imports, requires and handles, and `BuiltGraph` makes its
edges; a test has two nodes, as the code gives it, and a Python file gets no edges of tests,
as only the regular expression for JavaScript looks for its name. `walk` are the locals of the
breadth-first walk that is under way: `Dequeue` is one turn of its loop, and in which
order an identifier's edges are stored is left open. `ContextBuilder` collects
candidates, frames first, then what the walks find, then tests; sorts, cuts and
filters them. Of their texts the bundle has the flag `redaction_applied` and, beside it,
what the redactor really did (`texts`: all, part of it when its time was over, or nothing).
When the bundle is there the graph and the candidates are forgotten, as
the locals of a function are. `Investigation` makes the orchestrator with some
settings (`ChooseProvider`) and goes through the calls: `call` is the request under way,
`requests`, `used` and `audited` are ghosts. `RawParts` is what a request carries besides
redacted files. `FakeAnswer` is the dry run. What sandbox,
policy and score decide is left open here: any outcome that `FixPipeline` has.
`FindAffected` is the walk of the blast radius; its result is only reported.

## 3. What the runs check

| Run | Instance | Checks |
|---|---|---|
| `claim_prompt` | 3 workers, none dies or is slow, stale after 3 ticks | `AtMostOneWorker`; `ImplementsExclusiveClaim` (refinement with its progress) |
| `claim_crash` | 3 workers, 2 may die anywhere, restart or not | `AbandonedLockIsStolen` |
| `claim_steal_race` | 3 workers, 1 may die | **violated:** `AtMostOneWorker` |
| `lifecycle_all` | 1 worker that may die, whose lock is stale after a tick, 1 person with three commands, each of which may die, 1 engine, 2 events, and the memory files | `MemoryTypeOK`, `MrStatusIsReal`, `CountsOnlyRealEvents`, `DecisionsAreOnRecord` |
| `lifecycle_lone` | 1 worker that may die | `DecidedOnce`, `PendingIsPickedUp` |
| `lifecycle_stale_list` | 2 workers that do not die | **violated:** `DecidedOnce` |
| `fix_rerun` | 1 sandbox, 2 runs after each other, 4 kinds of file, tests that write a file, git commands that fail unnoticed | `TypeOK`, `AppliedPushIsAllowed`, `UntestedIsNotPushed`, `RunEnds` |
| `fix_half_copy` | 2 runs; a run may die while copying, or git may fail there | **violated:** `UserTreeUntouched` |
| `engine_one` | a webhook server that may be restarted, a wrapper over the same store, a rule of each kind, 5 requests, 3 arrivals | `ServerTypeOK`, `TriggersSeeWholeWindow`, `RateIsKept`, `DuplicatesBounded`, `NoDuplicateOpen`, `AnswerIsTrue` |
| `tail_polls` | a log of 6 lines with three errors, 1 rotation and 1 end of the process at any file call of a poll, saves that fail, 1 restart; or the two pipes of a program, 3 lines with an error and secrets | `ObserversTypeOK`, `NoLineTwice`, `TopFrameIsOwn`, `ReportedOnce`, `HeaderIsReported`; `LinesInOrder`, `SecretsStayOut`, `BufferIsBounded`, `LogsShowError`, `LineArrives` |
| `tail_restart` | the same log, without a rotation, ended between two polls | **violated:** `NoGap` |
| `investigation` | 1024 projects of 8 files, 7 stack traces, every setting | `TypeOK`, `WalkIsExact`, `NearestFirst`, `FramesComeFirst`, `SentIsAllowed`, `RequestsBounded`, `UsedIsAudited`, `InvestigationEnds` |

### What the four violated properties show

* `claim_steal_race`. Two workers `stat` the same stale lock. The first removes it and
  creates its own; the second then removes *that* (`rmSync` does not look) and creates
  its own. Both process the incident. A rename, or a second look at the file's identity
  before the removal, would close it.
* `lifecycle_stale_list`. `runWorkerOnce` reads the list once and works through it for as
  long as it takes. An incident that another worker decided and released meanwhile is
  claimed and processed again, because the status is not read again under the claim.
* `fix_half_copy`. `prepareWorkdir` takes a directory that exists for a finished copy. If
  the process died before `git init`, or `git init` failed, which is passed over, the git
  commands of that run and the next find the user's repository, reset it and commit to it.
* `tail_restart`. A poll counts half a line as read although its text is only in memory.
  When the agent is restarted it goes on behind that half: the line is lost, and if it
  was a header its error is never reported. tailer.ts:104 promises "no re-read, no gap".
  (The first half of that promise is among the deviations that follow.)

More deviations were seen while modelling, and are described here only. Where a property
of a passing run allows for one, it names it:

* tailer.ts:104 and CHANGELOG.md:120 promise "no re-read". A handler of an event that throws
  ends the poll, and the process, between the read and the save (tailer.ts:153-155), a save
  that fails is passed over (68-77), and a rotation between `stat` and read leaves the offset
  beyond the end of the file, which is then read from its beginning. What was read in such a
  poll is read, and its errors reported, a second time (`NoLineTwice`, `ReportedOnce`: the
  lines of `again`);
* a mark command that ends between the save of the incident and the record of the verdict
  (incidents.ts:148-149) leaves a verdict that no later context will show
  (`DecisionsAreOnRecord`: `cut`);
* what the install and the test commands write is committed and pushed with the patch
  (`git add -A`, github.ts:56) although it came after git's report, so neither the gate over
  changed files nor the tests have seen it (`UntestedIsNotPushed`: `Written`);
* `revertAll` does not look whether its git commands succeed (runner.ts:205-211), so a revision
  may start on what the last one left, while pipeline.ts:97 says "reset to its clean snapshot
  each round". What is left is still in git's report, so the gate sees it
  (`AppliedPushIsAllowed`);
* docs/REDACTION.md:89-95 wants no model call when redaction fails. But only the files of the
  bundle go through the redactor: the notes of the memory and the git history, the failed
  patch and the output of its tests (runner.ts:322, pipeline.ts:106-108,
  orchestrator.ts:234) are sent as they are, and a redaction that ran out of time still sets
  `redaction_applied` (redaction/index.ts:143), which is all that the gate before a call looks at
  (`SentIsAllowed`: `RawParts`);
* a run that throws, or ends without a fix, leaves its incident pending, and a worker asks
  the model again at each pass: `RequestsBounded` bounds one run, not what an incident costs;
* when all attempts are used and none of the diffs applied, the loop is left with
  `patchApplied` false and the pipeline goes on: the gate over changed files has nothing
  to look at, the score uses the tests of the unpatched tree, and an MR can be opened
  (docs/MR_GENERATION.md:137 wants the patch "applied cleanly");
* look-up by fingerprint and creation under a random name have no lock between them
  (engine.ts:72 and 88), so two processes that ingest one failure create two incidents
  (STATUS.md:89 calls creation "cross-process safe");
* `open-mr` takes no claim, although the comment at worker.ts:28-29 counts on it, so a
  person's run and a worker's run can be under way on one incident, in one sandbox;
* a run that loaded the incident before a reviewer's verdict saves its old copy over it:
  a rejected incident is `analyzed` again (docs/INCIDENT_WORKFLOW.md:20-23 ends there);
* a sandbox that is reused may hold the commit of an earlier run whose MR was refused,
  and revisions start from that commit, not from the snapshot (pipeline.ts:97);
* `git status --porcelain` names a new directory, not the files in it, so a restricted
  file in a new directory is matched against the policy as its directory (the constant
  `Hidden`). The properties about restricted files hold for `Hidden = {}`;
* an audit record is written only for an answer that parsed (orchestrator.ts:386), while
  docs/FAQ.md:33 and schema.ts:161 speak of every call: `UsedIsAudited` states what
  holds, that no answer is *used* without one;
* a bundle without any file goes to the model like any other, while
  docs/ERROR_TRIGGERED_LLM.md:9 says "No relevant context → no model call";
* a command-line provider that runs into its time limit fails with a text that
  `isTransientLLMError` does not know, so it is not tried again (schema.ts:142 lists
  timeouts). The SDKs of the other providers retry by themselves too: `RequestsBounded`
  counts calls of the SDK;
* the tests of a frame's file are to be strong evidence (builder.ts:66-73), but each is
  there already as a graph neighbor, and stays of medium strength: in `AddTests` the set
  of new tests is always empty;
* the rule `alert_webhook` opens for the severities of schema.ts:23-24 (critical, high,
  warn, info), but Sentry and Datadog say "error" and Alertmanager "warning", which nobody
  maps: with the default rule an error of Sentry opens nothing, although
  docs/integrations/SENTRY.md:7 leads from an error to an MR;
* Alertmanager's `startsAt` is taken for the time of the event. For an alert that has been
  firing for a while it sets `last_seen` back, so the next alert is outside the window of
  deduplication and opens a second incident;
* a batch whose second item cannot be read is answered 400 after the first was ingested;
  a sender that repeats the request counts the first again. `AnswerIsTrue` is therefore
  about 200 only;
* sdk/node.ts:56-57 says that the SDK "Does not change the process's own crash behavior",
  but a listener of `uncaughtException` keeps the process from ending;
* the wrapper passes on a chunk without a newline as a line (wrapper.ts:81-92), so a secret
  or a header cut in the middle of a line is seen as two texts. It looks for a report in
  each chunk by itself, and `exit` may come before the pipes are drained, so the last
  output of a program that crashed, which is what it is there for, can be lost. A program
  ended by a signal is reported with status 0 (`code ?? 0`, run.ts:56);
* one torn `incident.json` makes `list()` throw for every command and every process, until
  somebody repairs it;
* when the time of the redaction is used up, the patterns that are left are skipped and the
  text is passed on; a private key of several lines never matches, line by line;
* an excerpt that is too long keeps its oldest lines and cuts off the error at its end.
  `LogsShowError` holds where an error and its lines fit (`MaxChars`);
* the memory files are a "durable trace" (incident-memory.ts:16-17), but two processes that
  both find no file both write its title, and the later one empties the file.
  `DecisionsAreOnRecord` allows for it by `lost`. Runs that end blocked or without a
  fix leave no record, though the file says "after each processed incident", and no record
  has the address of the merge request.

### The bounds, and why they are enough

* *Workers.* Each race of the lock needs one process that has died or been slow and two
  that compete for its lock: three workers. The theorems about the lock hold for any
  number.
* *`StaleAge`* of 0 to 3 ticks: ages are compared with it only.
* *Lifecycle.* Two writers are enough to lose or resurrect a field, three
  (a worker, a person, an engine) to do so in a chain; two events, one to open the incident
  and one to be lost. The commands are the three kinds there are: one that runs the whole
  pipeline, one that awaits the model between load and save, one that gives a verdict. The
  theorems are for any number of processes and events.
* *Files.* The gates tell four kinds apart (free, never to be modified, only with
  approval, critical), and one file of each is in the instance. `FewPatches` and
  `AllPatches` name one file of each kind and a mixture.
* *Two runs, two or three attempts.* A run sees the past only through the sandbox, whose
  state (copied or not, dirty or not, committed or not) one earlier run can bring about
  in all its combinations.
* *Log.* Three errors put one report before another, and a Python one, whose frames come
  before its message, after Node's. A window of 5 lines of a script of 6 makes a line fall
  out of it: `HeaderIsReported` says what happens to a header unless a burst of lines pushed
  it out (`Flooded`). `FrameReach` is 3 instead of the 60 lines of the code, between the
  shortest report and the window, as there. One restart and one rotation each: the tailer
  knows of the past only its offset. In `tail_polls` either may come at every file call
  (`EndsAt` and `RotatesAt` have all phases); `tail_restart` needs no more than an end between
  two polls.
* *Graph.* Every subset of 8 imports, with or without a shared package and a route, with
  cycles, two ways to a node, paths longer than either walk, an import of a file without a
  node; and a Python file with its test. Of the denied, the vanished and the harmless files
  there is at least one, at several distances from the frames. The depths
  and the number of retries and attempts are those of the code.
* *Pipes.* One pipe with one line, one with a report of two, each word a piece that a chunk
  may end in; a mail address in the header and a key in the frame, patterns of the user
  before and against the default ones, and a time limit that is met or not. The buffer is
  smaller than the output and its entries age within the run.
* *Engine.* Windows of none, one and two ticks over three ticks put events inside, at the
  edge and outside each window; three arrivals reach the thresholds (2 events, 1 incident),
  and suffice for a look-up that another process's save overtakes. One request of each
  kind: a batch with a part that cannot be read, one that is refused, one that is late. The
  theorems are for any windows, rules, limits and processes.
* `MaxEvents`, `MaxRuns`, `MaxTime`, `MaxArrivals`, `WrapperTime` bound counters and only
  cut behaviours short. The runs over such bounds stop there, which is why they do not check deadlock;
  the claim and lifecycle runs that pass do.

### Fairness

Seven properties need it. `claim_prompt` and `claim_crash` assume that a worker that
does not crash keeps polling (`runWorkerLoop` is an endless loop) and that time passes;
nothing is assumed of workers that may crash: they may stay dead. `lifecycle_lone`
assumes that a living worker goes on, each of its awaits settling one way or the other
(a throw is one way of settling), and its property is
conditional: deaths cease and some worker is alive in the end. `fix_rerun` and
`investigation` assume that each await of a run settles. For the commands of the user, `git
apply` and the command-line providers the code has time limits, and the clients of the
models have their own; `git push`, the other git commands and the calls of GitHub and
GitLab (Octokit, `fetch`) have none, so there it is an assumption about the world:
`PendingIsPickedUp` and `RunEnds` say nothing of a run in which one of these hangs.
`InvestigationEnds` does not reach the provider. `tail_polls` assumes that the
program goes on to log, that `setInterval` polls for ever, and, strongly, that a file
that can be opened again and again is read at last (`ReadSucceeds`, the part of `Read` that
says when it is possible; a read may fail in between); of the wrapper, that Node calls the
handler of a pipe that has data (weak fairness of `Take`, whatever chunk it gets: `Data` is
possible whenever `Take` is). Each
condition is on the observer that runs. No fairness is assumed of people, engines,
servers, providers or restarts.

## 4. What is proved

The proofs are for all values of the constants that the named assumptions of each
module allow.

* `LockTyping`, `LifecycleTyping`, `MemoryTyping`, `FixTyping`: the type invariants.
* `ClaimMutualExclusion`: with `Crashable = {}` and `Slow = {}`, at most one worker
  works. The property is not inductive: the inductive `PromptInv` adds that the file is
  there exactly while its creator works, that nobody is about to remove it, and that it
  is not older than `StaleAge`. `claim_steal_race` shows that the condition on crashes
  cannot be dropped.
* `ClaimImplementsExclusion`: from the same invariant, each step of the lock protocol is
  a step of `ExclusiveClaim` or leaves the holders alone.
* `IncidentTellsTheTruth` (`MrStatusIsReal`): whatever copies are saved over each other,
  the record never claims an MR or a merge the provider did not make. The strengthening
  is that every *copy* in the hands of any process is true as well, and that a process at
  a stage after the provider's answer has that answer; both hold however old the copy is
  because what was ever created or merged stays so.
* `NoPhantomEvents` (`CountsOnlyRealEvents`): no copy counts more events than were
  ingested, and a process about to count one has had it counted.
* `PushedIsTested` (`UntestedIsNotPushed`): what a run is about to push has passed its
  tests, and is what they started on but for files that the install and the test commands
  wrote, provided the approval threshold is above 80 and one run follows the other
  (`OneAfterTheOther`). One half is arithmetic over the table of points: without passed tests
  no evidence brings the score above 80 (`UntestedScore`), so the decision is to block or to
  ask for approval (`UntestedDecision`), and either ends the run before the push. The other
  half is `WorkInv`: from the patch on, the tree the run works in holds what was there when
  the tests began, and beyond it only what they wrote, whatever earlier rounds and runs left.
* `GateCoversTree` (`AppliedPushIsAllowed`): under `Sequential`, which adds that git names
  every file (no new directories) and that the tests write nothing restricted. `GateInv`
  ties what a run believes it changed to what is dirty in the tree it works in, at each
  await. It holds although copies, commits of the snapshot and reverts may fail unnoticed:
  what they leave is dirty, and so in the report. The runs show that these properties fail
  when the conditions are dropped.
* `LifecycleUsesLock`, from which `PromptRunsDoNotOverlap`: the workers of the lifecycle use
  the lock as `ClaimLock` says, and a worker is in a run only with the claim in its hands
  (`ClaimedRuns`), so the mutual exclusion of the claim is one of the runs.
* `LoneWorkerDecidesOnce` (`DecidedOnce`): for one worker that may die anywhere, with no
  person and no engine beside it. What it listed, claimed or began is undecided still
  (`ListIsFresh`), although it looks at the status only before the claim;
  `lifecycle_stale_list` shows that a second worker makes the list stale.
* `MemoryImplementsLifecycle`: every step of the processes that also write the memory files
  is a step of `IncidentLifecycle` or leaves it alone; so `MemoryKeepsIncident` follows from
  the theorems above without a new argument.
* `RecordsHold` (`DecisionsAreOnRecord`): the property speaks of an incident that is decided;
  the inductive `MemoryInv` says of each process, at each stage, where its pen may be
  (`PenTrue`), and that an engine never holds a copy with a verdict (`CountsOnOpen`),
  without which its save could bring a verdict back that nobody recorded. A command that dies
  before it has recorded its verdict is in `cut`, and nothing else leaves a verdict without
  its record.
* `TypesHold`, `RulesMissNothing` (`TriggersSeeWholeWindow`): the window in memory is the end
  of what the process heard, without a gap, and everything before it is older than the
  longest window of the rules (`WindowInv`). The property alone is not inductive: it does
  not say that what was pruned was a beginning.
* `DuplicatesComeFromRaces` (`NoDuplicateOpen`): `RaceInv` says of a process that is about to
  create what its look-up knew, as long as nobody raced it.
* `DuplicatesDoNotAddUp` (`DuplicatesBounded`): however often processes race, and whatever is
  closed and brought back by an old copy, of one failure no more incidents are open within
  the window of deduplication than there are processes. To bound what is open is not
  inductive: a process may hold a copy that opens one again. `CrowdInv` counts the incidents
  that are open, or aimed at by a save that is under way, together with the processes about
  to create one. It needs finitely many processes, as cardinality does.
* `LimitIsKept` (`RateIsKept`): the incidents opened by the triggers of a life of a process
  are those in `created`, plus the one about to be saved (`RateInv`, `PlanInv`), whether or
  not a save threw or the process ended in the middle of it. The induction over the times of
  the incidents is a minimal counterexample (`WFMin`).
* `ServersImplementEngine`, from which `ServersKeepEnginePromises` (the window, the limit, both
  properties about duplicates): a server does nothing to its engine that `IncidentEngine` does
  not describe. `ServerTypesHold` is the type invariant.
* `AnswerHolds` (`AnswerIsTrue`): each item that a request has behind it is settled, or in the
  process's hand (`AnswerInv`), at each step, whatever other processes save in between;
  `Answer` is reached only with nothing in hand.
* `RequestsAreBounded` (`RequestsBounded`), `UsedAnswersAreAudited` (`UsedIsAudited`):
  `CallInv` gives each call of a run an allowance, which is what the calls before it may have
  used, so retries and revisions together stay within one product; it ties the call under
  way to the settings it was admitted with. The bound is of one run and of this code's own
  requests.
* `RequestsArePermitted` (`SentIsAllowed`): from the same invariant and from `ContextInv`,
  which says of each stage what the candidates and the bundle are made of. The theorem says
  which parts of a request are redacted and allowed, the files, and names the others.
* `WalksAreExact` (`WalkIsExact`), `WalksFindNearestFirst` (`NearestFirst`): for any graph, any
  order of its edges and any number of hops. `WalkRight` is the invariant of a breadth-first
  walk: the queue ascends, by one at most; each entry has the distance of its node; all that
  is as near as the head of the queue has been seen; what has left the queue has been
  expanded. The distance is defined by the sets that are reached in a number of hops, and the step from
  one such set to the next is what a turn of the loop does, so no induction over paths is
  needed. That files are finitely many (`ProjectAssumption`) makes the neighbors of a node a
  sequence.
* `FramesAreFirst` (`FramesComeFirst`): the frames lead the candidates (`FramesLead`), and the
  stable sort, the cap and the filters, which are selections of places, keep it so.
  `TypeCorrect` is the type invariant.
* `TailerTypes`, `NoLineIsReadTwice` (`NoLineTwice`), `ErrorsAreReportedOnce` (`ReportedOnce`):
  for any places where the process ends and the file is rotated. Lines are settled that were
  read and are not in `again`. `TailInv` is about the edge, which is how far the log has been
  read: what is settled is up to it (`SettledUpTo`), the half line in `cursor.partial` is behind
  that and ends there, and what is settled and was saved is up to the saved offset
  (`SavedUpTo`), from which the next process starts. `ReportInv` adds that the header of a
  report has left the window, unless it is in `again`.
* `ReportsHaveTheirFrames` (`TopFrameIsOwn`): wherever the process ends and whenever the file
  is rotated. The property could fail in two ways: the window could join lines that were not
  neighbors in the log, or the log itself could have a frame of one error within reach of
  the header of another, as two threads would write it. The second is excluded by an
  assumption on the log, `Unmixed`, which TLC evaluates for the log of the run. The first is
  what is proved: while the file was not rotated, half line and window are one unbroken
  stretch of the log that ends where the offset is (`WindowInv`); what a restart loses is
  lost before the window begins. `OneLifeLeavesNothingOut` is the counterpart of
  `tail_restart`: without a restart there is no gap (`NoGap`).
* `ObserversTypes`, `LinesStayInOrder` (`LinesInOrder`), `SecretsAreKept` (`SecretsStayOut`),
  `BufferKeepsItsSize` (`BufferIsBounded`), `ExcerptsShowTheirError` (`LogsShowError`): for any
  output, pattern list, time and limits, from `WrapperInv` (`NothingIsMixedUp`). It says of
  each pipe that the half line and what is unread are one text, each byte followed by the
  next that the program writes to that pipe, up to where the program is, and that it begins
  with a line unless a chunk cut it (`flushed`); of the buffer, that its pieces are in order, behind
  all of that text, and redacted, or pieces of a line that was cut or met when the time was
  over; and that the running count is the sum of what the entries take (`bytes =
  Bytes(entries)`), over each push and both loops of `prune`, so the count that the loops
  look at is the size. The excerpt is a fold over the buffer that keeps a beginning of it.

Checked by TLC only: what is temporal (`AbandonedLockIsStolen`, `PendingIsPickedUp`, `RunEnds`,
`HeaderIsReported`, `LineArrives`, `InvestigationEnds`, the progress part of
`ImplementsExclusiveClaim`), since it rests on fairness. Every invariant and every action
property that a passing run checks is a theorem.

## 5. What is left out

* Text: what the parsers of payloads, of log lines and of imports read off it, regular
  expressions (`Redaction` tells apart the kinds of words the default patterns look for),
  `redactJson`, prompts, summaries, and the form of fingerprints.
* Torn files in `IncidentLifecycle`: a save takes effect at once there. `IncidentEngine` has
  saves in two steps and what a torn file does to whoever lists the store.
* Glob matching: a policy is the set of files it matches.
* Time limits of commands (of which only the shell is killed, not what it started), the
  command allow-list, and wording of the merge request.
* The provider's side beyond "created / merged / closed, and the answer may be lost".
* Two pipelines in one sandbox at once. `FixPipeline` can have them (`Runner`, `InPlace`),
  but with them the properties about the tree fail, as nothing keeps the runs apart.
* The logs, notes and focus lines of the bundle, and concurrent runs of `Investigation`,
  which share nothing but the directory of audit records.
* The update check (a failed one is not cached, so each start tries again), the project
  scanner, the configuration, the wizard, the evaluation harness and the commands that only
  report: sequential, or a matter of text, without a state that several steps share.
* The SDK, except for the requests it sends.

## 6. The plan

Done, in this order, because a mistake there acts on the user's repository, loses
work or spends the user's money: the claim, the incident record, the fix pipeline, the
engine, the tailer, the way to the model; then what surrounds them: the engine as several
processes over files that can be torn, the HTTP intake, the wrapper with its buffer and
redaction, the memory files.

Next, in this order:

1. Torn files in `IncidentLifecycle`: a worker loop that meets one.
2. Refinements: the calls of `Investigation` as the model's side of `FixPipeline`; the
   lifecycle's stages as an abstraction of `FixPipeline`.
3. Theorems: what of `AppliedPushIsAllowed` is left for new directories and tests that write;
   a bound on the lines that a restart can read twice.
4. `UpdateCheck`: the cache and its time to live.
