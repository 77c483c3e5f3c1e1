# A TLA+ model of DocSentinel

DocSentinel accepts security documents, has a pipeline of LLM calls draft an
assessment, keeps the draft until a person decides about it, and records who
changed what in an audit log. This directory holds TLA+ modules of the parts of
the server whose correctness depends on order, failure and concurrency, or on
rules that combine in ways a test hardly covers; the TLC configurations that
check small instances of them; and TLAPS proofs for every value of the
constants. Paths below are relative to the repository.

## The system

One `uvicorn` process (Dockerfile:41) serves the REST API, the MCP and A2A
gateways and the frontend. Handlers are `async def` and use a synchronous
database session: between two awaits a handler is atomic in its process.
SQLite is the default database, PostgreSQL the other one documented.

| Component | State | Operations | Hard part | Module |
|---|---|---|---|---|
| Assessment tasks (`app/services/assessment_service.py`, `assessment_store.py`) | rows of `assessment_tasks`; the table `_tasks` and the coroutines `_active` of the process | submit, get/list, comment, review, remediation, cancel, resume; the coroutine `_run` | two copies of a task, three kinds of writers, retries, stops of the process, saves that raise | `AssessmentTasks`, `TaskLifecycle` |
| Audit log (`app/api/governance/utils.py`) | rows of `governance_audit_logs`, each naming the hash of the one before | append at the end of another handler's transaction; export | two transactions at once; the wall clock orders the rows | `AuditChain` |
| Gates (`app/api/governance/submissions.py`) | `gate_submissions`, `requirement_rows`, `evidence_items` | upsert, submit, review, row update, evidence | transition table, separation of duties, content that changes under review | `GateReview` |
| Sub-agent runs (`sub_agents.py`) | `sub_agent_runs` | get-or-create, status change, output | created by requests that are refused; output in any status | `SubAgentRuns` |
| Controls (`control_generator.py`, `questionnaire_generator.py`, `controls.py`, `projects.py`, `admin.py`) | `projects`, `control_instances`, evidence, questions, answers | create, generate, regenerate, answer, add evidence, review, change the organisation's frameworks | one row written by four operations; commits half-way; answers that reach some controls | `Controls` |
| Pipeline (`app/agent/`) | none of its own; adds control rows | a linear graph of LLM calls | side effects repeated by retries; cutting and citing | `AssessmentPipeline` |
| Critic (`evidence_critic.py`) | none | passages, ranking, verdicts | what is kept of an answer | `EvidenceCritic` |
| Release gate, SLSA (`evidence_gate.py`, `slsa_verifier.py`) | none | verify, evaluate | precedence, waivers that run out | `EvidenceGate` |
| S2O rules (`s2o_rule_engine.py`) | none | evaluate an intake or a project | first match wins, defaults | `RuleEngine` |
| Rate limiter (`app/core/ratelimit.py`) | a bucket per client, in memory or in Redis | allow | several clocks, expiry, fallback | `RateLimiter` |
| Knowledge base (`app/kb/`, `light_rag.py`, `graphify_kb.py`) | vector store, graph, files, a cached index per process | ingest, re-index, policy upload, query | stale index, partial failure, a loop that can die | `KnowledgeBase`, `Retrieval` |
| LLM configuration (`llm_config_store.py`, `llm/base.py`) | settings, a file, a cached client | update, load, get | memory, file and client diverge | `LlmConfig` |
| Skills (`skills_service.py`) | a dictionary and a file | load, create, update, delete | a save that is cut off | `Skills` |
| Intake (`api/assessments.py`, `mcp_server.py`, `agent_gateway/`, parsers, guardrails) | calls, A2A tasks in memory | assess, get, query, wait | who is admitted to what; all files or no task; time-outs | `Intake` |
| Policy packs, exports, frontend, migrations | read-only or none | | | not modelled |

How they interact: the gateways and the REST API call the assessment service
(`Intake`, then `AssessmentTasks`); its coroutine calls the pipeline
(`AssessmentPipeline`), which queries the knowledge base (`Retrieval`), asks the
rule engine and the critic, and adds control rows; the handlers of gates,
controls and sub-agent runs append to the audit log at the end of a
transaction (`AuditChain` models that append for any of them). Each module takes
what it gets from another as an input, for all inputs of its bound: `Intake`
lets a task end at any time, `AssessmentTasks` lets the runner return, raise or
hang, `AssessmentPipeline` takes any number of chunks and any verdict.

## What is modelled

### `AssessmentTasks` (and `TaskLifecycle`)

State: the rows `db`, the process's table `mem`, the state of each coroutine
`coro`, a delivered-or-not cancellation `cancelling`, the process `phase`, and
`mine`: an idempotent resubmission replaces the table's dict by a copy, and then
`mine[t]` is the dict the coroutine still writes to. A task keeps what the
properties tell apart: status, comments, whether it has its report and its
inputs, the attempt count, whether remediation is tracked, and `typed`, whether
its id and times are Python values (a new task) or text (read from a row).

| Action | Code |
|---|---|
| `Submit`, `SubmitAgain` | `submit`, without and with an existing idempotency key |
| `Read` | `_record` as used by `get`, `list`, `activity`, `wait_for_terminal` |
| `AddComment`, `Review`, `UpdateRemediation` | the handlers of these names |
| `CancelIdle`, `CancelActive` | the two branches of `cancel` (called by no route: `CancelExposed`) |
| `Start` | `_run` up to the await of the runner |
| `RunnerReturns`, `RunnerTransient`, `RunnerRaises`, `RunnerCancelled` | the four ways the await ends, each with every save that follows and every exception these saves may raise |
| `CancelledBeforeStart`, `Reaped` | asyncio and the done callback |
| `Crash`, `CrashBetweenSaves`, `Shutdown`, `Drained`, `Startup` | the process; `Startup` is `resume_incomplete` |

A save is `SaveSucceeds` or `SaveRaises`: both enter the dict into the table,
only the first writes the row. `Storable` says whether the backend accepts the
dict: a `Uuid` column of SQLAlchemy refuses text on SQLite (`NativeUuid = FALSE`)
and passes it on to PostgreSQL. Tenants are kept for the idempotency key; that a
handler refuses another tenant's task is a guard.

`TaskLifecycle` is the promise to the user: a task is accepted with its inputs,
ends with a report or without one, and a draft is decided upon once; a `mishap`,
a save that raised although the backend takes the dict, can cost a task that is not decided
upon a failure beside its report (`Break`), and no more. `AssessmentTasks` implements
it with `stage`, `inputs` and `report` read from the row and `mishap` from `faults`.

### `AuditChain` (and `TenantChain`)

Each process is a writer: `Read` (flush of the change, if there is any, and snapshot
of the tenant's rows), `Add` (wait for FOR UPDATE, take the time, add a row that names
the newest one read), `Commit` or `Rollback`, which is also the stop of a process. What
a handler has flushed is `resource`: all of the database in SQLite, one row of a
resource in PostgreSQL, locked from the flush to the end of the transaction (`Locks`).
A handler may have nothing to flush (`NoChange`): an upsert without content and a row
update that sets what is there (`submissions.py:203-229`, `337-348`), and
`submit_answers`, which commits its answers before it looks at the log
(`ChangeFirst`, `questionnaire_generator.py:261`). In SQLite such a handler gets a lock only when its row is
inserted (`MayWrite` in `Commit`). In PostgreSQL FOR UPDATE waits for the audit rows
another writer has locked, and then returns the rows of its own snapshot. Time is a
counter that `SetBack` sets back.

So a log may fork on either backend as soon as there are two processes. A row is
`held` if its writer was alone from its read of the log to its commit, because there is
one process or because the flushed change holds the SQLite database (`Holds`); the
properties say what is true of held rows beside others. `TenantChain` is the promise to an
auditor: a chain of events for each tenant that only grows, at its end, by one event
that names the last one. `AuditChain` implements it, with the newest row as the last
event, but for steps that commit a row that is not held, until the clock is set back
(`ImplementsChain`); after that only `Rooted` remains.

### `GateReview` (and `GateLifecycle`)

The gates of one project: `submission` (rows of `gate_submissions`; `Absent`
until get-or-create stores one), `rows` (requirement rows, each with whether it
has evidence), and `trail`, the audit rows of a submission that record a change
of status. A process serves one request at a time: `Upsert`, `Submit` or
`Review` reads the submission, checks and computes the new one, and `Commit`
writes the columns that changed (`Merged`) with the rows and the audit row, or
`Rollback` drops everything. With one process nothing happens in between, which
is how one event loop runs a handler without an await; with two, both may read
first. A refused request is no step. `UpdateRow` and `AddEvidence` are the
handlers of one row. `Transitions` is the table of
`app/models/governance/submission.py`, `Anonymous` the user of a server without
authentication, whose id is null. Intake, comments and evidence are reduced to
whether they were given; the catalogue of gate 3 is one row. `GateLifecycle` is the promise to the
users of a gate: it has one status, last submitter and last reviewer, and changes
by a submission or a decision that was allowed in that status, not by who
submitted it, with comments where the table asks for them. It knows no rows,
transactions or audit log; `GateReview` implements it by its submissions (`ImplementsGate`).

### `SubAgentRuns`

`runs` are the rows of `sub_agent_runs`, one per gate and agent, `trail` their
audit rows. `Get` is `_get_or_create_run`, which commits before the handler
checks anything, so `RefuseStatus`, a change that is refused, is a step: it may
create the run. `UpdateStatus` and `SaveOutput` are the two handlers, with the
table, the roles and the comments they ask for. Each is one step: none has an
await, and one process runs them.

### `Controls`

`project` and `config` are the rows of projects and the organisation's
frameworks, `rows` the control instances by control and framework, `asked` and
`answers` the questionnaire. `CreateProject` and `UpdateOrgFrameworks` commit
and then generate project by project: what is left to generate is `jobs`,
`GenerateNext` commits one, and `Abandon` is the exception or the stop in
between. `GenerateControls`, `UpdateProject`, `GetQuestionnaire`,
`SubmitAnswers`, `AddEvidence` and `SubmitHumanReview` are the routes of these
names. `Applies` is `_evaluate_applicability`, `Sources` the union of base pack and overlays,
`MapsTo` what the parser makes of the list of controls a question maps to (the
first of them), `Touched` which controls an answer works out again. The history
variable `outdated` collects the controls whose inputs changed (a column, the
frameworks, an answer) and which nothing has evaluated since. A pack is reduced
to its kinds of conditions: AI risk class, region of a control, region of a
framework, AI prefix.

### `RateLimiter`

One bucket per store (a process's memory, or Redis) and key. Tokens are counted
in units of 1/`Minute` token, so the model has no fractions. `AllowShared` is
the Lua script, run with a reading of the caller's clock that is up to `MaxLag`
late; `NotReached` and `ReplyLost` are the two ways a call to Redis fails, before
and after the script ran, and `AllowLocal` the fallback that follows; `Expire`,
`Restart` and `Tick` are the environment's. The history variable `account`
counts what a bucket gave since a decision; which decision is chosen freely
(`anew`), so that a property of the account holds of every stretch of time.

### The rules and the pipeline: `EvidenceGate`, `RuleEngine`, `EvidenceCritic`, `AssessmentPipeline`

`EvidenceGate` fixes the inputs of a release (`release`) and asks `Outcome`
again as `now` advances; `Verified` are the checks of the SLSA verifier, whose
envelope is one kind of evidence. `RuleEngine` has the built-in ontology as
tables and logs decisions: `EvaluateRequest` is the route, `AssessProject` the
orchestrator, with the defaults it gives to missing columns. `EvidenceCritic`
has the cutting into passages (`PassagesOf`, line by line), the ranking
(`Ranked`), and what is kept of any reply (`Kept`, `VerdictOn`); `Skip`, `Ask`,
`CriticReply`, `Fail` are the ways through it. `AssessmentPipeline` has one action per
node of the graph (`Gather`, `Draft`, `Review`, `Parse`, `Verify`, `EvaluateReport`,
`Persist`), `PersistFails` and `Raise` for what goes wrong in them, and `Again`
for the next attempt of the task service; a text is its length and where it may
be cut, a reply its sources, findings and threats.

### `KnowledgeBase` and `Retrieval`

An ingestion embeds a document into the vector store and then awaits the graph:
that await is the only one, so an ingestion is `Upload` or `NextFile` and later
`GraphAnswers`. The document's file is then truncated (`Open`) and written
(`WriteArtifacts`, `WriteFails`): its process does nothing else meanwhile, but others
may write the same file, read it or stop, and the document may be one that was
reported long ago. `torn` are the files that are empty or cut, `missed` those that a process's index was
built without. `Reindex` and the loop (`Wake`, `Finish`) walk the directory;
the loop has no handler for a directory that is gone, after which it is
`"ended"`. `UploadPolicy` writes files and may fail to commit its row. The index
is cached by each process and cleared only by its own writes (`Report`): `Search` builds it, in one step,
from the artifacts and any part of the torn ones, `Built`, with the packing of paragraphs done twice as in the
code: `WithParagraph` adds one paragraph to what is packed. `Retrieval` is one
query: `Merged` alternates the two stores' texts, and `Take` drops repetitions.

### `LlmConfig`, `Skills`, `Intake`

`LlmConfig` has the settings in use, the file and the cached client. `UpdateConfig`
has the code's order: provider, mode, token and model are set before the URL is checked,
the key after it, so a refused update is half applied (`UpdateRefused`). A directory that cannot be
made is outside the `try` of the save: everything is set, nothing is written, and the
client is not forgotten (`DirectoryFails`). A failure to write, which may leave the
file torn, is only logged (`Update`). `StopProcess` may tear the file too,
`StartProcess` reads it (a torn one as empty), `GetLlm` checks the URL again, `Resolve`
changes what a host name means.

`Skills` has the dictionary, the file, both in the order in which skills were created,
and, as history, what callers were told. `SaveSkills` changes memory first and rewrites
the whole file; it may fail before or after the file is emptied, and `Crash` is a stop
inside it. An update may store a null (`Nulled`), since the copy is not validated;
`LoadSkills` stops there, and drops that item and all after it (`Dropped`), or all, of a
torn file.

`Intake` has a stage and a result per call. `Admits` is the REST rule or the
gateway's, `Parses` the choice of parser, `Acceptable` all that a submission
asks of its files, `Screen` the audit rows for suspect documents. `Poll` and
`Timeout` race for a waiting MCP call, `Ends` is the assessment service.

## What is checked

| Run | Instance | Shows |
|---|---|---|
| `tasks_safety` | 1 task, 2 users, 2 comments, `RetryLimit` 2, 2 stops, cancellation | `Coherent`, `Recoverable`, `RetryBudget`, `ImplementsLifecycle` |
| `tasks_faults` | 2 tasks, 1 tenant, 1 key, 1 stop, 1 save that raises | `IdempotentOnce`, `IInv` (with `TypeOK`), `DecisionStands`, `ImplementsLifecycle` |
| `tasks_liveness` | 1 task, `RetryLimit` 2, 2 stops | `Settles` under fairness |
| `tasks_sqlite` | 1 task, 1 stop, SQLite | `Settles` is violated: no task resumed after a restart can be saved |
| `tasks_comment_lost` | 1 task, 1 comment | `CommentsKept` is violated: an acknowledged comment disappears |
| `audit_sqlite` | 2 writers, 2 tenants, handlers that flush something, nothing, or commit first, 4 rows, 1 set-back | `HeldNeverFork`, `InTimeOrder`, `Rooted`, `ImplementsChain` |
| `audit_fork` | 2 writers on PostgreSQL, 2 resources | `OneChain` is violated: the chain forks |
| `gates` | 1 process, a client, a reviewer, an approver and `Anonymous`, 1 gate with a catalogue, 2 ids, 2 rows, 3 edits | `TypeOK`, `SeparationOfDuties`, `TrailExplains`, `OneSubmission`, `CatalogueOnce`, `ImplementsGate` |
| `gates_stuck` | 1 process, 1 gate | `Resubmitted` is violated: changes are requested and nobody can resubmit |
| `gates_two_processes` | 2 processes, 1 gate | `SeparationOfDuties` is violated |
| `components` | the other components, each on its own (below) | their 21 properties |
| `questionnaire_scope` | 1 project, 2 controls listed for one question | `ListedControlsFollow` is violated: an answer reaches only the first control of its question's list |

### The run `components`

Twelve modules share no variables with each other nor with tasks, log and gates,
so one run checks them all: `MCComponents` chooses a `component` at the start,
takes only its steps, and leaves the others in one initial state each. It EXTENDS
all twelve, each with variables of its own. The behaviours are the disjoint union of
the components' own, so nothing is hidden and nothing is multiplied.

| Component | Bounds | Properties |
|---|---|---|
| `Controls` | 1 project, 3 controls (plain, AI at high risk, European only), 2 frameworks, 3 changes | `Consistent`, `Fresh`, `LockedComplete`, `ClearanceSound` |
| `RateLimiter` | 1 process and Redis, 2 callers behind one token, capacity 2, 2 a minute of 3 ticks, readings 1 tick late, 7 ticks, 4 decisions | `Budget`, `RefusedOnlyAfterUse` |
| `SubAgentRuns` | 2 runs, client, reviewer, approver, 4 audit rows | `TrailTellsStatus`, `DecisionAccountable` |
| `EvidenceGate` | 3 provenances, 2 documents, 2 findings, 2 waivers, 2 policies, with and without a verifier, 3 instants | `ClearedRelease`, `NeverImproves` |
| `EvidenceCritic` | 4 pairs of documents of up to 4 lines, 2 threats of which 1 is examined, any verdict on them | `PassagesPartition`, `Grounded` |
| `RuleEngine` | every class, access and release with hosting that fits or does not; two decisions | `RiskMonotone` (with `ProfilesAgree`) |
| `AssessmentPipeline` | 3 texts, 5 replies (one not JSON, one that its schema rejects), 2 attempts | `SectionsCover`, `ReportTraceable` (with `RowsAllOrNothing`) |
| `KnowledgeBase` | 2 processes, 1 file name, 2 contents, 1 policy upload, 2 steps (`MaxSteps`) | `ConfirmedIsSearchable` |
| `Retrieval` | up to 3 texts of each store, one of them short | `MergeIsFair` |
| `LlmConfig` | 2 providers, 2 URLs of which one may become private, 2 updates that give at most 3 settings each | `SettingsInForce` |
| `Skills` | 2 own ids and a built-in one, 2 prompts and a null, 3 changes | `KeptAsConfirmed` |
| `Intake` | REST, MCP with and without waiting, A2A; text, office and unreadable files; 5 calls at once | `AnswersHold` |

Why these bounds. Projects share only the organisation's frameworks, and a
project's rows only its columns and answers: three controls have every kind of
condition and three changes are, for example, generate, answer, change a
column. In the limiter, four decisions empty a bucket of two and are refused and
served again, and seven ticks exceed the time after which Redis forgets it.
Four audit rows take a run from nothing to a decision. A pipeline that cuts at
12000 characters behaves as one that cuts at 5, since texts are lengths and
places. A monotone property is about two decisions. In the knowledge base, two
steps are an ingestion and what disturbs it (another one, a re-index, a change
of the directory or a restart), between whose steps the loop and the searches
run freely; three changes of skills let a change follow one that failed, and an
item with a null stand before another. An update of the LLM settings that gives the provider and
two more settings has each pair of those that are set before and after the URL's check.

### Other bounds

Tasks interact only through idempotency keys, so one task suffices
except for `IdempotentOnce`, which is about two. Two stops let a resumed task be
resumed again, and three attempts let a stop fall before, between and after
retries; `MaxStops` and `MaxFaults` bound history counters and appear only in
the guards of the actions that count. Gates of a project share nothing, so one
is enough, and a second id is what a duplicate needs; three edits are an update
of the client, one that could seed the catalogue, and one change of a row.
`MaxEdits` bounds the operations that change no status; changes of status are
bounded by the table. Four rows let each of two writers append
to each of two tenants; in SQLite it matters only whether a handler has flushed
something, so one resource is enough. `MaxClock` gives each of the
four rows a tick, and the set-back may go to any earlier one. `CHECK_DEADLOCK FALSE` stands where the process may be
down for good once the bounds are used up, where no start succeeds, and in
`components` and `questionnaire_scope`, where a behaviour ends with its bounds, a verdict
or an answered query.

Fairness (`FairSpec`). The event loop runs ready callbacks and `wait_for` ends
the await of the runner, so `WF(Coroutine(t))`; the operator starts a stopped
process, so `WF(Startup)`; `asyncio.run` ends its teardown, so `WF(Drained)`.
No client is fair: nobody has to comment, review or cancel. In
`GateReview`, `FairSpec` lets transactions end and every user submit for ever; it
serves to refute `Resubmitted`, which fails although clients do all they can.

### Findings

(1) On SQLite every save of a task read back from its row raises:
after a restart no task makes progress, and one that is to be parked keeps the
application from starting (`tasks_sqlite`). (2) A comment made after an
idempotent resubmission of a running task is lost (`tasks_comment_lost`).
(3) On PostgreSQL two handlers in two processes fork the audit chain (`audit_fork`). (4) A gate
with requested changes can never be submitted again (`gates_stuck`). (5) In two
processes a reviewer's own late submission can turn their review of another's
into one of their own (`gates_two_processes`). (6) A question that the schema
maps to several controls is stored with the first of them, and its answer works
out only that one again (`questionnaire_scope`).

Smaller observations without a run, each of which the modules show where they
state the code's behaviour: a task submitted with `collaborative_mode=false`
ends `completed` without review although app/agent/task_contract.py:59-60 calls
human review mandatory; a graceful stop stores `cancelled` for tasks a crash
would have resumed; a cancellation before the coroutine's first step is answered
but not stored. Generation evaluates with an empty set of answers, so it undoes
what answers had decided (`outdated` then holds every control). With two processes the
audit log forks on SQLite too, as soon as one handler has nothing to flush when it
reads the log: `OneChain` fails there, and `HeldNeverFork` says how far. The answers of
a questionnaire are committed before their audit row is begun, so a stop in between
leaves a change without a row. An update of the LLM configuration that is refused has
already changed provider, mode, token and model, one whose directory cannot be made has
changed everything, and after both the cached client is still the old one (`erred`). An update
of a skill that sets a field to null is stored, and at the next start that skill and
all after it are gone. Re-ingesting a document truncates the file it has; if
the write fails, which is only logged, or the process stops, a document that was
reported is no longer found. The synchronisation
loop ends for good when its directory is missing once. Control rows of an
attempt that is repeated after a crash stay beside those of the next one (`controlRows`
by attempt). What a bucket gains twice when a reading of the clock goes back is the
term `back` of `Budget`.

## What is proved

For every value of the constants that satisfies the named assumptions of the
modules. Every invariant and action property that a run checks is stated by a
theorem of this section; the only things left to TLC alone are named at its end.

### Tasks, log and gates

`AssessmentTasks_proofs`: `TypeCorrect`, `Invariance` (`IInv`), and from it
`OneTaskPerKey`, `AlwaysRecoverable`, `BoundedCalls`, `TableIsCoherent` and
`DecisionsStand`. None of these is inductive alone. A report can be stored
soundly only if the dict that is saved, which may be the table's or the
coroutine's own, was sound: `CopiesInv` says so of every copy, ties a living
coroutine to an incomplete status in all of them, and says the table does not
contradict a decided row. `StoredInv` relates copies to rows while no save
failed. `BudgetInv` pays for each call of the runner with an attempt in the row,
with a stop, or as the last call of this life of the process. The proof treats
each action once: what it does to its own task (the `...Keeps` lemmas), that it
leaves other tasks alone (`Untouched`, `CoroutineFrame`, `WriteFrame`), and
that no step but `Submit` gives a key to a row (`KeyStaysOnce`).

The same module proves the refinement, `LifecycleImplemented`: `Spec =>
ImplementsLifecycle`, however many saves fail. The difficulty is that handlers decide
by the copy in memory and write that copy, which a failed save has left ahead of the row.
`AheadInv`, the last part of `IInv`, says how far: each copy keeps either its
inputs or its report, and the table is at most one step of the lifecycle ahead
of the row, never by a report that is not stored. It would not be enough that it is
some way ahead: from an open row to a draft in memory and an approval of that
is two steps, and the save that stored them at once would not be a step of the
lifecycle; the handler of the coroutine excludes it, because it turns a report that
it could not save into a failure. The `...Follows` lemmas show both for each
action: the new copies are again at most one step ahead, and the new row is one
step of the lifecycle after the old one or shows the same (`WritesAhead` for
handlers, `GoesOn` and `RunnerReturnsFollows` for the coroutine).
That a task can fail beside its report needs the step `Break`, with one save that raises:
the save of a finished task raises, and its coroutine's handler stores the same dict as
`failed`, with the report and without inputs.

`AuditChain_proofs` is about any number of writers on either backend. `IInv` says that of
the writers that hold the log one is at work (`OneHolds`), that what it has read is all
there is of its tenant (`Reads`), and that a row about to be stored names the newest that
was read and is later than those (`Fits`). Nobody commits beside a holder: it is the
only process, or the database is locked. Hence `ExportIsChain`
(`InTimeOrder`), `AlwaysRooted` (`Rooted`) and `HeldNeverForks` (`HeldNeverFork`). With
one process, as deployed, every row is held (`Marks`), and `OneProcessNeverForks` is
`OneChain` on both backends; the run `audit_fork` refutes it for two. `ChainImplemented` is
the refinement of `TenantChain` by every step that commits no row but held ones: a held row names
the row that is last in time, and becomes the last itself.

`GateReview_proofs`, with `OneProcess`: an open transaction is `Sound`, that is, what
it read is still stored and what it makes of it is a step of the table by
someone who may take it. `CommitStores` then says that the commit stores exactly
what the handler computed, `Extended` that its audit row extends the explanation,
and hence `DutiesAreSeparated`, `LogExplainsGates`, `SubmittedOnce` and
`CatalogueAddedOnce`. `TypeCorrect` holds for any number of processes.
`GateImplemented` is the refinement of `GateLifecycle`: only a commit of `Submit` or
`Review` is seen (`CommitShows`), a created draft shows what no submission showed,
and as what the handler read is still stored, its change is one that is allowed
in the gate's status at the commit (`CommitMoves`); `OneSubmission` makes that status unique.

### Controls

`Judgements_proofs` also has the controls, for any packs, schema, regions and number of projects
(`ProfilesAssumption` types the columns a project may be given): `ControlTypes`,
`RowsConsistent`, `LockedAreComplete`, `RowsAreFresh` and `ClearanceIsSound`.
`ClearanceSound` follows from the other three: an applicable row that says approved was
approved by a human (`Consistent`), exists (`LockedComplete`), and is applicable
on record if it applies (`Fresh`). `ControlsInv` adds to them `OfProjects`: only projects that exist
have rows or a generation to come. `Fresh` is the hard one: an answer
changes `Applies` only for controls with that question among their `Inputs`
(a lemma about the operators), and those are either evaluated or outdated.

### Callers

`Callers_proofs` is about what callers do, are given and are told.

- Sub-agent runs, with `NoRunAssumption` (a run is not the absence of one): `RunTypes`,
  `Accountability` and `TrailIsComplete`. `Accountable` adds that a run that is still in
  review has the audit row of it, which a decision relies on. `Told` says that the
  last change of status in the trail is the run's status, and of a run without one
  whether it has output; it is inductive only with `NeverEmptied`: no change of
  status leads back to `empty`.
- Intake, with `IntakeAssumption` (the types of calls and files): `IntakeInvariance` and
  `CallersHaveWhatTheyWereTold`. `Holds` says, stage by stage, which tasks a call may
  have made, which result it may have and what was admitted; what it needs of another
  call's task, that it has ended, no step takes back.
- Limiter, with `LimiterAssumption`: positive settings, and a reading
  of the clock late by less than the time that Redis keeps a bucket beyond the time
  it takes to fill (`Full <= PerMinute * (Ttl - MaxLag)`): with 60 seconds kept
  and a bucket that fills in 30 this allows 30 seconds. `LimiterTypes`,
  `BudgetKept` and `RefusalsDeserved`. `Within` strengthens `Budget`: what was
  taken and what the bucket still holds are together within its capacity and what
  it gained (`Earned`); of a bucket that expired, what was taken was gained back
  even for a reading as late as it may be (`Forgotten`), which is where the
  assumption is needed.
- Skills, with `SkillsAssumption` (no item is the absence of one): `SkillTypes`,
  `SkillsInvariance`, `SkillsAreKept` (`KeptAsConfirmed`) and `BuiltinsStay`. What is
  stored for an id says what was asked (`ItemSays`), a save changes its own id only
  (`SkillSaved`), and a load keeps what was told or marks it as lost
  (`LoadedSkills`). `NeverHidden` holds of ids in doubt and after any load: only
  `create_skill` brings an id in, and it refuses the built-in ones.
- LLM settings, with `LlmAssumption` (there is a provider, a URL and a value; an
  unreadable file is no file's content): `LlmInvariance` and `SettingsStayInForce`.
  After an update that is saved memory and file have had the same overlay, one over
  what was in use and one over what was stored, and an overlay of an overlay is one (`OverOver`): a start that applies the
  file therefore brings back what was in use.

### Judgements

`Judgements_proofs` is about decisions that the program computes.

- Release gate, with `GateAssumption` (waivers have numbers and integer ends):
  `GateInvariance`, `FailsClosed` (`ClearedRelease`) and `TimeNeverHelps` (`NeverImproves`).
  `Answered` says that the decision is the gate's at the instant it was asked for.
  `Precedence` says what each outcome stands for in terms of the four sets the code
  works out, `WaiverNeeded` that a finding that would block is waived, `BlockingGrows`
  that time only takes waivers away.
- Critic, with `CriticAssumption` (the types of threats and documents, positive limits):
  `VerdictsStand` (`Grounded`). `Carried` is what is kept of one verdict whatever was
  replied, `CountsAddUp` that the three statuses count every threat once.
- Rules: `RuleTypes` and `RiskIsMonotone` (`NeverAskedLess` and `ProfilesAgree`), for any
  intakes and projects. `RatingIs`, `LevelIs` and `RequirementsAre` turn the tables in
  which the first match counts into closed forms, whose order is then arithmetic.

### Documents

`Documents_proofs` is about what loops make of texts of any length. The provers
have no induction schema, since its theorems take a predicate as a parameter. `Induction`
proves one for sets instead of predicates: strict inclusion of finite sets is well
founded (a fact of the library), so a set of numbers has a least one (`LeastOf`), so a
set with 0 and with every successor is all of `Nat` (`Induct`), and a function that is
defined step by step exists (`Recursion`) and keeps what every step keeps
(`StepByStep`). A `...Stepwise` lemma then unfolds a recursive function of a
module, and an invariant of the loop does the rest.

- Pipeline, with `PipelineAssumption` (types, and an overlap of less than half a
  section): `PipelineInvariance`, `SectionsReadAll` (`SectionsCover`) and
  `ReportsAreTraceable` (`ReportTraceable`). That a section ends in its second half
  while the overlap is less than a half is why cutting goes on and ends (`CutsExist`,
  `CutsCover`). `ThreatsApart` is the loop that makes the threats' ids distinct.
- Knowledge base, with `KnowledgeAssumption` (the first cutting is no coarser than the
  second, 1200 and 1400 characters in the code): `KnowledgeInvariance` and
  `ConfirmedStaySearchable`. A paragraph is in one place of what is packed (`PackedHolds`),
  and packing what was packed keeps that. An index has all the artifacts that were whole when it
  was built, whatever it took of the torn ones (`missed`), and those a process reported are there.
- Retrieval: `RetrievalInvariance` and `MergesAreFair`. The texts after rank n are all
  those of ranks up to n, without repetition, and each rank only appends.
- Passages: `PassagesCutOnce` (`PassagesPartition`) and `CriticTypes`. After n lines, those
  before the open passage are in one passage each unless they are blank, and the
  open passage is of lines that are not (`CutSoFar`). The proof showed that the
  property has to except a report without threats, which is not cut at all.

### The components together

`Components_proofs`: `TypesHold` (`TypesOK`). `MCSpec`, what the run `components` checks,
implies the specification of each of the twelve components (`Composition`):
each starts in an initial state of its own (`EachStarts`), and every step is one of
it or leaves its variables alone (`EachSteps`). So every theorem about a component
holds of the run's specification, and `TypesOK` follows from the components' own
(`ControlTypes`, `LimiterTypes`, `RunTypes`, `GateInvariance`, `CriticTypes`, `RuleTypes`,
`PipelineInvariance`, `KnowledgeInvariance`, `RetrievalInvariance`, `LlmInvariance`,
`SkillTypes`, `IntakeInvariance`).

### Only model-checked

- `Settles`, the liveness of tasks, and the six violations: out of a proof's reach.

## Not modelled

- Exports, dashboards, listings, the preview of controls: they render stored
  rows and change nothing.
- The frontend, schema migrations and offline evaluations: no part of the
  server's protocol.
- The text of prompts, replies and documents, the arithmetic of scores and
  similarity, redaction patterns, extraction of evidence snippets: data that no
  property tells apart.
- Passwords and token formats: a call carries a valid token or none.
- The parsing of policy packs into read-only tables, but for the list of
  controls of a question, where it matters.
- `clear` (tests), the in-memory store of tasks, the plan artifact and the
  digest of inputs, `add_history_response`, and ontology files other than the
  built-in one.

Three hazards have no property. The first is in `app/models/assessment_task.py:22`: two
processes may both find no task for a key and both insert one; with the one
process that is deployed the lookup and the insertion are one step, which is
what `IdempotentOnce` shows. The second is in `submissions.py:204`: that the content of a
gate may change under review is stated by no document or test, so there is
nothing it would violate. The third is in `app/main.py:60`: the synchronisation loop ends with its
first missing directory (`Wake`), and nothing says that it must go on.

## Plan

1. Done: `TaskLifecycle`, `AssessmentTasks`, `AuditChain`, `GateReview`, their
   runs and proofs.
2. Done: the components of the run `components`, the finding about the
   questionnaire, and the proofs about controls, limiter and sub-agent runs.
3. Done: the proofs about release gate, skills, LLM settings, intake, critic, rules,
   pipeline, knowledge base, retrieval and passages; every safety property and every
   type invariant that a run checks is stated by a theorem.
4. Done: three abstract specifications and their refinements: `TaskLifecycle` under
   failing saves, `TenantChain` for writers that hold the log, `GateLifecycle`
   for one process; and the composition of the components.
5. Left: a second process for `SubAgentRuns` and `Controls`, as in `GateReview`, and the
   composition of pipeline and tasks: which control rows a crash leaves.
