# Duliu: a verification project in TLA+

Duliu helps a problem setter to take a contest problem through a chain of
stages. An HTTP API, one or more worker processes and a crawler share one
PostgreSQL database, and nearly everything that can go wrong goes wrong
between two of their transactions. These modules model those transactions.

## 1. The system

### 1.1 Components

| Component | Code (under `src/packages/duliu/`) | State it keeps | Operations |
|---|---|---|---|
| Stage pipeline, gates, import flow | `facade/pipeline.py`, `facade/import_gate.py`, `facade/import_flow.py`, `crawler/import_problem.py`, `facade/crawl.py` | `problems.current_stage`, `problems.spec_json` (import facts, thread id, last stress), `problem_stages.status`, `gate.approved` events | approve, reject, dispatch, confirm submission, import check, fetch std, crawl and import |
| Job queue and worker | `facade/jobs.py`, `worker/` | `runner_jobs` rows | enqueue, cancel, retry, poll, run, commit |
| Job stream | `facade/job_stream.py` | none (a polling loop) | watch a job until it ends |
| Artifacts | `facade/artifacts.py`, `facade/artifact_save.py`, `workflows/artifacts.py`, `agents/stage_agents.py`, `PUT /artifacts` | `artifacts` rows, unique by (problem, kind, version) | save, restore, list, read |
| API bootstrap | `db/bootstrap.py`, `api/main.py` `lifespan` | the stages of non-original problems, seeded demo problems | runs at every start of the API |
| Monitor | `facade/events.py`, `facade/monitor_stream.py` | `events` rows; a cursor per stream (SSE, WebSocket) | emit, fetch since the cursor, send |
| Contest sets | `facade/contest.py`, `agents/set_evaluator.py` | sets, slots, evaluation | bind, create in a slot, evaluate, approve |
| Stress and runs | `worker/handlers.py`, `agents/stress_agent.py`, `agents/stress_archive.py`, `agents/stress_interpret.py` | of `spec_json` the verdict, the last stress job, the index of counterexamples | stress, import check, compare, run, compile, interact; dispatch, interpret |
| Crawler input | `crawler/fetch.py`, `parsers.py`, `whitelist.py`, `ac_fetch.py` | none | fetch and parse a page |
| Runner | `runner/` | none (processes) | answers about one program on one input |
| Other agents, models | `agents/` | none (artifacts and `spec_json` of the problem) | one LLM call per stage, with a fallback |
| LangGraph wrappers | `pipeline/` | a thread id in `spec_json`, checkpoints nobody resumes | wrap dispatch and approve |
| Chat sessions | `session/`, `facade/session.py` | messages | a turn may dispatch, approve, save |
| Workflows | `workflows/` | artifacts | compose LLM calls and saves |
| Polygon | `polygon/` | `spec_json.polygon_upload`, one zip file per problem on disk | export, prepare, post a form, import, API requests |
| Secrets, CLI, MCP server, web client, scripts | `facade/*secrets*.py`, `cli/`, `mcp/`, `web/static/`, `docker/` | - | clients and deployment |

### 1.2 How they interact

* API requests are coroutines of one process; every request has its own
  `AsyncSession`. Workers are other processes that poll `runner_jobs`. Nothing
  is shared but the database.
* `async_session` has `expire_on_commit=False` and the engine runs under READ
  COMMITTED. No row has a version column. A row is loaded once into the
  identity map of a session; an UPDATE contains the columns that changed. So
  two transactions that write different columns of one row merge, and two that
  write `spec_json` - one JSON column with unrelated facts in it - do not: the
  later commit wins with all the facts of its older copy.
* `emit_event` flushes. What is dirty at that time is sent to the database,
  which is when row locks are taken. Whoever updates a row somebody else has
  updated waits for that transaction's end, and then overwrites it.
* A worker's batch of up to five jobs is one transaction.
* One thing is shared beside the database: the directory of packages. An export
  job of a worker and the routes of the API write and read one zip file per
  problem, without a lock.
* An event becomes visible with the transaction that emits it, with the time of
  that transaction's start; the streams poll for events newer than a time.

### 1.3 What is hard here

Lost updates of `spec_json` and of `current_stage`; facts of different row
versions combined; a row loaded before a crawl, an LLM call or a stress run of
minutes and written after it; two rows (problem and stage) that have to agree;
row locks taken in different orders; jobs polled without a lock and judged by a
stale status; cancel and retry that race the worker; worker crashes, API
restarts whose bootstrap rewrites stages; concurrent savers that compute the
same version; programs replaced while a stress job runs the old ones; events
committed behind a stream's cursor; two binds that read the slots of a set
before either writes; a package that is rewritten while it is posted or
imported. `PROJECT.json` lists each hazard with its line.

### 1.4 What makes each component correct

* Pipeline: no stage is left without a human's approval, IMPORT is approved on
  the evidence its gate asks for, the current stage can be worked on, one agent
  per stage, every request is answered.
* Jobs: effects at most once per submission, status, result and log of a row
  belong to one run, a queued job settles, a watcher learns the end, a cancelled job has
  no effects.
* Artifacts: versions are unique, numbered without a gap, and keep their content
  (but for the demo problem, section 3.1).
* Bootstrap: a restart opens no gate.
* Monitor: a stream sends an event once and in order, and misses one only if it
  was committed late or was cut off a tie.
* Contest: no problem is in two slots, a report is about the problems in the
  slots, what is approved is what the approver read.
* Stress: a verdict is about the programs the problem has, a failed round is
  archived exactly when programs disagreed in it, the index of counterexamples
  leads to the cases, an interpretation is about its job.
* Polygon: a package posted as ok is complete and not older than its upload,
  and what a zip can express survives an import.

The last three hold with exceptions - requests that overlapped - which the
properties name and the modules record in history variables. What matters is
that there are no others.

## 2. Modules

| Module | What it is |
|---|---|
| `Gate` | abstract: a chain of stages, an approval needs all those before it, a return to the head forgets no approval |
| `Pipeline` | the transactions on one problem; `GateSpec` says that it implements `Gate` |
| `PipelineProofs`, `PipelineRowProofs` | theorems about `Pipeline`: gates; row locks and stage rows |
| `Jobs` | the queue, batches, cancel and retry, the watcher |
| `VersionLog` | abstract: a log that saves append to, of which a start of the API may overwrite a version with the seeded text |
| `Artifacts` | the savers of one artifact kind, and the starts of the API that overwrite one; `LogSpec` says that the table implements `VersionLog` |
| `Monitor` | transactions that emit events, streams that poll them |
| `Contest` | the slots, the evaluation and the approval of one set |
| `Judge` | operators: what the runner answers about programs |
| `Stress` | the programs of a problem, the jobs that run them (with `Judge`), what they leave in `spec_json` |
| `Package` | the zip of a problem, its uploads and imports |
| `JobsProofs`, `ArtifactsProofs`, `MonitorProofs`, `ContestProofs`, `PackageProofs`, `StressProofs` | theorems about these modules |
| `MCPipeline`, `MCJobs`, `MCArtifacts`, `MCMonitor`, `MCContest`, `MCStress`, `MCPackage` | values of the constants, symmetry |

Definitions named `Fault...` are plausible bugs of the definition that follows
them. They are used by no specification; replacing the definition by its fault
must break the property the comment names.

### 2.1 `Pipeline`

| State | Code |
|---|---|
| `problem.current`, `problem.spec` | committed `current_stage`; of `spec_json` the facts anybody tests: imported, check verdict, submission confirmed, thread id present |
| `stages` | committed `problem_stages.status`; `"missing"` where there is no row |
| `gates` | stages with a committed `gate.approved` event |
| `crawl`, `queue` | the crawl job's status; the queued stress jobs by mode |
| `tx[a]` | the open transaction of a request, the stress worker, the crawl worker or the bootstrap: the loaded row `mem`, the changed columns `dirty`, stage rows to write `st`, the row locks still to take `todo` and taken `held` |
| `complete`, `verdict` | history: whether one committed row once satisfied all three gate conditions; the last verdict recorded |

One action per point where the code touches the database and others can run in
between: `Load` (the `db.get` of the route), then `ApproveStage` and
`ApproveNext`, `RejectStage`, `DispatchStage` and `AgentDone`, `RewriteSpec`
(confirm, import check, fetch std, interpretation), `JobRequest`; `Lock` for
every row lock of a flush; `Commit`; `StressStart`/`StressDone`,
`CrawlStart`/`CrawlDone`/`CrawlFail`, `WorkerCrash`, `Restart`/`Bootstrap`,
`DeadlockVictim`. A commit applies only the dirty columns, so a stale `mem` does
exactly the harm it does in the database.

Left out: what is saved as an artifact on the way; a chat turn that performs
several operations in one transaction; the JSON object that the SPEC agent
merges into `spec_json`, which could name any key (its write keeps the import
facts it loaded here); two jobs of one problem in one batch; the stages M3 adds
to old problems. `stage_llm_enabled` is on, as by default. Moving between
contest sets and titles are data nobody tests.

### 2.2 `Jobs`

`job` is the committed row: status, kind of result, and the run that wrote
`log_text`. Nobody writes a whole row. A session has read it (`loaded` of a
request, `read` of a batch), changes what it holds (`CancelRow`, `RetryRow`, the
outcome of a handler), and its UPDATE has the columns in which the two differ
(`Written`), so that status, result and log of one row may come from different
writers. `keptLog` is history: the last writer left a log in the row that it had
not read.

`Enqueue` inserts a queued row. `Load` is the `get_job` of a route,
`Write`/`RefuseRequest` its guard, and the UPDATE that waits for a worker's lock.
`Poll` picks at most `MaxBatch` queued jobs in any order (no `ORDER BY`), `Start`
is the flush of RUNNING, `Finish` the handler with either outcome, with a log or
without (a missing source and a crawl write none), `FinishPoison` an outcome that
cannot be stored (the loop dies), `CommitBatch` the one commit, `BatchDeadlock`
the database's choice, `Crash` and `StartWorker` the process. `running` is in no
committed row: it is flushed and overwritten in the same transaction. The exit of
`process_job` for a job without a problem (`handlers.py:414`) is not modelled
because it is never reached: `runner_jobs.problem_id` is a foreign key that is not
null, and nothing in the code deletes a problem.

### 2.3 `Artifacts`

`table` holds the committed rows of one (problem, kind), `tx[w]` what a writer
has inserted and the save it is in. A request saves once; a worker's batch
several times. `Insert` waits for an open insert of the same version and fails
(`InsertFails`) on a committed one, as the unique index does.

The demo problem is seeded again at every start of the API: `SeedRead` reads the
latest version of its std or brute (`db/bootstrap.py:656`), `SeedCommit` sets that
row's content, whatever has been saved since, `SeedRollback` is a start that fails.
`Seeded` holds the seeded text; it is empty for the artifacts of every other
problem, and then no step of `Starts` is possible.

### 2.4 `Monitor`

`tx[t]` is a transaction: `Begin` fixes its time (`now()` is the start of the
transaction), `EmitEvent` inserts, `Commit` makes its events visible, which for
some streams is late: `late[s]` records what is committed behind the cursor.
`stream[s]` is `iter_new_events` with its callers: `Poll` fetches the oldest
events newer than the cursor, at most `Limit`, in any order within one instant
(`ORDER BY created_at` only), `Send` yields one of them, `Disconnect` is the
client. A filter by problem or set is the set `Follows[s]`. The summary of
`facade/monitor.py` only reads and is left out.

### 2.5 `Contest`

`problem` and `assigned` are the columns of `contest_slots`, `set` the status
and report of the `contest_sets` row. `BindLoad`/`CreateLoad` are the SELECTs
with which a bind starts, `BindOthers` the second SELECT for slots that hold the
problem, `BindWrite` the commit: it writes a column only where the value differs
from the one read, as the session does. `EvaluateLoad`, `EvaluateScan`,
`EvaluateWrite` are an evaluation. `Langgraph` has the requests that use LangGraph:
they put a thread id into the report, so the set's row is written and locked at the
beginning of the evaluation (`holder`) and the report at its end is always a
change. Without it a report that equals the one loaded is no change and may not be
written (`WritesReport`): what others have written meanwhile then stays. `ApproveLoad` judges the loaded row,
`ApproveWrite` writes the status. `met` of a request says which operations were
committed while it was open. Left out: ratings, stages and targets in a report,
the approver's comment (it is lost in the code, see the hazards), and
`problems.contest_set_id`.

### 2.6 `Judge` and `Stress`

`Judge` translates the runner: a program is what it does on each input, and the
operators give its verdict (`RunSource`), a comparison (`Agree`, `Checked`), the
report of a stress run (`StressReport`: the first round that decides), an
interaction. Java under isolate always ends as a runtime error. Where the runner
leaves with an exception the answer is `"error"`: without isolate a Python or Java
program, since a script is executed as a binary (`Unrunnable`), and output that is
not UTF-8 (`Raises`); a checker or interactor that prints such output; a compiler
that is missing or needs too long (`CompilerRaises`). A stress run compiles both
programs before it looks at either result.

`Stress` has the versions of every artifact kind (`log`), the archived
counterexamples (`cases`), the jobs, and the three facts of `spec_json` that jobs
write. `Take` picks a queued job, which another worker may have picked too, and
loads the row of the problem; `Read` is one SELECT of a program. Before the first
one RUNNING is flushed, so a second worker waits there for the lock of the job's
row (`Free`) and then runs the job again, with the row of the problem it loaded
before. `Run` stands for the minutes of the run - over the samples and some drawn
inputs - `Archive` for the save of a counterexample, `StressDone`/`Finish` for the
commit, `Abort` for a crash or a rollback. `Cancel` and `Retry` change the job's
row when no worker holds it, `Cancel` whatever the row says by then. `Submit` is a route that only queues a
job; the bound `Submitted` says of which kinds. A request loads the row (`Load`) and rewrites it from that
copy (`ImportCheck`, `Dispatch`, `Interpret`, `Other`), or is refused. `drift` and
`clash` record that the verdict or the index was overtaken.

Left out: batches of several jobs (`Jobs`), races of two saves (`Artifacts`), the
drafts the agent may propose, what a job's payload says of artifact versions,
samples that change, the limit on the size of inputs, work directories and
isolate boxes that jobs share, the starts of the API that overwrite the programs
of the demo problem (`Artifacts`).

### 2.7 `Package`

`art` has the versions of every kind, `disk` the zip and the versions it was made
from, `meta` the key `polygon_upload`, `tx` requests and export jobs. An export is
`Select` (one SELECT of all artifacts) and then `Write` in the API process, which
nothing of that process interrupts, or `Truncate` and `Fill` in a worker, between
which others read or write the file. `Reuse` takes the zip that is there,
`MustExport` makes one, `Flush` locks the row with the event, `Post` reads the
file and posts it, `CommitUpload` ends. `Open`/`Import` read the archive and save
what it holds, with the language and the markup the conversions leave: a checker,
interactor or generator becomes a `.py` file, an unknown language C++, and a
statement is escaped and stripped. The statement is in the archive twice and is
saved twice. `met` says that the file was written since an actor selected or
opened it.

Left out: requests to the Polygon API, since the client raises `NameError` before
the first one; titles that change and with them the name of the file; tests and
samples in the archive.

## 3. Runs

| Run | Question | Bounds |
|---|---|---|
| `pipeline_gates` | Do stale approvals, rejections, imports, restarts and dispatches keep the gates? (`NoStageSkipped`, `ApprovalOrder`, `ImportEvidence`, `CurrentIsOpen`, `OneAgentPerStage`, `GateSpec`) | all ten kinds of request, two in flight, three requests or restarts in all, chain IMPORT, SPEC, SOLUTION; 1.8 million states |
| `pipeline_live` | Is every request answered? (`RequestsEnd`) | the same with the chain IMPORT, SPEC and an original problem |
| `jobs_one` | One worker: at most once, settled, told (`RunsWithinSubmits`, `JobsSettle`, `WatchEnds`) | two jobs, batches of two, two submissions each, one crash |
| `jobs_many` | Two workers and a poisonous job, rows written by columns from old copies (`RunsPerWorker`, `OutcomeOfOneRun`) | two jobs, one of them poisonous, the other with a log, two submissions each; 4.4 million states |
| `artifacts` | Racing savers, and starts that overwrite (`OneRowPerVersion`, `NoGap`, `StagedApart`, `SavesEnd`, `LogSpec`) | two requests, one batch, two starts, versions up to 3; 67 000 states |
| `monitor` | Streams and late commits (`NeverTwice`, `InOrder`, `Accounted`, `EventsArrive`) | three transactions of at most two events, two instants, two subjects, a limit of two; 620 000 states |
| `contest` | Binds, evaluations, approvals from old reads (`SlotsAgree`, `ReportOfSlots`, `ApprovedReport`, `BindTakesHold`, `RequestsEnd`) | three requests in flight, one of them with LangGraph, four in all, two slots, two problems; 130 000 states |
| `stress` | Verdicts over programs that are replaced while jobs run them, copies of `spec_json` that overlap (`VerdictOfPrograms`, `IndexOfCases`, `InterpretationOfJob`), and every kind of job with programs of every kind (`FailuresArchived`) | two scenarios, below; two inputs of which one is a sample, an index of one entry; 690 000 states |
| `package` | One zip, many writers and readers (`UploadsComplete`, `UploadsFresh`, `RoundTrip`) | one worker, two requests in flight, three in all, a statement and a std, two saves; 2.3 million states |

Why the bounds are enough: a lost update needs two transactions that overlap
and a third that changes the row in between; two requests, the worker, the
crawler and the bootstrap give up to five at once, and three starts let one of
them be stale across two others. Three stages are the least with a head, a
middle and a last one. `MaxStarts` counts requests and restarts only: jobs,
crashes and deadlocks are not limited by it. Two jobs and batches of two give
both orders of a batch and a job that waits for another; one job submitted
twice shows a retry. Versions up to 3 allow a race at a version, one behind it
and one after it. In `monitor` two instants and transactions of two events are the
least for a tie that a limit of two cuts after one event of another transaction,
and for a commit behind the cursor. In `contest` two binds and an evaluation
overlap in three requests, and the fourth repairs or approves; a request with
LangGraph and two without meet on the row. In `artifacts` two starts that read the
same row overlap, with savers that make it the last but one before they commit.

`stress` explores two scenarios, kept apart by the constraint `Scenarios`. In one,
two workers run stress jobs (import checks that any route has queued, stress jobs
of the agent) while a request rewrites `spec_json` and there is one save (a std
that loops, a wrong brute, a checker), cancel or retry. These meet two by two and
three by three: one job with the request and the save, cancel or retry; two jobs
with the request; two jobs with the save, cancel or retry (then a request begins
nothing more). An index of one entry is full after one case, and a second case
drops the first; two jobs suffice for an interpretation that is late. As long as
the brute is only the seeded one, which cannot be run without isolate, there is
one job. In the other scenario one job of any kind runs with nothing saved: a std
and a brute out of programs that are right, loop, are wrong on inputs outside the
samples, crash, flood, print what is not text, do not build, make the compiler
fail, are in each language, or are missing, and with one pair of them every checker
and interactor.

In `package` the worker's job, a form upload and a
second request meet on the file; the std in a language without an extension and
the statement with markup are what does not survive. Markup is escaped once more
at every passage through the zip; three starts allow one (`MCMarkup`).

Every configuration says `CHECK_DEADLOCK FALSE`: once the bound on requests,
submissions or versions is used up and everything has ended, the model stops,
where the program would wait for the next request. That nothing stops too early
is what `RequestsEnd`, `JobsSettle`, `WatchEnds` and `SavesEnd` say.

Symmetry (`RequestSymmetry`, `WorkSymmetry`, `Symmetry` of `MCStress` and
`MCPackage`) is used only in runs without liveness properties.

### 3.1 Violations

| Run | Disagreement |
|---|---|
| `pipeline_verdict` | docs: IMPORT does not pass without a passed check. A rewrite of `spec_json` from a stale row brings a passed verdict back after a failed check |
| `jobs_two` | plan: the worker scales out. Two workers run one submission twice |
| `jobs_cancel` | docs: a stress job can be cancelled. A cancelled job of a running batch is run and its status overwritten |

Three more deviations need no run to be seen. Every start of the API overwrites
`content_text` of the latest std and brute of the demo problem
(`db/bootstrap.py:665`), without a new version and without a new `sha256`, where
`docs/architecture-runtime.md:191` asks that a write of an artifact makes a new
version and nothing is overwritten in place; `VersionLog` therefore has
`Reseed`. `POST /api/problems` (`main.py:588`) creates a non-original problem
that starts at SPEC, without its IMPORT gate; the properties about gates are
therefore stated and proved for crawled and original problems. And any stage can
be rejected at any time (`facade/pipeline.py:107`) while the problem goes on, so
`NoStageSkipped` says that the stages before the current one have been approved,
not that their status is APPROVED now.

## 4. Fairness

`Pipeline`: a transaction in progress goes on. Requests are coroutines that the
event loop resumes; LLM calls, fetches and stress runs have time limits whose
errors are caught; a lock that is free again and again is granted in the end
(strong fairness of `Lock`: PostgreSQL queues the waiters of a row); the
database breaks wait cycles. Nothing forces a request to be sent, a job to be
started or a process to crash.
`Jobs`: the worker's loop polls and runs on, a dead worker is started again (an
operator's duty: nothing in the repository restarts it), `Write` is strongly
fair for the same reason as `Lock`, the watcher's loop goes on. Weak fairness of
the worker's step does not choose a job: that one is not passed over for ever
follows from the bound on submissions, as `limit(5)` gives no order.
`Artifacts`: statements end, and a transaction that has inserted commits or is
rolled back.
`Monitor`: the loop of an open stream polls and sends on (weak fairness; a sleep
of fixed length is all that is between two polls). Nothing forces a transaction
to commit.
`Contest`: a request in progress goes on; strongly, since evaluations and
approvals queue for the row of the set, which is free again and again.
`Stress` and `Package` state no liveness: that jobs settle is a matter of `Jobs`.

## 5. Proofs

### 5.1 Gates (`PipelineProofs`)

For every set of requests, every stage chain of distinct names that begins with
SPEC, and every bound:

* `TypeCorrect`: `Spec => []TypeOK`, by one lemma per action.
* `GatesInvariant`: `Spec => []GateInv`, the inductive invariant below, for
  every kind of problem.
* `StagesInOrder`: `Spec => []NoStageSkipped` for a crawled or an original
  problem (`Origin # "post"`).
* `ApprovedInOrder`: `Spec => []ApprovalOrder` for these problems: an approval
  commits a stage whose predecessors it saw approved.
* `ImportOnEvidence`: `Spec => []ImportEvidence` for every kind of problem.
* `GatesRefined`: `Spec => GateSpec` for a crawled or an original problem.

Neither `NoStageSkipped` nor `ImportEvidence` is inductive: an approval commits
a `current_stage` it computed, and a verdict it reached, from a row it loaded
before. The inductive invariant is

    GateInv == RowsSafe /\ (\A a \in Actors : MovesSafely(tx[a]))
               /\ (NonOriginal \/ tx["crawler"] = Idle)

`RowsSafe` says of the committed rows that the stages before `current` are
approved, that a row satisfying all conditions of the IMPORT gate has been
recorded as `complete`, that IMPORT is approved only then, and that only
problems with an IMPORT stage have a crawl job. `MovesSafely` says of an open
transaction what its commit will do: an approval that has just loaded its row
has all stages before the loaded one approved, and if the loaded row satisfies
the IMPORT gate then some committed row did; an approval under way has all
stages before its own approved, will write the next stage as `current` and
nothing else of the row, and leaves IMPORT only on evidence; any other
transaction that writes `current` writes IMPORT, before which there is nothing,
and belongs to a problem that has that stage. An original problem can only be
moved to IMPORT by a crawl, so the last conjunct is what keeps it out of there:
no crawl ever starts for it.

The invariant is stable because `gates` and `complete` only grow - which is why
stale copies of `current_stage` do no harm to the order of the stages while
stale copies of `spec_json` put an old verdict back (`pipeline_verdict`).
`ImportOnEvidence` holds in spite of that: the gate judges a row committed as a
whole. It does not say that the verdict in this row is the latest one.

For the refinement, every step but a commit leaves `problem.current` and
`gates` alone; a commit of an approval is `Gate!Approve`, any other commit
leaves `current` as it is or sets it to IMPORT, which is `Gate!Return`
(`CommitGate`).

The lemmas below these are about the chain (`ChainFacts`, `NextStageAddsOne`,
`NothingBeforeHead`), the types of transactions, and what each action leaves
unchanged.

Assumptions: `OriginAssumption`, `OrderAssumption`, `BoundAssumption` and
`ActorsAssumption` (a request is not a worker) of `Pipeline`, which TLC
evaluates in every run, and `Origin # "post"` in `StagesInOrder`,
`ApprovedInOrder` and `GatesRefined`: the first two are false for problems
posted as non-original.

### 5.2 Row locks and stage rows (`PipelineRowProofs`)

`AgentsApart` is `Spec => []OneAgentPerStage` for every kind of problem. The
invariant `LockInv` says that no two transactions hold one row, and that a
dispatch which has accepted its stage holds the stage's row or still has it as
the last row to lock (`Claims`). Every action but two is a `QuietStep`, which
takes no lock and starts no dispatched agent; `DispatchLocks` and `LockLocks`
are the two.

`StageOpen` is `Spec => []CurrentIsOpen` for a crawled or an original problem.
The invariant `StatusInv` says that no row of the chain is missing, that no
transaction will write PENDING, and that an approval at its commit either saw
the stage it moves to open or will open it. Since no row goes back to PENDING,
what an approval saw open is still open when it commits. It rests on `GateInv`:
only an approval moves the problem to another stage than IMPORT. (A posted
problem is excluded because the bootstrap adds its missing IMPORT row as
PENDING.)

### 5.3 Jobs (`JobsProofs`)

`AtMostOnce` is `Spec => []RunsWithinSubmits` for a single worker process; with
two it is false (`jobs_two`). The invariant: a job that is queued, or that the
worker's batch has selected or run, has `runs < submits`; a job that does not
exist has `submits = 0`. A batch may run a job that has been cancelled, or
cancelled and retried, since it was selected; the argument is that the job was
queued then, and that a retry adds one to `submits`. `JobsType` says which rows
a batch holds at its end: only DONE and FAILED ones.

`OutcomesOfOneRun` is `Spec => []OutcomeOfOneRun` with any number of workers and
clients. As nobody writes a whole row, the invariant has two parts. `JobsType`
says of every row and of every copy, a request's or a batch's, that it has the
status and the result of one outcome; that an UPDATE of such a row by the columns
in which a copy has changed leaves such a row is `WriteRow` and `CommitRow`: a
cancel and a batch change status and result always, and a retry starts from a row
that has ended. `LogInv` says how the log goes with the runs: a log that no retry
has kept stands only in a row that has finished and is that of its last run; a
copy read from a queued row has a log no newer than the runs, and a kept one if it
is still in the row; two batches never hold one row, and a held row has the log it
was read with or that of the run in progress.

`OncePerWorker` is `Spec => []RunsPerWorker` for any finite set of workers, by
counting: the runs of a job and the workers that have chosen it (`Held`) are
together at most workers times submissions, and while the job is queued its runs
leave room for all workers once more, since the commit of a run takes it out of
the queue and a retry makes that room again. `TypeCorrect` is `Spec => []TypeOK`;
the bound on submissions counts the retries in flight (`Bounded`).

### 5.4 Versions (`ArtifactsProofs`)

`VersionsUnique`, `InsertsApart`, `VersionsWithoutGap` and `LogRefined` are
`OneRowPerVersion`, `StagedApart`, `NoGap` and `LogSpec` for every set of
writers and starts and any seeded text, and `TypeCorrect` is `TypeOK`. With
`Seeded = {}`, that is for every artifact but the demo's, `LogRefined` says that
the log is append-only. The invariant `LogInv`: the committed versions are 1..n for some n;
what an open transaction has inserted is n+1..m; a row still to be inserted
follows something its writer sees and comes after everything it has inserted
itself. So at most one transaction has inserted anything (`OneInserter`), a row
that passes the unique constraint has version m+1 (`InsertLog`), and a commit
leaves 1..m. A row still to be inserted may have a version that somebody else
has committed meanwhile: that is what the constraint is for, and without it the
invariant does not hold.

Assumptions: a set of jobs, of workers and of clients is finite
(`JobsAssumption`, `ProcessesAssumption`), a problem is created
with versions 1..k of an artifact, each once (`ImportedAssumption`), and an API
request is not a worker (`WritersAssumption`).

### 5.5 Streams (`MonitorProofs`)

For any transactions, streams, filters, limits and bounds: `TypeCorrect`,
`SentOnce` (`NeverTwice`), `SentInOrder` (`InOrder`), `NothingElseMissed`
(`Accounted`). The invariant says that what a stream has sent or fetched is
visible and not newer than its cursor, that nothing was sent and is still in the
batch, and that what was sent is not newer than the batch. A poll takes only what
is newer than the cursor, hence nothing twice; and what it leaves behind its new
cursor has the cursor's own time, hence a tie. A commit adds events behind the
cursor only to `late`. What a transaction has emitted is finite (`Counted`), so the
number its next event gets is one.

### 5.6 Sets (`ContestProofs`)

`TypeCorrect`, `SlotsConsistent` (`SlotsAgree`), `ReportAboutSlots`
(`ReportOfSlots`), `ApprovedAsRead` (`ApprovedReport`) and `BindHolds`
(`BindTakesHold`), for any slots, problems and requests. None of the properties
is inductive, as every write comes from an old read. The invariant adds for each
open request that what it has read is true of the rows, or that it has met the
commit that changed them (`BindFits`, `EvaluationFits`, `ApprovalFits`).
`Langgraph` is any set of requests: the theorems hold for each mode and for both
mixed.

### 5.7 Packages (`PackageProofs`)

`TypeCorrect`, `CompleteUploads` (`UploadsComplete`), `FreshUploads`
(`UploadsFresh`) and `RoundTripHolds` (`RoundTrip`), for any kinds, stored
artifacts, markup, requests and workers. That a package is complete and that it
is as new as its upload are one fact: for a table `b` of versions - 1 for every
required kind, or the latest ones when the upload began - the zip has every kind
at least in version `b`. `Covered(b)` says so of the zip, unless writes have
overlapped, and of every write under way that has met no other. Artifacts are only
added, so every later export covers `b` as well, and `Keeps`, that no step
uncovers a table, is proved for each action; a write that did meet another sets
`overlap`. `Sound` says which tables a request relies on. `RoundTrip` is about
one step: the copies an import appends are not none (every kind is in the
archive), and the last one is what the conversions make of the version.

Assumptions: the kinds are kinds of the archive (`KindsAssumption`), stored
artifacts have a text and a language (`StoredAssumption`), markup leads to texts
again (`MarkupAssumption`).

### 5.8 Stress jobs (`StressProofs`)

For any inputs, samples, programs, checkers, limit of the index, workers and
requests, with or without isolate: `TypeCorrect`, `VerdictsHold`
(`VerdictOfPrograms`), `IndexLeadsToCases` (`IndexOfCases`),
`InterpretationsMatch` (`InterpretationOfJob`) and `CasesAreReal`
(`FailuresArchived`), and of the loop of `stress_compare` by itself
`FirstFailureReported`: ok means agreement on all rounds, an exception means that
one is raised in a round before which all agree, and otherwise the round reported
is the first that fails. No property is inductive, as
everybody writes `spec_json` from a copy and reports are committed long after the
programs were read.

* `CaseInv`: what a worker has read is some version in the log (`ReadFromLog`),
  so a report that names a round is a disagreement of versions there are
  (`FailureOf`, `Disagreements`). Logs only grow, so it stays one. A job that ends
  with such a result has archived its case before, in the same transaction, and
  nobody removes a case.
* `InterpretationInv`: every copy of the row, however old, speaks about the job it
  names and only if that job has ended, at least before it was retried
  (`Interprets`). A request that will store an interpretation has seen its job
  ended. Without the exception the property is false: a stress job fails, its
  failure is interpreted, and the job is put into the queue again.
* `IndexInv`: in every copy the entries lead to their cases and ascend; the row
  itself holds the latest cases unless a rewrite came from a stale row. That the
  limit drops only cases that are old enough would be an induction over the length of
  the index. A bound takes its place: the version of an entry plus its distance from
  the end of the index is at most the number of cases. So the first entry of a
  full index is at least `MaxIndex` behind the case being added.
* `VerdictInv`: a worker that is not overtaken has read what still is the latest,
  one kind after the other, and its report, once made, holds of the latest
  programs (`Holds`). Only the save of a std, a brute or a checker changes what
  `Holds` says, and it sets `overtaken` for every worker that has read the kind or
  has run; a worker that reads the kind later reads the new version.

What a report says of two programs is proved from the operators of `Judge`
(`StressReports`, `ReportFacts`). That the loop has a first failing round
(`FirstRound`) needs a least element: it is taken from the library's theorem that
finite sets are well-founded under inclusion, applied to the sets of rounds up to
each round.

Assumptions: inputs are positive numbers, samples are inputs
(`InputsAssumption`), what is saved, seeded or there at the start is an artifact
of its kind (`StoredAssumption`, `SeedAssumption`, `InitialsAssumption`), the routes
queue jobs of known kinds (`SubmittedAssumption`), the bounds are
numbers (`BoundsAssumption`). An import check, too, may be queued without the
import flow: `POST /stress/run` takes any mode (`api/main.py:999`), and the chat
tool offers this one (`session/tools.py:70`).

### 5.9 Only model-checked

Every safety property that a passing run checks is a theorem. Liveness under fairness (`RequestsEnd` of `Pipeline` and `Contest`, `JobsSettle`,
`WatchEnds`, `SavesEnd`, `EventsArrive`) is out of the prover's reach, as are
ENABLED and induction over data; they stay with TLC.

## 6. Not modelled, and why

Fetching and parsing pages, prompts and answers of models, secrets, the CLI, the
MCP server, the web client and deployment: input and output without a protocol
of their own. The requests to Polygon fail before they are sent; a model of the
protocol would be about code that never runs. Of the sandbox only the answers are
modelled, not the directories and boxes two jobs may share. The tool loop of a
chat turn performs any of the modelled operations in one transaction, chosen by
a language model; only what such a turn leaves behind when a dispatch is refused
is in `Pipeline`. Choosing a workflow is text matching. `idempotency_key` and the
advisory lock of `docs/architecture-runtime.md` are not in the code.

## 7. Plan

1. Done: `Gate`, `Pipeline`, `Jobs`, `VersionLog`, `Artifacts`, `Monitor`,
   `Contest`, `Judge`, `Stress`, `Package` and the theorems above.
2. `Stress` composed with the IMPORT gate of `Pipeline`: what an approval of
   IMPORT says about the programs the problem then has.
3. `Stress` in batches of several jobs, and the work directories and boxes jobs
   share.
4. The overwriting of the demo's programs composed with `Stress`: a verdict about
   a program that a start of the API has replaced.
