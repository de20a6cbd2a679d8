-------------------------------- MODULE Jobs --------------------------------
(***************************************************************************)
(* The job queue in runner_jobs: clients create, cancel and retry jobs     *)
(* (facade/jobs.py, api/main.py), worker processes poll them and run them  *)
(* in batches (worker/main.py, worker/handlers.py), a client watches a job *)
(* over a WebSocket (facade/job_stream.py).                                *)
(*                                                                         *)
(* A batch is ONE transaction: the jobs are selected without a lock, each  *)
(* row is locked when RUNNING is flushed, and statuses, results and every  *)
(* effect of the handlers are committed together after the last job. So    *)
(* "running" is never visible to anybody else, and a job is judged by the  *)
(* status it had when the batch was selected.                              *)
(*                                                                         *)
(* Whoever writes a row has read it before, and writes the columns whose   *)
(* value differs from the one read: the others stay as they are by then.   *)
(***************************************************************************)
EXTENDS Naturals, Sequences, FiniteSets

CONSTANTS
    Jobs,        \* the jobs that may be created
    Clients,     \* API requests that can be in flight at the same time
    Workers,     \* worker processes polling the same kinds of job
    Poison,      \* jobs that may have an outcome the database refuses to store
    Logging,     \* jobs whose log_text is followed (NULL for the others)
    MaxBatch,    \* limit(5) of poll_and_run
    MaxSubmits,  \* bound: how often one job is created or retried
    MaxCrashes   \* bound: how often a worker process dies by itself

VARIABLES
    job,         \* the committed runner_jobs rows
    submits,     \* how often a commit has put the job into the queue
    runs,        \* how often effects of running the job have been committed
    req,         \* the open API request of every client
    batch,       \* the open batch of every worker
    watch,       \* the WebSocket watcher of every job
    crashes,     \* how often a worker has died by itself
    keptLog      \* history: the last write of the row left a log in it that the
                 \* writer had not read, or that was there for this reason before

vars == <<job, submits, runs, req, batch, watch, crashes, keptLog>>

ASSUME JobsAssumption == IsFiniteSet(Jobs)
ASSUME ProcessesAssumption == IsFiniteSet(Workers) /\ IsFiniteSet(Clients)
ASSUME PoisonAssumption == Poison \subseteq Jobs
ASSUME LoggingAssumption == Logging \subseteq Jobs
ASSUME BoundAssumption ==
    MaxBatch \in Nat \ {0} /\ MaxSubmits \in Nat \ {0} /\ MaxCrashes \in Nat
ASSUME DistinctAssumption == Clients \cap Workers = {}

-----------------------------------------------------------------------------
Status == {"queued", "done", "failed", "cancelled"}
Results == {"none", "report", "error", "cancelled"}
Rows == [status : Status, result : Results, log : Nat]

(* log is the number of the run that wrote log_text, 0 if that is NULL. *)
Absent == [status |-> "absent", result |-> "none", log |-> 0]
Queued == [status |-> "queued", result |-> "none", log |-> 0]

(* Fault for TypeOK: the handler leaves the status as process_job set it. *)
FaultDone == [status |-> "running", result |-> "report"]

Done == [status |-> "done", result |-> "report"]
Failed == [status |-> "failed", result |-> "error"]

NoRequest == [op |-> "none", job |-> "none", loaded |-> Absent]

(* A worker: its process state, the selected jobs it has not finished, the  *)
(* rows as it selected them, the rows as its session holds them (of the     *)
(* jobs it has run or is running), and whether the first selected job is    *)
(* running.                                                                 *)
NoBatch ==
    [pc |-> "polling", todo |-> << >>, read |-> << >>, out |-> << >>, running |-> FALSE]
Down == [NoBatch EXCEPT !.pc = "down"]

Locked(j) == \E w \in Workers : j \in DOMAIN batch[w].out

Init ==
    /\ job = [j \in Jobs |-> Absent]
    /\ submits = [j \in Jobs |-> 0]
    /\ runs = [j \in Jobs |-> 0]
    /\ req = [c \in Clients |-> NoRequest]
    /\ batch = [w \in Workers |-> NoBatch]
    /\ watch = [j \in Jobs |-> "no"]
    /\ crashes = 0
    /\ keptLog = [j \in Jobs |-> FALSE]

(* The row after a flush of what a session holds of it: the columns that    *)
(* differ from what it read.                                                *)
Written(read, held, row) ==
    [status |-> IF held.status = read.status THEN row.status ELSE held.status,
     result |-> IF held.result = read.result THEN row.result ELSE held.result,
     log |-> IF held.log = read.log THEN row.log ELSE held.log]

LogKept(j, read, held) == held.log = read.log /\ (keptLog[j] \/ read.log # job[j].log)

-----------------------------------------------------------------------------
(* Clients. *)

(* JobFacade.enqueue_*: the row is inserted QUEUED and committed. *)
Enqueue(j) ==
    /\ job[j] = Absent
    /\ job' = [job EXCEPT ![j] = Queued]
    /\ submits' = [submits EXCEPT ![j] = 1]
    /\ UNCHANGED <<runs, req, batch, watch, crashes, keptLog>>

(* get_job: the row as it is now; the request goes on with that copy. *)
Load(c, op, j) ==
    /\ req[c] = NoRequest
    /\ job[j] # Absent
    /\ op = "retry" => submits[j] < MaxSubmits
    /\ req' = [req EXCEPT ![c] = [op |-> op, job |-> j, loaded |-> job[j]]]
    /\ UNCHANGED <<job, submits, runs, batch, watch, crashes, keptLog>>

(* The guards of cancel_job and retry_job, on the loaded status. *)
Allowed(op, status) ==
    IF op = "cancel" THEN status \notin {"done", "failed", "cancelled"}
    ELSE status \in {"failed", "cancelled"}

(* What the session holds after cancel_job and after retry_job. *)
CancelRow(read) == [read EXCEPT !.status = "cancelled", !.result = "cancelled"]

(* Fault for OutcomeOfOneRun: a retried job keeps its log. *)
FaultRetryRow(read) == [read EXCEPT !.status = "queued", !.result = "none"]

RetryRow(read) == Queued

HeldRow(r) == IF r.op = "cancel" THEN CancelRow(r.loaded) ELSE RetryRow(r.loaded)

(* The UPDATE waits for a worker that holds the row, then writes over what  *)
(* that worker has committed.                                               *)
Write(c) ==
    LET r == req[c]
        held == HeldRow(r) IN
    /\ r # NoRequest
    /\ Allowed(r.op, r.loaded.status)
    /\ ~Locked(r.job)
    /\ job' = [job EXCEPT ![r.job] = Written(r.loaded, held, @)]
    /\ keptLog' = [keptLog EXCEPT ![r.job] = LogKept(r.job, r.loaded, held)]
    /\ submits' = IF r.op = "retry" THEN [submits EXCEPT ![r.job] = @ + 1] ELSE submits
    /\ req' = [req EXCEPT ![c] = NoRequest]
    /\ UNCHANGED <<runs, batch, watch, crashes>>

(* "Cannot cancel / retry job in status ...": 400. *)
RefuseRequest(c) ==
    /\ req[c] # NoRequest
    /\ ~Allowed(req[c].op, req[c].loaded.status)
    /\ req' = [req EXCEPT ![c] = NoRequest]
    /\ UNCHANGED <<job, submits, runs, batch, watch, crashes, keptLog>>

-----------------------------------------------------------------------------
(* Workers. *)

(* Every way to list a set: the SELECT has no ORDER BY. *)
Listings(S) ==
    {f \in [1..Cardinality(S) -> S] : \A x \in S : \E i \in DOMAIN f : f[i] = x}

(* Fault for RunsWithinSubmits and RunsPerWorker: the poll takes whatever   *)
(* has not ended, cancelled jobs included.                                  *)
FaultQueuedJobs == {j \in Jobs : job[j].status \in {"queued", "cancelled"}}

QueuedJobs == {j \in Jobs : job[j].status = "queued"}

(* Fault for JobsSettle: the worker waits until a batch is full. *)
FaultBatches == {S \in SUBSET QueuedJobs : Cardinality(S) = MaxBatch}

(* The batches poll_and_run may select: at most MaxBatch queued jobs. *)
Batches ==
    {S \in SUBSET QueuedJobs :
        \/ S = QueuedJobs /\ Cardinality(S) <= MaxBatch
        \/ Cardinality(S) = MaxBatch}

Poll(w) ==
    /\ batch[w] = NoBatch
    /\ QueuedJobs # {}
    /\ \E S \in Batches : \E order \in Listings(S) :
          batch' = [batch EXCEPT ![w] =
             [NoBatch EXCEPT !.pc = "batch", !.todo = order, !.read = [j \in S |-> job[j]]]]
    /\ UNCHANGED <<job, submits, runs, req, watch, crashes, keptLog>>

Next1(w) == Head(batch[w].todo)

LockedByOther(w, j) == \E v \in Workers \ {w} : j \in DOMAIN batch[v].out

(* process_job up to the flush of RUNNING: the status is the one selected   *)
(* (queued), whatever has been committed since.                             *)
Start(w) ==
    /\ batch[w].todo # << >>
    /\ ~batch[w].running
    /\ ~LockedByOther(w, Next1(w))
    /\ batch' = [batch EXCEPT ![w].running = TRUE,
                              ![w].out = [j \in DOMAIN @ \cup {Next1(w)} |->
                                            IF j \in DOMAIN @ THEN @[j]
                                            ELSE batch[w].read[j]]]
    /\ UNCHANGED <<job, submits, runs, req, watch, crashes, keptLog>>

(* The handler returns DONE, or the job has FAILED: a precondition of the   *)
(* handler, or an exception that process_job turns into FAILED. A failed    *)
(* precondition, a crawl and some refused runs set no log.                  *)
Finish(w, outcome, logs) ==
    LET j == Next1(w)
        log == IF logs THEN runs[j] + 1 ELSE batch[w].read[j].log IN
    /\ batch[w].running
    /\ logs => j \in Logging
    /\ batch' = [batch EXCEPT ![w].running = FALSE,
                              ![w].out[j] = [status |-> outcome.status,
                                             result |-> outcome.result, log |-> log],
                              ![w].todo = Tail(@)]
    /\ UNCHANGED <<job, submits, runs, req, watch, crashes, keptLog>>

(* The outcome cannot be stored (a NUL character in a text or JSON column): *)
(* the flush fails, the failure event fails on the broken transaction, and  *)
(* the exception leaves poll_and_run and the loop: the process ends, the    *)
(* batch is rolled back.                                                    *)
FinishPoison(w) ==
    /\ batch[w].running
    /\ Next1(w) \in Poison
    /\ batch' = [batch EXCEPT ![w] = Down]
    /\ UNCHANGED <<job, submits, runs, req, watch, crashes, keptLog>>

(* The commit of poll_and_run. *)
CommitBatch(w) ==
    LET out == batch[w].out
        read == batch[w].read IN
    /\ batch[w].pc = "batch"
    /\ batch[w].todo = << >>
    /\ job' = [j \in Jobs |-> IF j \in DOMAIN out THEN Written(read[j], out[j], job[j])
                              ELSE job[j]]
    /\ keptLog' = [j \in Jobs |-> IF j \in DOMAIN out THEN LogKept(j, read[j], out[j])
                                  ELSE keptLog[j]]
    /\ runs' = [j \in Jobs |-> IF j \in DOMAIN out THEN runs[j] + 1 ELSE runs[j]]
    /\ batch' = [batch EXCEPT ![w] = NoBatch]
    /\ UNCHANGED <<submits, req, watch, crashes>>

(* Two batches wait for each other's rows: the database aborts one, and the *)
(* exception, raised outside the try of process_job, ends the process.      *)
BatchDeadlock(w) ==
    /\ \E v \in Workers \ {w} :
          /\ batch[w].todo # << >> /\ ~batch[w].running /\ Next1(w) \in DOMAIN batch[v].out
          /\ batch[v].todo # << >> /\ ~batch[v].running /\ Next1(v) \in DOMAIN batch[w].out
    /\ batch' = [batch EXCEPT ![w] = Down]
    /\ UNCHANGED <<job, submits, runs, req, watch, crashes, keptLog>>

Crash(w) ==
    /\ crashes < MaxCrashes
    /\ batch[w].pc = "batch"
    /\ crashes' = crashes + 1
    /\ batch' = [batch EXCEPT ![w] = Down]
    /\ UNCHANGED <<job, submits, runs, req, watch, keptLog>>

(* The operator starts the process again. *)
StartWorker(w) ==
    /\ batch[w] = Down
    /\ batch' = [batch EXCEPT ![w] = NoBatch]
    /\ UNCHANGED <<job, submits, runs, req, watch, crashes, keptLog>>

-----------------------------------------------------------------------------
(* The watcher: ws_job_loop polls the row and closes on done or failed. *)

OpenWatch(j) ==
    /\ watch[j] = "no"
    /\ job[j] # Absent
    /\ watch' = [watch EXCEPT ![j] = "open"]
    /\ UNCHANGED <<job, submits, runs, req, batch, crashes, keptLog>>

(* Fault for WatchEnds: only a job that is done ends the loop. *)
FaultTerminal == {"done"}

Terminal == {"done", "failed"}

CloseWatch(j) ==
    /\ watch[j] = "open"
    /\ job[j].status \in Terminal
    /\ watch' = [watch EXCEPT ![j] = "closed"]
    /\ UNCHANGED <<job, submits, runs, req, batch, crashes, keptLog>>

-----------------------------------------------------------------------------
WorkerStep(w) ==
    \/ Poll(w) \/ Start(w) \/ FinishPoison(w) \/ CommitBatch(w) \/ BatchDeadlock(w)
    \/ \E outcome \in {Done, Failed}, logs \in BOOLEAN : Finish(w, outcome, logs)

Next ==
    \/ \E j \in Jobs : Enqueue(j) \/ OpenWatch(j) \/ CloseWatch(j)
    \/ \E c \in Clients, j \in Jobs : Load(c, "cancel", j) \/ Load(c, "retry", j)
    \/ \E c \in Clients : Write(c) \/ RefuseRequest(c)
    \/ \E w \in Workers : WorkerStep(w) \/ Crash(w) \/ StartWorker(w)

(* The worker's loop keeps polling and its handlers end (every run has a    *)
(* time limit), the operator restarts a dead worker, a request is answered, *)
(* and the watcher keeps polling.                                           *)
Fairness ==
    /\ \A w \in Workers : WF_vars(WorkerStep(w)) /\ WF_vars(StartWorker(w))
    /\ \A c \in Clients : WF_vars(RefuseRequest(c)) /\ SF_vars(Write(c))
    /\ \A j \in Jobs : WF_vars(CloseWatch(j))

Spec == Init /\ [][Next]_vars /\ Fairness

-----------------------------------------------------------------------------
(* Properties. *)

TypeOK ==
    /\ job \in [Jobs -> Rows \cup {Absent}]
    /\ submits \in [Jobs -> 0..MaxSubmits + Cardinality(Clients)]
    /\ \A j \in Jobs : runs[j] \in Nat
    /\ \A c \in Clients : req[c] = NoRequest \/ req[c].job \in Jobs
    /\ \A w \in Workers :
          /\ DOMAIN batch[w].out \subseteq Jobs
          /\ \A i \in DOMAIN batch[w].todo : batch[w].todo[i] \in Jobs
    /\ watch \in [Jobs -> {"no", "open", "closed"}]
    /\ crashes \in 0..MaxCrashes
    /\ keptLog \in [Jobs -> BOOLEAN]

(* A job's effects (archived counterexamples, verdicts, saved artifacts,    *)
(* events) are committed at most once for every time it entered the queue,  *)
(* over cancels and retries judged by stale copies and over crashes: the    *)
(* status and the effects are one transaction.                              *)
RunsWithinSubmits == \A j \in Jobs : runs[j] <= submits[j]

(* With several workers polling the same kinds, each of them runs a job at  *)
(* most once for every time it entered the queue.                           *)
RunsPerWorker == \A j \in Jobs : runs[j] <= Cardinality(Workers) * submits[j]

(* What a status says of the result. *)
Outcomes ==
    {<<"absent", "none">>, <<"queued", "none">>, <<"cancelled", "cancelled">>,
     <<"done", "report">>, <<"failed", "error">>}

(* A row tells the outcome of one run: its result is the one its status     *)
(* says, and a log is there only if the job has ended and is the log of the *)
(* run whose result is shown. Requests and batches write over each other by *)
(* columns, from rows read long before; the one exception is a log kept by  *)
(* a writer that has not read it (a cancel that waited for the worker, the  *)
(* second of two retries, a batch selected before another worker's commit). *)
OutcomeOfOneRun ==
    \A j \in Jobs :
        /\ <<job[j].status, job[j].result>> \in Outcomes
        /\ job[j].log # 0 /\ ~keptLog[j] =>
              job[j].status \in {"done", "failed"} /\ job[j].log = runs[j]

(* TECHNICAL.md 6: a queued job is taken and its result is written back; no *)
(* crash, batch order or racing request leaves it queued for ever.          *)
JobsSettle == \A j \in Jobs : job[j].status = "queued" ~> job[j].status # "queued"

(* Whoever watches a job is told of its end, unless the job was cancelled:  *)
(* ws_job_loop does not know that status, and goes on polling.              *)
WatchEnds ==
    \A j \in Jobs : watch[j] = "open" ~> watch[j] = "closed" \/ job[j].status = "cancelled"

(* architecture-runtime.md, line 116: a stress job can be cancelled; a job  *)
(* whose cancellation is committed has no effects unless it is retried.     *)
CancelHonoured ==
    [][\A j \in Jobs : job[j].status = "cancelled" => runs'[j] = runs[j]]_vars
=============================================================================
