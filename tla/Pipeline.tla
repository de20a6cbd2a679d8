------------------------------ MODULE Pipeline ------------------------------
(***************************************************************************)
(* The stage pipeline of one problem: the problems row, its problem_stages *)
(* rows, and the transactions of the API, of the worker, of the crawler    *)
(* and of the API's bootstrap that read and write them.                    *)
(*                                                                         *)
(* Every transaction is one AsyncSession under READ COMMITTED with         *)
(* expire_on_commit=False and no row version: the problems row is loaded   *)
(* once and stays as it was loaded ("mem"); an UPDATE writes the columns   *)
(* whose value changed ("dirty"), the JSON column spec_json as a whole; a  *)
(* row that is updated is locked until the commit, and a second writer     *)
(* waits for it and then overwrites it.                                    *)
(***************************************************************************)
EXTENDS Naturals, Sequences, FiniteSets

CONSTANTS
    Requests,   \* the API requests that can be in flight at the same time
    M3Order,    \* M3_STAGE_ORDER: the stage chain of an ORIGINAL problem
    Origin,     \* how the problem was created: "crawl", "post" or "original"
    Ops,        \* the kinds of request the clients send (bounds a run)
    MaxStarts   \* how many requests and restarts a behaviour has (bounds a run)

VARIABLES
    problem,    \* the committed problems row
    stages,     \* the committed problem_stages rows: stage id -> status
    gates,      \* stages with a committed gate.approved event
    crawl,      \* status of the problem's crawl_import job, or "none"
    queue,      \* modes of the problem's queued stress jobs
    tx,         \* the open transaction of every actor
    complete,   \* history: a committed row once satisfied every IMPORT gate
    verdict,    \* history: the verdict of the last import_check that committed
    starts      \* how many requests and restarts there have been

vars == <<problem, stages, gates, crawl, queue, tx, complete, verdict, starts>>

ASSUME OriginAssumption == Origin \in {"crawl", "post", "original"}

ASSUME OrderAssumption ==
    /\ M3Order \in Seq(STRING)
    /\ Len(M3Order) > 0
    /\ M3Order[1] = "SPEC"
    /\ \A i, j \in 1..Len(M3Order) : M3Order[i] = M3Order[j] => i = j
    /\ \A i \in 1..Len(M3Order) :
          M3Order[i] \notin {"IMPORT", "DONE", "keep", "problem", "crawl"}

ASSUME BoundAssumption == MaxStarts \in Nat

-----------------------------------------------------------------------------
(* The stage chain (db/models.py, facade/pipeline.py). *)

NonOriginal == Origin # "original"

StageOrder == IF NonOriginal THEN <<"IMPORT">> \o M3Order ELSE M3Order

StageIds == {"IMPORT"} \cup {M3Order[i] : i \in 1..Len(M3Order)}

Positions == 1..Len(StageOrder)

(* Fault for NoStageSkipped, GateSpec: an off-by-one in the lookup of the next stage. *)
FaultNextStage(s) ==
    IF \E i \in Positions : StageOrder[i] = s /\ i + 2 \in Positions
    THEN StageOrder[(CHOOSE i \in Positions : StageOrder[i] = s) + 2]
    ELSE "DONE"

(* PipelineFacade.next_stage, with the caller's `nxt or DONE`. *)
NextStage(s) ==
    IF \E i \in Positions : StageOrder[i] = s /\ i + 1 \in Positions
    THEN StageOrder[(CHOOSE i \in Positions : StageOrder[i] = s) + 1]
    ELSE "DONE"

(* The stages that come before c in the chain: all of them when c is DONE. *)
Before(c) ==
    IF c = "DONE"
    THEN {StageOrder[i] : i \in Positions}
    ELSE {StageOrder[i] : i \in {k \in Positions :
                                    \E j \in Positions : k < j /\ StageOrder[j] = c}}

AtOrAfter(s, t) == s = t \/ t \in Before(s)

-----------------------------------------------------------------------------
(* The gates (facade/import_gate.py), on the row a transaction holds. *)

(* Fault for ImportEvidence: the verdict of the import_check is not asked. *)
FaultValidateApprove(p, s) ==
    NonOriginal =>
        /\ p.spec.confirmed
        /\ s = "IMPORT" => p.spec.imported

ValidateApprove(p, s) ==
    NonOriginal =>
        /\ p.spec.confirmed
        /\ s = "IMPORT" => p.spec.imported /\ p.spec.checkOk

ValidateDispatch(p, s) ==
    (NonOriginal /\ s \in {StageOrder[i] : i \in Positions}) =>
        /\ "IMPORT" \in Before(s) => p.spec.imported
        /\ AtOrAfter(s, "SOLUTION") => p.spec.confirmed

-----------------------------------------------------------------------------
(* Rows, actors and transactions. *)

Status == {"PENDING", "AWAITING_HUMAN", "APPROVED", "REJECTED"}
CrawlStatus == {"none", "queued", "done", "failed", "cancelled"}
Modes == {"import_check", "stress"}
Specs == [imported : BOOLEAN, checkOk : BOOLEAN, confirmed : BOOLEAN, thread : BOOLEAN]
Problems == [current : StageIds \cup {"DONE"}, spec : Specs]
Rows == StageIds \cup {"problem", "crawl"}

Workers == {"worker", "crawler", "boot"}
Actors == Requests \cup Workers

ASSUME ActorsAssumption == Requests \cap Workers = {}

StageOps == {"approve", "reject", "dispatch", "chat_dispatch"}
SpecOps == {"confirm", "check", "rewrite"}
JobOps == {"cancel", "retry", "stress"}

KeepStages == [s \in StageIds |-> "keep"]

(* A transaction: what it loaded, what it will write, the row locks it     *)
(* still has to take, in the order it takes them, and those it holds.      *)
Idle == [pc |-> "idle", op |-> "none", stage |-> "none",
         mem |-> [current |-> "DONE",
                  spec |-> [imported |-> FALSE, checkOk |-> FALSE,
                            confirmed |-> FALSE, thread |-> FALSE]],
         job |-> "none", dirty |-> {}, st |-> KeepStages, setjob |-> "keep",
         enq |-> {}, rec |-> "none", todo |-> << >>, held |-> {}]

Loaded(op, s) ==
    [Idle EXCEPT !.pc = "loaded", !.op = op, !.stage = s,
                 !.mem = IF op \in JobOps \cup {"reject"} THEN @ ELSE problem,
                 !.job = IF op \in JobOps THEN crawl ELSE @]

Transactions ==
    {t \in [pc : {"idle", "loaded", "agent", "next", "commit"},
            op : StageOps \cup SpecOps \cup JobOps \cup {"none", "run", "import", "boot"},
            stage : StageIds \cup Modes \cup {"none"},
            mem : Problems, job : CrawlStatus, dirty : SUBSET {"current", "spec"},
            st : [StageIds -> Status \cup {"keep"}], setjob : CrawlStatus \cup {"keep"},
            enq : SUBSET Modes, rec : {"none", "ok", "fail"},
            todo : Seq(Rows), held : SUBSET Rows] :
        t.op \in StageOps => t.stage \in StageIds}

ApiUp == tx["boot"].pc = "idle"

(* The transaction t stages an UPDATE of spec_json: the column is written  *)
(* whole, from the value the transaction loaded.                           *)
SetSpec(t, spec) == [t EXCEPT !.mem.spec = spec, !.dirty = @ \cup {"spec"}]

(* Fault for RequestsEnd: the session is closed without a rollback. *)
FaultRefuse(a) == tx' = [tx EXCEPT ![a] = [Idle EXCEPT !.held = tx[a].held]]

(* The session is closed without a commit: everything is rolled back. *)
Refuse(a) == tx' = [tx EXCEPT ![a] = Idle]

-----------------------------------------------------------------------------
(* Initial states: the three ways a problem is created. *)

Init ==
    /\ problem = [current |-> IF Origin = "crawl" THEN "IMPORT" ELSE "SPEC",
                  spec |-> Idle.mem.spec]
    /\ stages = [s \in StageIds |->
                    IF s = problem.current THEN "AWAITING_HUMAN"
                    ELSE IF s = "IMPORT" THEN "missing" ELSE "PENDING"]
    /\ gates = {}
    /\ crawl = IF Origin = "crawl" THEN "queued" ELSE "none"
    /\ queue = {}
    /\ tx = [a \in Actors |-> Idle]
    /\ complete = FALSE
    /\ verdict = "none"
    /\ starts = 0

-----------------------------------------------------------------------------
(* Locks, commit, and Postgres' deadlock victim. *)

Free(a, row) == \A b \in Actors \ {a} : row \notin tx[b].held

Lock(a) ==
    /\ tx[a].todo # << >>
    /\ Free(a, Head(tx[a].todo))
    /\ tx' = [tx EXCEPT ![a].todo = Tail(@),
                        ![a].held = @ \cup {Head(tx[a].todo)}]
    /\ UNCHANGED <<problem, stages, gates, crawl, queue, complete, verdict, starts>>

WaitsFor(a, b) == tx[a].todo # << >> /\ a # b /\ Head(tx[a].todo) \in tx[b].held

(* The database aborts one transaction of a wait cycle; its request answers *)
(* 500. A waiter for a stage row that holds anything holds the problem row, *)
(* so every cycle has length two.                                           *)
DeadlockVictim(a) ==
    /\ \E b \in Actors : WaitsFor(a, b) /\ WaitsFor(b, a)
    /\ Refuse(a)
    /\ UNCHANGED <<problem, stages, gates, crawl, queue, complete, verdict, starts>>

Committed(t) ==
    [current |-> IF "current" \in t.dirty THEN t.mem.current ELSE problem.current,
     spec |-> IF "spec" \in t.dirty THEN t.mem.spec ELSE problem.spec]

AllGatesOpen(p) == p.spec.imported /\ p.spec.checkOk /\ p.spec.confirmed

Commit(a) ==
    LET t == tx[a] IN
    /\ t.pc = "commit"
    /\ t.todo = << >>
    /\ problem' = Committed(t)
    /\ stages' = [s \in StageIds |-> IF t.st[s] = "keep" THEN stages[s] ELSE t.st[s]]
    /\ gates' = IF t.op = "approve" THEN gates \cup {t.stage} ELSE gates
    /\ crawl' = IF t.setjob = "keep" THEN crawl ELSE t.setjob
    /\ queue' = (IF t.op = "run" THEN queue \ {t.stage} ELSE queue) \cup t.enq
    /\ complete' = (complete \/ AllGatesOpen(Committed(t)))
    /\ verdict' = IF t.rec = "none" THEN verdict ELSE t.rec
    /\ tx' = [tx EXCEPT ![a] = Idle]
    /\ UNCHANGED starts

-----------------------------------------------------------------------------
(* API requests. *)

(* `p = await db.get(Problem, ...)`, or the job for cancel and retry. *)
Load(r) ==
    /\ ApiUp
    /\ tx[r].pc = "idle"
    /\ starts < MaxStarts
    /\ starts' = starts + 1
    /\ \/ \E op \in StageOps \cap Ops, s \in StageIds :
             tx' = [tx EXCEPT ![r] = Loaded(op, s)]
       \/ \E op \in (SpecOps \cup JobOps) \cap Ops :
             tx' = [tx EXCEPT ![r] = Loaded(op, "none")]
    /\ UNCHANGED <<problem, stages, gates, crawl, queue, complete, verdict>>

Checking(r, op) == tx[r].pc = "loaded" /\ tx[r].op = op

(* The row of stage s, as the transaction's own SELECT reads it. *)
Exists(s) == stages[s] # "missing"

(* Fault for ApprovalOrder: the stage is not compared with current_stage. *)
FaultMayApprove(t) == Exists(t.stage) /\ ValidateApprove(t.mem, t.stage)

(* The checks of approve_stage, on the loaded row. *)
MayApprove(t) ==
    /\ Exists(t.stage)
    /\ t.mem.current = t.stage
    /\ ValidateApprove(t.mem, t.stage)

(* approve_stage down to the assignment of current_stage; the SELECT of the *)
(* next row flushes the problem row and the approved row.                   *)
ApproveStage(r) ==
    LET t == tx[r] IN
    /\ Checking(r, "approve")
    /\ IF MayApprove(t)
       THEN tx' = [tx EXCEPT ![r] =
                     [t EXCEPT !.pc = "next",
                               !.mem.current = NextStage(t.stage),
                               !.dirty = {"current"},
                               !.st[t.stage] = IF stages[t.stage] = "APPROVED"
                                               THEN "keep" ELSE "APPROVED",
                               !.todo = <<"problem", t.stage>>]]
       ELSE Refuse(r)
    /\ UNCHANGED <<problem, stages, gates, crawl, queue, complete, verdict, starts>>

(* Fault for CurrentIsOpen: only a rejected row is opened again. *)
FaultOpens(n) == n # "DONE" /\ stages[n] = "REJECTED"

(* The next row exists and does not await the human already. *)
Opens(n) == n # "DONE" /\ Exists(n) /\ stages[n] # "AWAITING_HUMAN"

(* The rest of approve_stage: the next row, read after those locks. *)
ApproveNext(r) ==
    LET t == tx[r]
        n == t.mem.current
    IN
    /\ t.pc = "next"
    /\ t.todo = << >>
    /\ tx' = [tx EXCEPT ![r] =
                IF Opens(n)
                THEN [t EXCEPT !.pc = "commit", !.st[n] = "AWAITING_HUMAN", !.todo = <<n>>]
                ELSE [t EXCEPT !.pc = "commit"]]
    /\ UNCHANGED <<problem, stages, gates, crawl, queue, complete, verdict, starts>>

(* reject_stage: no check of the current stage. *)
RejectStage(r) ==
    LET t == tx[r] IN
    /\ Checking(r, "reject")
    /\ IF Exists(t.stage)
       THEN tx' = [tx EXCEPT ![r] =
                     [t EXCEPT !.pc = "commit",
                               !.st[t.stage] = IF stages[t.stage] = "REJECTED"
                                               THEN "keep" ELSE "REJECTED",
                               !.todo = <<t.stage>>]]
       ELSE Refuse(r)
    /\ UNCHANGED <<problem, stages, gates, crawl, queue, complete, verdict, starts>>

(* Fault for OneAgentPerStage: AGENT_WORKING stays in memory until the end. *)
FaultFlushWorking(s) == << >>

(* The flush of AGENT_WORKING, by the event that announces the start. *)
FlushWorking(s) == <<s>>

(* invoke_dispatch and dispatch_core up to the stage agent: the first       *)
(* dispatch records a thread id in spec_json before anything is checked,    *)
(* the chat path commits it even when the dispatch is refused, and          *)
(* AGENT_WORKING is flushed, which locks the stage row.                     *)
DispatchStage(r) ==
    LET t == tx[r]
        first == ~t.mem.spec.thread
        u == IF first THEN SetSpec(t, [t.mem.spec EXCEPT !.thread = TRUE]) ELSE t
        lockProblem == IF first THEN <<"problem">> ELSE << >>
        accepted == /\ t.mem.current = t.stage
                    /\ ValidateDispatch(t.mem, t.stage)
                    /\ Exists(t.stage)
    IN
    /\ Checking(r, "dispatch") \/ Checking(r, "chat_dispatch")
    /\ IF accepted
       THEN tx' = [tx EXCEPT ![r] = [u EXCEPT !.pc = "agent",
                                              !.todo = lockProblem \o FlushWorking(t.stage)]]
       ELSE IF t.op = "chat_dispatch"
       THEN tx' = [tx EXCEPT ![r] = [u EXCEPT !.pc = "commit", !.todo = lockProblem]]
       ELSE Refuse(r)
    /\ UNCHANGED <<problem, stages, gates, crawl, queue, complete, verdict, starts>>

(* Stages whose agent rewrites spec_json, from the row loaded before the    *)
(* agent ran; the STRESS agent writes it when it has queued a job.          *)
AgentWrites(s, enq) == s \in {"IMPORT", "SPEC"} \/ enq # {}

(* Fault for TypeOK: the stage is left as the agent had it. *)
FaultAfterAgent == "AGENT_WORKING"

AfterAgent == "AWAITING_HUMAN"

(* The transaction t after the agent has answered, having queued enq: it    *)
(* leaves the stage to the human.                                           *)
Answered(t, enq) ==
    LET u == IF AgentWrites(t.stage, enq) THEN SetSpec(t, t.mem.spec) ELSE t
    IN [u EXCEPT !.st[t.stage] = AfterAgent, !.pc = "commit", !.enq = enq,
                 !.todo = IF "spec" \in u.dirty THEN <<"problem">> ELSE << >>]

(* The rest of dispatch_core, once the agent's bounded LLM call has ended,  *)
(* in an answer or in an error that is swallowed.                           *)
AgentDone(r) ==
    LET t == tx[r] IN
    /\ t.pc = "agent"
    /\ t.todo = << >>
    /\ \E enq \in {{}} \cup (IF t.stage = "STRESS" THEN {{m} : m \in Modes} ELSE {}) :
          tx' = [tx EXCEPT ![r] = Answered(t, enq)]
    /\ UNCHANGED <<problem, stages, gates, crawl, queue, complete, verdict, starts>>

(* confirm_submission, enqueue_import_check, and the routes that rewrite    *)
(* spec_json without touching the import facts (fetch-std, the stress       *)
(* interpretation, the Polygon uploads).                                    *)
RewriteSpec(r) ==
    LET t == tx[r] IN
    /\ t.pc = "loaded"
    /\ t.op \in SpecOps
    /\ IF t.op = "rewrite" \/ NonOriginal
       THEN tx' = [tx EXCEPT ![r] =
                     [SetSpec(t, IF t.op = "confirm"
                                 THEN [t.mem.spec EXCEPT !.confirmed = TRUE]
                                 ELSE t.mem.spec)
                        EXCEPT !.pc = "commit", !.todo = <<"problem">>,
                               !.enq = IF t.op = "check" THEN {"import_check"} ELSE {}]]
       ELSE Refuse(r)
    /\ UNCHANGED <<problem, stages, gates, crawl, queue, complete, verdict, starts>>

(* cancel_job and retry_job on the crawl job, judged by the status that was *)
(* loaded; enqueue_stress of a plain run.                                   *)
JobRequest(r) ==
    LET t == tx[r]
        becomes == IF t.op = "cancel" /\ t.job = "queued" THEN "cancelled"
                   ELSE IF t.op = "retry" /\ t.job \in {"failed", "cancelled"} THEN "queued"
                   ELSE "keep"
    IN
    /\ t.pc = "loaded"
    /\ t.op \in JobOps
    /\ IF t.op = "stress"
       THEN tx' = [tx EXCEPT ![r] = [t EXCEPT !.pc = "commit", !.enq = {"stress"}]]
       ELSE IF becomes # "keep"
       THEN tx' = [tx EXCEPT ![r] = [t EXCEPT !.pc = "commit", !.setjob = becomes,
                                              !.todo = <<"crawl">>]]
       ELSE Refuse(r)
    /\ UNCHANGED <<problem, stages, gates, crawl, queue, complete, verdict, starts>>

-----------------------------------------------------------------------------
(* The worker's stress jobs and the crawler's import. *)

StressStart(m) ==
    /\ tx["worker"].pc = "idle"
    /\ m \in queue
    /\ tx' = [tx EXCEPT !["worker"] = [Loaded("run", m) EXCEPT !.pc = "agent"]]
    /\ UNCHANGED <<problem, stages, gates, crawl, queue, complete, verdict, starts>>

(* handle_stress: rewrites spec_json (last_stress), and an import_check     *)
(* records its verdict. A job that fails (no std, an exception) may have    *)
(* rewritten spec_json already, and records no verdict.                     *)
StressDone(ok, fails, wrote) ==
    LET t == tx["worker"]
        records == t.stage = "import_check" /\ ~fails
        spec == IF records THEN [t.mem.spec EXCEPT !.checkOk = ok] ELSE t.mem.spec
    IN
    /\ t.pc = "agent"
    /\ tx' = [tx EXCEPT !["worker"] =
                IF fails /\ ~wrote
                THEN [t EXCEPT !.pc = "commit"]
                ELSE [SetSpec(t, spec) EXCEPT !.pc = "commit", !.todo = <<"problem">>,
                                               !.rec = IF ~records THEN "none"
                                                       ELSE IF ok THEN "ok" ELSE "fail"]]
    /\ UNCHANGED <<problem, stages, gates, crawl, queue, complete, verdict, starts>>

(* process_job flushes RUNNING first: the job row is locked while it runs. *)
CrawlStart ==
    /\ tx["crawler"].pc = "idle"
    /\ crawl = "queued"
    /\ tx' = [tx EXCEPT !["crawler"] =
                [Loaded("import", "none") EXCEPT !.pc = "agent", !.todo = <<"crawl">>]]
    /\ UNCHANGED <<problem, stages, gates, crawl, queue, complete, verdict, starts>>

(* crawl_and_import: the import facts are reset, the pipeline goes back to  *)
(* IMPORT, and an import_check is queued when a std exists.                 *)
CrawlDone(hasStd) ==
    LET t == tx["crawler"]
        spec == [t.mem.spec EXCEPT !.imported = TRUE, !.confirmed = FALSE]
        u == IF hasStd \/ spec # t.mem.spec THEN SetSpec(t, spec) ELSE t
        back == t.mem.current # "IMPORT"
        v == IF back THEN [u EXCEPT !.mem.current = "IMPORT", !.dirty = @ \cup {"current"}]
                     ELSE u
    IN
    /\ t.pc = "agent"
    /\ t.todo = << >>
    /\ tx' = [tx EXCEPT !["crawler"] =
                [v EXCEPT !.setjob = "done", !.pc = "commit",
                          !.enq = IF hasStd THEN {"import_check"} ELSE {},
                          !.todo = IF v.dirty # {} THEN <<"problem">> ELSE << >>]]
    /\ UNCHANGED <<problem, stages, gates, crawl, queue, complete, verdict, starts>>

(* The page cannot be fetched or parsed: the job fails, nothing else changes. *)
CrawlFail ==
    /\ tx["crawler"].pc = "agent"
    /\ tx["crawler"].todo = << >>
    /\ tx' = [tx EXCEPT !["crawler"].setjob = "failed", !["crawler"].pc = "commit"]
    /\ UNCHANGED <<problem, stages, gates, crawl, queue, complete, verdict, starts>>

(* A worker process dies: its transaction is rolled back. *)
WorkerCrash(w) ==
    /\ w \in {"worker", "crawler"}
    /\ tx[w].pc # "idle"
    /\ Refuse(w)
    /\ UNCHANGED <<problem, stages, gates, crawl, queue, complete, verdict, starts>>

-----------------------------------------------------------------------------
(* A restart of the API: requests in flight are rolled back, and lifespan's *)
(* bootstrap transaction runs before new ones are served.                   *)

Restart ==
    /\ starts < MaxStarts
    /\ starts' = starts + 1
    /\ tx' = [a \in Actors |->
                IF a \in Requests THEN Idle
                ELSE IF a = "boot" THEN Loaded("boot", "none") ELSE tx[a]]
    /\ UNCHANGED <<problem, stages, gates, crawl, queue, complete, verdict>>

(* ensure_m6_import_stages / ensure_non_original_stages. *)
Bootstrap ==
    LET t == tx["boot"]
        missing == {s \in StageIds : ~Exists(s)}
        back == t.mem.current = "SPEC"
        u == IF missing # {} THEN SetSpec(t, t.mem.spec) ELSE t
        v == IF back THEN [u EXCEPT !.mem.current = "IMPORT", !.dirty = @ \cup {"current"}]
                     ELSE u
        reopen == back /\ Exists("IMPORT") /\ stages["IMPORT"] # "AWAITING_HUMAN"
        lockProblem == IF v.dirty # {} THEN <<"problem">> ELSE << >>
        lockImport == IF reopen THEN <<"IMPORT">> ELSE << >>
    IN
    /\ Checking("boot", "boot")
    /\ tx' = [tx EXCEPT !["boot"] =
                IF NonOriginal
                THEN [v EXCEPT !.pc = "commit",
                               !.st = [s \in StageIds |->
                                         IF s \in missing THEN "PENDING"
                                         ELSE IF s = "IMPORT" /\ reopen THEN "AWAITING_HUMAN"
                                         ELSE "keep"],
                               !.todo = lockProblem \o lockImport]
                ELSE [t EXCEPT !.pc = "commit"]]
    /\ UNCHANGED <<problem, stages, gates, crawl, queue, complete, verdict, starts>>

-----------------------------------------------------------------------------
Step(r) ==
    \/ ApproveStage(r) \/ ApproveNext(r) \/ RejectStage(r)
    \/ DispatchStage(r) \/ AgentDone(r) \/ RewriteSpec(r) \/ JobRequest(r)

WorkerStep ==
    \E ok, fails, wrote \in BOOLEAN : StressDone(ok, fails, wrote)

CrawlerStep == CrawlFail \/ \E hasStd \in BOOLEAN : CrawlDone(hasStd)

Next ==
    \/ \E r \in Requests : Load(r) \/ Step(r)
    \/ \E a \in Actors : Lock(a) \/ DeadlockVictim(a) \/ Commit(a)
    \/ \E m \in Modes : StressStart(m)
    \/ WorkerStep
    \/ CrawlStart
    \/ CrawlerStep
    \/ \E w \in Workers : WorkerCrash(w)
    \/ Restart
    \/ Bootstrap

(* A transaction that has started goes on: the event loop runs the request, *)
(* agents and jobs are bounded by timeouts, Postgres grants a row lock in   *)
(* the order of the waiters and breaks a wait cycle.                        *)
Fairness ==
    /\ \A a \in Actors : SF_vars(Lock(a)) /\ WF_vars(DeadlockVictim(a)) /\ WF_vars(Commit(a))
    /\ \A r \in Requests : WF_vars(Step(r))
    /\ WF_vars(WorkerStep) /\ WF_vars(CrawlerStep) /\ WF_vars(Bootstrap)

Spec == Init /\ [][Next]_vars /\ Fairness

-----------------------------------------------------------------------------
(* Properties. *)

TypeOK ==
    /\ problem \in Problems
    /\ stages \in [StageIds -> Status \cup {"missing"}]
    /\ gates \subseteq StageIds
    /\ crawl \in CrawlStatus
    /\ queue \subseteq Modes
    /\ tx \in [Actors -> Transactions]
    /\ complete \in BOOLEAN
    /\ verdict \in {"none", "ok", "fail"}
    /\ starts \in 0..MaxStarts

(* The problem never stands behind a gate nobody passed: every stage before *)
(* the current one has a committed approval, whatever stale rows the        *)
(* approvals, imports and restarts worked from (stages.yaml: a stage is     *)
(* left only by a human's approval).                                        *)
NoStageSkipped == Before(problem.current) \subseteq gates

(* IMPORT is approved only if, at some moment, one committed row had the    *)
(* statement imported, an import_check passed and the submission confirmed: *)
(* the three facts are never combined from different versions of the row.   *)
ImportEvidence == "IMPORT" \in gates => complete

(* The stage the problem stands at is open to the human: approve_stage      *)
(* moves current_stage and opens the next row in two separate rows, and     *)
(* no interleaving leaves the current stage PENDING.                        *)
CurrentIsOpen ==
    problem.current # "DONE" => stages[problem.current] \in Status \ {"PENDING"}

Working(a) ==
    tx[a].op \in {"dispatch", "chat_dispatch"} /\ tx[a].pc = "agent" /\ tx[a].todo = << >>

(* Two dispatches of one stage never run its agent at the same time: the    *)
(* flushed AGENT_WORKING keeps the second waiting for the row lock.         *)
OneAgentPerStage ==
    \A a, b \in Actors :
        Working(a) /\ Working(b) /\ tx[a].stage = tx[b].stage => a = b

(* non-original-workflow.md 6: IMPORT and its gate come before every other  *)
(* stage, so a stage has been approved only after all those before it.      *)
ApprovalOrder == \A s \in gates : Before(s) \subseteq gates

(* non-original-workflow.md 4.3: IMPORT does not pass without a passed      *)
(* check, so the verdict in the row is the verdict of the last check.       *)
RecordedVerdict == problem.spec.checkOk => verdict = "ok"

(* Every request that has been accepted is answered: no interleaving of row *)
(* locks, stale loads, restarts and aborted transactions leaves it hanging. *)
RequestsEnd == \A r \in Requests : tx[r].pc # "idle" ~> tx[r].pc = "idle"

(* The pipeline implements the abstract gate chain. *)
Gates == INSTANCE Gate WITH
    Stages <- StageIds, Head0 <- StageOrder[1], Next0 <- NextStage,
    Before0 <- Before, current <- problem.current, gates <- gates

GateSpec == Gates!Spec
=============================================================================
