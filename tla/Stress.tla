------------------------------- MODULE Stress -------------------------------
(***************************************************************************)
(* The programs of one problem, the jobs that run them, and what the jobs   *)
(* leave in spec_json: the verdict of the last import_check, the last       *)
(* stress job with its interpretation, and the index of counterexamples.    *)
(*                                                                         *)
(* A job reads the artifacts it needs one by one, runs them for a long      *)
(* time, and rewrites spec_json whole from the row it loaded at its start;  *)
(* so do requests, some after a call to a language model. Programs are      *)
(* saved meanwhile. A save is one step (see Artifacts), a batch has one job *)
(* (see Jobs), and the samples of the problem stay as they are.             *)
(***************************************************************************)
EXTENDS Judge, Sequences

CONSTANTS
    Workers,      \* worker processes, or batches that overlap
    Requests,     \* API requests and chat turns that rewrite spec_json
    Stored,       \* per artifact kind, what is saved
    Initials,     \* what the artifacts may be at the start
    SeededBrute,  \* DEFAULT_BRUTE_PY
    MaxIndex,     \* MAX_COUNTEREXAMPLES
    Submitted,    \* bound: kinds of jobs the routes queue
    MaxJobs,      \* bound: jobs
    MaxCalls      \* bound: versions saved by users and agents, jobs cancelled or retried

Kinds == {"std", "brute", "checker", "interactor"}
StressKinds == {"import_check", "stress"}
JobKinds == StressKinds \cup {"compare", "run", "expected", "checked", "compile", "interactive"}

(* What an artifact of kind k may be. *)
Sources(k) == CASE k = "checker" -> Checkers [] k = "interactor" -> Interactors [] OTHER -> Programs

ASSUME StoredAssumption == \A k \in Kinds : Stored[k] \subseteq Sources(k)
ASSUME InitialsAssumption ==
    \A initial \in Initials :
        DOMAIN initial = Kinds /\ \A k \in Kinds : initial[k] \in Seq(Sources(k))
ASSUME SeedAssumption == SeededBrute \in Programs
ASSUME SubmittedAssumption == Submitted \subseteq JobKinds
ASSUME BoundsAssumption == MaxIndex \in Nat \ {0} /\ MaxJobs \in Nat /\ MaxCalls \in Nat

VARIABLES
    log,        \* artifacts: the versions of every kind
    cases,      \* artifacts of kind counterexample
    job,        \* runner_jobs: kind, status, result; history: whether it was retried
    spec,       \* the keys of spec_json that jobs write
    work,       \* of every worker: the transaction of its job
    edit,       \* of every request: its transaction
    calls,      \* saves, cancels and retries so far
    drift,      \* history: the verdict need not be about the latest programs
    clash       \* history: a rewrite has removed what it had not read

vars == <<log, cases, job, spec, work, edit, calls, drift, clash>>

Jobs == 1..MaxJobs
Idle == [at |-> "idle"]

Init ==
    /\ log \in Initials
    /\ cases = <<>>
    /\ job = <<>>
    /\ spec = [verdict |-> "none", last |-> [job |-> 0, about |-> 0], index |-> <<>>]
    /\ work = [w \in Workers |-> Idle]
    /\ edit = [r \in Requests |-> Idle]
    /\ calls = 0
    /\ drift = FALSE /\ clash = FALSE

-----------------------------------------------------------------------------
(* Programs are saved, jobs are queued. *)

(* Fault for VerdictOfPrograms: the rows come in the order of their versions. *)
FaultLatest(k) == IF log[k] = <<>> THEN {} ELSE {log[k][1]}

(* The SELECT of latest_artifact: the last version, if there is one. *)
Latest(k) == IF log[k] = <<>> THEN {} ELSE {log[k][Len(log[k])]}

Judged(k) == k \in {"std", "brute", "checker"}

(* k has a new version: whoever has read it works on an old one.            *)
NewVersion(k, p) ==
    /\ log' = [log EXCEPT ![k] = Append(@, p)]
    /\ drift' = (drift \/ Judged(k))
    /\ work' = [w \in Workers |->
                   IF work[w].at \in {"ran", "archived"} \/ (work[w].at = "read" /\ k \in DOMAIN work[w].read)
                   THEN [work[w] EXCEPT !.overtaken = @ \/ Judged(k)] ELSE work[w]]

Save(k, p) ==
    /\ calls < MaxCalls
    /\ calls' = calls + 1
    /\ NewVersion(k, p)
    /\ UNCHANGED <<cases, job, spec, edit, clash>>

Queued(kind) == [kind |-> kind, status |-> "queued", result |-> "none", retried |-> FALSE]

(* The routes that only queue a job. *)
Submit(kind) ==
    /\ Len(job) < MaxJobs
    /\ job' = Append(job, Queued(kind))
    /\ UNCHANGED <<log, cases, spec, work, edit, calls, drift, clash>>

-----------------------------------------------------------------------------
(* A job in its worker. *)

(* The artifacts a handler reads, in its order. *)
Reads(kind) ==
    CASE kind \in StressKinds -> <<"std", "brute", "checker">>
      [] kind = "compare" -> <<"std", "brute">>
      [] kind = "checked" -> <<"checker", "std">>
      [] kind = "interactive" -> <<"interactor", "std">>
      [] OTHER -> <<"std">>

ReadBy(kind) == {Reads(kind)[i] : i \in DOMAIN Reads(kind)}
Needs(kind) == ReadBy(kind) \ {k \in Kinds : k = "checker" /\ kind \in StressKinds}

(* poll_and_run, process_job: a queued job, which others may have picked    *)
(* too, and the row of its problem are loaded.                              *)
Take(w, j) ==
    /\ work[w] = Idle
    /\ job[j].status = "queued"
    /\ work' = [work EXCEPT ![w] =
                   [at |-> "read", job |-> j, spec |-> spec, read |-> <<>>, overtaken |-> FALSE]]
    /\ UNCHANGED <<log, cases, job, spec, edit, calls, drift, clash>>

KindOf(w) == job[work[w].job].kind

(* RUNNING is flushed before the first SELECT: the job's row is locked.     *)
Free(j) ==
    \A u \in Workers :
        work[u] # Idle /\ work[u].job = j => work[u].at = "read" /\ work[u].read = <<>>

(* Who cancels a job has loaded it when it was queued, and may have waited   *)
(* for the lock: what is in the row by then is overwritten.                 *)
Cancel(j) ==
    /\ calls < MaxCalls
    /\ calls' = calls + 1
    /\ Free(j)
    /\ job' = [job EXCEPT ![j].status = "cancelled", ![j].result = "cancelled"]
    /\ UNCHANGED <<log, cases, spec, work, edit, drift, clash>>

(* A retry that judges an old copy does what a cancel and a retry do.       *)
Retry(j) ==
    /\ calls < MaxCalls
    /\ calls' = calls + 1
    /\ Free(j)
    /\ job[j].status \in {"failed", "cancelled"}
    /\ job' = [job EXCEPT ![j] = [Queued(@.kind) EXCEPT !.retried = TRUE]]
    /\ UNCHANGED <<log, cases, spec, work, edit, drift, clash>>

(* The next SELECT of the handler. Whoever waited for the lock goes on with *)
(* the job although it is done, and with the row loaded before.             *)
Read(w) ==
    LET read == work[w].read IN
    /\ work[w].at = "read"
    /\ read = <<>> => Free(work[w].job)
    /\ \E i \in DOMAIN Reads(KindOf(w)) :
          LET k == Reads(KindOf(w))[i] IN
          /\ k \notin DOMAIN read /\ \A h \in 1..(i - 1) : Reads(KindOf(w))[h] \in DOMAIN read
          /\ work' = [work EXCEPT ![w].read =
                         [x \in DOMAIN read \cup {k} |-> IF x = k THEN Latest(k) ELSE read[x]]]
    /\ UNCHANGED <<log, cases, job, spec, edit, calls, drift, clash>>

(* The inputs of a stress run: the samples, then random ones. *)
Rounds == {Samples \cup drawn : drawn \in SUBSET Inputs}

(* What a handler may report, with what it has read of each kind. *)
Reports(kind, read) ==
    LET one(k) == CHOOSE p \in read[k] : TRUE
        plain(result) == [reason |-> result, round |-> 0] IN
    IF \E k \in Needs(kind) : read[k] = {} THEN {plain("missing")}
    ELSE
    CASE kind \in StressKinds ->
            {StressReport(one("std"), one("brute"), read["checker"], rounds) : rounds \in Rounds}
      [] kind = "compare" -> {plain(Compared(one("std"), one("brute"), i)) : i \in Inputs}
      [] kind = "run" -> {plain(RunSource(one("std"), i)) : i \in Inputs}
      [] kind = "expected" -> {plain(WithExpected(one("std"), i)) : i \in Inputs}
      [] kind = "checked" -> {plain(WithChecker(one("checker"), one("std"), i)) : i \in Inputs}
      [] kind = "compile" -> {plain(CompileVerdict(one("std")))}
      [] kind = "interactive" -> {plain(Interacted(one("interactor"), one("std")))}

(* The programs run. *)
Run(w) ==
    /\ work[w].at = "read"
    /\ DOMAIN work[w].read = ReadBy(KindOf(w))
    /\ \E report \in Reports(KindOf(w), work[w].read) :
          work' = [work EXCEPT ![w] =
                      [at |-> "ran", job |-> @.job, spec |-> @.spec, report |-> report,
                       version |-> 0, overtaken |-> @.overtaken]]
    /\ UNCHANGED <<log, cases, job, spec, edit, calls, drift, clash>>

(* Fault for TypeOK: a failure is archived, with or without a round. *)
FaultArchived(kind, report) == kind \in StressKinds /\ report.reason # "ok"

(* Fault for FailuresArchived: only reports with an input are archived.     *)
FaultWithInput(kind, report) == kind \in StressKinds /\ report.reason = "wa"

(* _failure_payload: only a failure of some round is archived. *)
Archived(kind, report) == kind \in StressKinds /\ report.round # 0

(* archive_stress_counterexample: the version is computed; the row is then  *)
(* inserted, and stays invisible, with its lock, until the commit.          *)
Archive(w) ==
    /\ work[w].at = "ran"
    /\ Archived(KindOf(w), work[w].report)
    /\ work' = [work EXCEPT ![w].at = "archived", ![w].version = Len(cases) + 1]
    /\ UNCHANGED <<log, cases, job, spec, edit, calls, drift, clash>>

Case(w) == [job |-> work[w].job, round |-> work[w].report.round, reason |-> work[w].report.reason]

(* Fault for IndexOfCases: the limit keeps the oldest. *)
FaultKept(index) == IF Len(index) > MaxIndex THEN SubSeq(index, 1, MaxIndex) ELSE index

Kept(index) == IF Len(index) > MaxIndex THEN Tail(index) ELSE index

(* Fault for InterpretationOfJob: the interpretation is stored, the job is not. *)
FaultLastOf(j, last) == [job |-> IF last.job = 0 THEN j ELSE last.job, about |-> j]

LastOf(j, last) == [job |-> j, about |-> j]

(* The row of spec_json becomes new, by somebody who had loaded old. *)
Rewritten(old, new) ==
    /\ spec' = new
    /\ clash' = (clash \/ spec.index # old.index)

(* The end of a stress job that has a report. *)
StressDone(w) ==
    LET q == work[w]
        version == IF q.at = "archived" THEN {q.version} ELSE {}
        index == q.spec.index
        verdict == IF q.report.reason = "ok" THEN "ok" ELSE "failed" IN
    /\ \A v \in version : v = Len(cases) + 1
    /\ cases' = IF version = {} THEN cases ELSE Append(cases, Case(w))
    /\ Rewritten(q.spec,
          [verdict |-> IF KindOf(w) = "import_check" THEN verdict ELSE q.spec.verdict,
           last |-> LastOf(q.job, q.spec.last),
           index |-> IF version = {} THEN index
                     ELSE Kept(Append(index, [version |-> q.version, case |-> Case(w)]))])
    /\ drift' = IF KindOf(w) = "import_check" THEN q.overtaken
                ELSE drift \/ spec.verdict # q.spec.verdict

(* The commit. An exception in the handler leaves spec_json alone. *)
Finish(w) ==
    LET q == work[w]
        failed == q.report.reason \in {"missing", "error"} IN
    /\ q.at = "archived" \/ (q.at = "ran" /\ ~Archived(KindOf(w), q.report))
    /\ IF KindOf(w) \in StressKinds /\ ~failed THEN StressDone(w)
       ELSE UNCHANGED <<cases, spec, drift, clash>>
    /\ job' = [job EXCEPT ![q.job].status = IF failed THEN "failed" ELSE "done",
                          ![q.job].result = q.report.reason]
    /\ work' = [work EXCEPT ![w] = Idle]
    /\ UNCHANGED <<log, edit, calls>>

(* The number of the counterexample was taken, or the process dies: the     *)
(* batch is rolled back and the job is queued again.                        *)
Abort(w) ==
    /\ work[w] # Idle
    /\ work' = [work EXCEPT ![w] = Idle]
    /\ UNCHANGED <<log, cases, job, spec, edit, calls, drift, clash>>

-----------------------------------------------------------------------------
(* Requests that rewrite spec_json. *)

Ops == {"import_check", "dispatch", "interpret", "other"}

(* The row is loaded, and what is judged by it. *)
Load(r, op) ==
    /\ edit[r] = Idle
    /\ op = "interpret" => spec.last.job # 0 /\ job[spec.last.job].result # "none"
    /\ edit' = [edit EXCEPT ![r] = [at |-> op, spec |-> spec]]
    /\ UNCHANGED <<log, cases, job, spec, work, calls, drift, clash>>

(* The row is written and committed. *)
Write(r, op, new) ==
    /\ edit[r].at = op
    /\ Rewritten(edit[r].spec, new)
    /\ drift' = (drift \/ spec.verdict # edit[r].spec.verdict)
    /\ edit' = [edit EXCEPT ![r] = Idle]

(* enqueue_import_check notes the job among the import facts. *)
ImportCheck(r) ==
    /\ Write(r, "import_check", edit[r].spec)
    /\ Len(job) < MaxJobs
    /\ job' = Append(job, Queued("import_check"))
    /\ UNCHANGED <<log, cases, work, calls>>

(* run_stress_agent with both programs: the job it queues becomes the last. *)
Dispatch(r) ==
    /\ Latest("std") # {} /\ Latest("brute") # {}
    /\ Write(r, "dispatch", [edit[r].spec EXCEPT !.last = [job |-> Len(job) + 1, about |-> 0]])
    /\ Len(job) < MaxJobs
    /\ \E kind \in StressKinds : job' = Append(job, Queued(kind))
    /\ UNCHANGED <<log, cases, work, calls>>

(* ... without a brute: the default one is saved first (a step of its own   *)
(* here: nobody depends on both being committed together).                  *)
SeedBrute(r) ==
    /\ edit[r].at = "dispatch"
    /\ log["brute"] = <<>>
    /\ NewVersion("brute", SeededBrute)
    /\ UNCHANGED <<cases, job, spec, edit, calls, clash>>

(* The interpretation of the last job's result is stored. *)
Interpret(r) ==
    /\ Write(r, "interpret", [edit[r].spec EXCEPT !.last.about = edit[r].spec.last.job])
    /\ UNCHANGED <<log, cases, job, work, calls>>

(* Another key of spec_json is changed. *)
Other(r) ==
    /\ Write(r, "other", edit[r].spec)
    /\ UNCHANGED <<log, cases, job, work, calls>>

(* The request fails, or the agent is blocked by a missing std. *)
Refuse(r) ==
    /\ edit[r] # Idle
    /\ edit' = [edit EXCEPT ![r] = Idle]
    /\ UNCHANGED <<log, cases, job, spec, work, calls, drift, clash>>

Next ==
    \/ \E k \in Kinds : \E p \in Stored[k] : Save(k, p)
    \/ \E kind \in Submitted : Submit(kind)
    \/ \E j \in 1..Len(job) : Cancel(j) \/ Retry(j)
    \/ \E w \in Workers :
          \/ \E j \in 1..Len(job) : Take(w, j)
          \/ Read(w) \/ Run(w) \/ Archive(w) \/ Finish(w) \/ Abort(w)
    \/ \E r \in Requests :
          \/ \E op \in Ops : Load(r, op)
          \/ ImportCheck(r) \/ Dispatch(r) \/ SeedBrute(r) \/ Interpret(r) \/ Other(r) \/ Refuse(r)

Spec == Init /\ [][Next]_vars

-----------------------------------------------------------------------------
(* Properties. *)

Results == {"none", "ok", "std_compile_error", "brute_compile_error", "runtime_error", "spj_wa", "wa",
            "missing", "error", "cancelled", "match", "differ", "OK", "CE", "TLE", "OLE", "RTE", "AC", "WA"}
CaseType == [job : Jobs, round : Inputs, reason : {"runtime_error", "spj_wa", "wa"}]
SpecType ==
    [verdict : {"none", "ok", "failed"}, last : [job : 0..MaxJobs, about : 0..MaxJobs],
     index : Seq([version : Nat \ {0}, case : CaseType])]

TypeOK ==
    /\ DOMAIN log = Kinds /\ \A k \in Kinds : log[k] \in Seq(Sources(k))
    /\ cases \in Seq(CaseType)
    /\ job \in Seq([kind : JobKinds, status : {"queued", "done", "failed", "cancelled"},
                     result : Results, retried : BOOLEAN])
    /\ spec \in SpecType /\ Len(spec.index) <= MaxIndex
    /\ \A w \in Workers : work[w] # Idle => work[w].job \in DOMAIN job /\ work[w].spec \in SpecType
    /\ \A r \in Requests : edit[r] # Idle => edit[r].at \in Ops /\ edit[r].spec \in SpecType
    /\ calls \in 0..MaxCalls

(* What a kind is now: its last version, if it has one. *)
Current(k) == {log[k][v] : v \in DOMAIN log[k] \cap {Len(log[k])}}

(* The verdict that opens the IMPORT gate is about the latest programs,     *)
(* although they were read one after the other and run for minutes: when it *)
(* says ok the std and the brute agree on every sample, when it says failed *)
(* they do not build or differ on some input. The only exceptions are a     *)
(* program saved since the check read it, and a rewrite from a stale row.   *)
VerdictOfPrograms ==
    ~drift /\ spec.verdict # "none" =>
        \A p \in Current("std"), q \in Current("brute") :
            LET agree(inputs) ==
                    /\ Builds(p) /\ Builds(q)
                    /\ \A i \in inputs : Agree(p, q, Current("checker"), i) IN
            IF spec.verdict = "ok" THEN agree(Samples) ELSE ~agree(Inputs)

(* Every entry of the index names the artifact that holds its case, in the  *)
(* order of the artifacts; and as long as no rewrite came from a stale row, *)
(* the latest cases are all in the index.                                   *)
IndexOfCases ==
    LET index == spec.index IN
    /\ \A n \in DOMAIN index :
          /\ index[n].version \in DOMAIN cases /\ cases[index[n].version] = index[n].case
          /\ \A m \in 1..(n - 1) : index[m].version < index[n].version
    /\ ~clash =>
          \A v \in DOMAIN cases :
              v > Len(cases) - MaxIndex => \E n \in DOMAIN index : index[n].version = v

(* The interpretation shown for the last stress job is about that job, with *)
(* workers, dispatches and interpretations that rewrite it from stale rows; *)
(* and that job has ended, unless it was put into the queue again.          *)
InterpretationOfJob ==
    spec.last.about # 0 =>
        /\ spec.last.about = spec.last.job
        /\ job[spec.last.job].status # "queued" \/ job[spec.last.job].retried

Versions(k) == {log[k][v] : v \in DOMAIN log[k]}

(* A failure of some round is never lost, and never made up. A job whose     *)
(* result names one has an archived case of its own with that reason,       *)
(* whichever workers ran it, lost the number of the case or died, and       *)
(* however it was cancelled or retried. And for every case there were, at   *)
(* some time, a std and a brute (and a checker) that build and disagree in  *)
(* that round for that reason: no exception of the runner (output that is   *)
(* not text, a program that cannot be run) is reported as a disagreement.   *)
FailuresArchived ==
    /\ \A j \in DOMAIN job :
          job[j].result \in {"runtime_error", "spj_wa", "wa"} =>
              \E v \in DOMAIN cases : cases[v].job = j /\ cases[v].reason = job[j].result
    /\ \A v \in DOMAIN cases :
          \E p \in Versions("std"), q \in Versions("brute"),
             c \in {{}} \cup {{k} : k \in Versions("checker")} :
              /\ Builds(p) /\ Builds(q)
              /\ ~Agree(p, q, c, cases[v].round)
              /\ Failure(p, q, c, cases[v].round) = cases[v].reason
=============================================================================
