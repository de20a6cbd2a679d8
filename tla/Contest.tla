------------------------------ MODULE Contest -------------------------------
(***************************************************************************)
(* One contest set: its slots, its evaluation and the approval of it, under *)
(* concurrent requests (web, chat). A request reads rows first and writes   *)
(* them at its end, and it writes only the columns whose value differs from *)
(* the one it has read: the session flushes net changes.                    *)
(*                                                                         *)
(* What an evaluation reports of ratings, stages and targets is left out:   *)
(* no request reads it. A report is the table of problems it was made from. *)
(***************************************************************************)
EXTENDS Naturals, FiniteSets

CONSTANTS
    Requests,       \* concurrent API requests and chat turns
    Slots,          \* the slot labels of the set
    Problems,       \* problems of the workspace, those created later included
    Existing,       \* the problems that exist at the start
    NoProblem,      \* an empty slot (problem_id NULL)
    NoReport,       \* set_eval_json is {}
    Langgraph,      \* the requests whose process has settings.use_langgraph
    MaxStarts       \* bound: requests started in all

ASSUME ExistingAssumption == Existing \subseteq Problems /\ NoProblem \notin Problems
ASSUME LanggraphAssumption == Langgraph \subseteq Requests
ASSUME StartsAssumption == MaxStarts \in Nat

Statuses == {"DRAFT", "SET_EVAL_PENDING", "SET_EVAL_APPROVED"}
Ops == {"bind", "evaluate", "approve"}
Tables == [Slots -> Problems \cup {NoProblem}]

ASSUME ReportAssumption == NoReport \notin Tables

VARIABLES
    problem,    \* contest_slots.problem_id
    assigned,   \* contest_slots.status = "ASSIGNED" (otherwise "EMPTY")
    set,        \* the row of contest_sets: its status and its report
    exists,     \* the rows of problems
    holder,     \* the evaluations that hold the row lock of the set (at most one)
    req,        \* the requests
    starts,     \* requests started so far
    approvedOn, \* history: the report that the last approver had read
    clash,      \* history: the last evaluation and approval overlapped
    drift,      \* history: a bind was committed since the evaluation began
                \* that wrote the report
    raced       \* history: two binds have overlapped

vars == <<problem, assigned, set, exists, holder, req, starts,
          approvedOn, clash, drift, raced>>

(* A request: what it does, where it is, what it has read of the set and of *)
(* the slots, the columns it will write, and which operations have been     *)
(* committed since it began.                                                *)
Idle == [op |-> "none"]

Init ==
    /\ problem = [s \in Slots |-> NoProblem]
    /\ assigned = [s \in Slots |-> FALSE]
    /\ set = [status |-> "DRAFT", report |-> NoReport]
    /\ exists = Existing
    /\ holder = {}
    /\ req = [r \in Requests |-> Idle]
    /\ starts = 0
    /\ approvedOn = NoReport
    /\ clash = FALSE /\ drift = FALSE /\ raced = FALSE

-----------------------------------------------------------------------------
(* Starting and ending a request. *)

Start(r, record) ==
    /\ req[r] = Idle
    /\ starts < MaxStarts
    /\ starts' = starts + 1
    /\ req' = [req EXCEPT ![r] = record]

(* r commits: the requests still open have met its operation. *)
End(r, op) ==
    /\ req' = [u \in Requests |-> IF u = r \/ req[u] = Idle THEN Idle
                                  ELSE [req[u] EXCEPT !.met = @ \cup {op}]]
    /\ holder' = holder \ {r}
    /\ UNCHANGED starts

(* The columns of which f has a value are written, the others stay. *)
Written(f, column) == [s \in Slots |-> IF s \in DOMAIN f THEN f[s] ELSE column[s]]

RowFree(r) == holder \subseteq {r}

-----------------------------------------------------------------------------
(* Binding a problem to a slot. *)

Loading(s, p) ==
    [op |-> "bind", at |-> "others", slot |-> s, problem |-> p,
     row |-> [problem |-> problem[s], assigned |-> assigned[s]], met |-> {}]

(* bind_problem_to_slot: the slot's row is read, and the problem's. *)
BindLoad(r, s, p) ==
    /\ p \in exists
    /\ Start(r, Loading(s, p))
    /\ UNCHANGED <<problem, assigned, set, exists, holder, approvedOn, clash, drift, raced>>

(* create_problem_in_slot: the slot is read before the problem is inserted, *)
(* so that the bind that follows works on the row read first.               *)
CreateLoad(r, s, p) ==
    /\ p \notin exists
    /\ \A u \in Requests : req[u].op = "bind" => req[u].problem # p
    /\ Start(r, Loading(s, p))
    /\ UNCHANGED <<problem, assigned, set, exists, holder, approvedOn, clash, drift, raced>>

(* Fault for SlotsAgree and BindTakesHold: the slot that had the problem keeps it. *)
FaultOthers(q) == {}

(* The other slots of the set that hold the problem. *)
Others(q) == {s \in Slots \ {q.slot} : problem[s] = q.problem}

(* The old slots are read, and the net changes are settled. *)
BindOthers(r) ==
    LET q == req[r] IN
    /\ q.op = "bind" /\ q.at = "others"
    /\ LET moved == IF q.row.problem = q.problem THEN {} ELSE {q.slot}
           marked == IF q.row.assigned THEN {} ELSE {q.slot}
           cleared == {s \in Others(q) : assigned[s]} IN
       req' = [req EXCEPT ![r] =
          [op |-> "bind", at |-> "write", slot |-> q.slot, problem |-> q.problem,
           put |-> [s \in moved \cup Others(q) |->
                       IF s = q.slot THEN q.problem ELSE NoProblem],
           mark |-> [s \in marked \cup cleared |-> s = q.slot],
           met |-> q.met]]
    /\ UNCHANGED <<problem, assigned, set, exists, holder, starts, approvedOn, clash, drift, raced>>

(* The flush and the commit. *)
BindWrite(r) ==
    LET q == req[r] IN
    /\ q.op = "bind" /\ q.at = "write"
    /\ problem' = Written(q.put, problem)
    /\ assigned' = Written(q.mark, assigned)
    /\ exists' = exists \cup {q.problem}
    /\ drift' = TRUE
    /\ raced' = (raced \/ "bind" \in q.met)
    /\ End(r, "bind")
    /\ UNCHANGED <<set, approvedOn, clash>>

-----------------------------------------------------------------------------
(* Evaluation and approval. *)

(* The route loads the set's row. *)
EvaluateLoad(r) ==
    /\ Start(r, [op |-> "evaluate", at |-> "scan", set |-> set, met |-> {}])
    /\ UNCHANGED <<problem, assigned, set, exists, holder, approvedOn, clash, drift, raced>>

(* Fault for ReportOfSlots: a later evaluation of the same thread goes on   *)
(* with the slots of the one before.                                        *)
FaultSlotsRead(read) == IF read.report = NoReport THEN problem ELSE read.report

(* run_set_evaluation reads the slots again, whatever the set's row says. *)
SlotsRead(read) == problem

(* The slots are read in one SELECT. With LangGraph the thread id has been  *)
(* put into set_eval_json before, as the report kept there never holds it:  *)
(* the SELECT flushes that change, and takes the lock of the set's row.     *)
EvaluateScan(r) ==
    LET q == req[r] IN
    /\ q.op = "evaluate" /\ q.at = "scan"
    /\ r \in Langgraph => RowFree(r)
    /\ holder' = IF r \in Langgraph THEN {r} ELSE holder
    /\ req' = [req EXCEPT ![r] =
          [op |-> "evaluate", at |-> "write", set |-> q.set, table |-> SlotsRead(q.set),
           met |-> q.met]]
    /\ UNCHANGED <<problem, assigned, set, exists, starts, approvedOn, clash, drift, raced>>

(* Fault for ApprovedReport: the status is set only by the first evaluation. *)
FaultPending(read) == IF read.status = "DRAFT" THEN "SET_EVAL_PENDING" ELSE set.status

(* The status is written unless it was read as pending. *)
Pending(read) == IF read.status = "SET_EVAL_PENDING" THEN set.status ELSE "SET_EVAL_PENDING"

(* Whether the new report is written: it is not if it equals the one loaded *)
(* first, what is left out of it included. The thread id of LangGraph makes *)
(* the two differ.                                                          *)
WritesReport(r) ==
    IF r \notin Langgraph /\ req[r].set.report = req[r].table THEN BOOLEAN ELSE {TRUE}

(* evaluate_set_core writes the columns that have changed, and commits. *)
EvaluateWrite(r) ==
    LET q == req[r] IN
    /\ q.op = "evaluate" /\ q.at = "write"
    /\ \E writes \in WritesReport(r) :
          /\ writes \/ q.set.status # "SET_EVAL_PENDING" => RowFree(r)
          /\ set' = [status |-> Pending(q.set),
                     report |-> IF writes THEN q.table ELSE set.report]
          /\ drift' = IF writes THEN "bind" \in q.met ELSE drift
    /\ clash' = ("approve" \in q.met)
    /\ End(r, "evaluate")
    /\ UNCHANGED <<problem, assigned, exists, approvedOn, raced>>

(* Fault for TypeOK: a set that has no report can be approved. *)
FaultMayApprove(read) == read.status # "SET_EVAL_APPROVED"

MayApprove(read) == read.status = "SET_EVAL_PENDING" /\ read.report # NoReport

ApproveLoad(r) ==
    /\ MayApprove(set)
    /\ Start(r, [op |-> "approve", at |-> "write", set |-> set, met |-> {}])
    /\ UNCHANGED <<problem, assigned, set, exists, holder, approvedOn, clash, drift, raced>>

(* Only the status is written: the report was changed in place, and is      *)
(* assigned to the column that holds it already.                            *)
ApproveWrite(r) ==
    LET q == req[r] IN
    /\ q.op = "approve"
    /\ RowFree(r)
    /\ set' = [set EXCEPT !.status = "SET_EVAL_APPROVED"]
    /\ approvedOn' = q.set.report
    /\ clash' = ("evaluate" \in q.met)
    /\ End(r, "approve")
    /\ UNCHANGED <<problem, assigned, exists, drift, raced>>

(* Fault for RequestsEnd: the row lock outlives the request. *)
FaultReleased(r) == holder

Released(r) == holder \ {r}

(* The request fails or its process dies: its session is rolled back. An    *)
(* evaluation also fails when the number of its artifact was taken.         *)
Abort(r) ==
    /\ req[r] # Idle
    /\ req' = [req EXCEPT ![r] = Idle]
    /\ holder' = Released(r)
    /\ UNCHANGED <<problem, assigned, set, exists, starts, approvedOn, clash, drift, raced>>

Continue(r) == BindOthers(r) \/ BindWrite(r) \/ EvaluateScan(r) \/ EvaluateWrite(r) \/ ApproveWrite(r)

Next ==
    \E r \in Requests :
        \/ \E s \in Slots, p \in Problems : BindLoad(r, s, p) \/ CreateLoad(r, s, p)
        \/ EvaluateLoad(r) \/ ApproveLoad(r)
        \/ Continue(r) \/ Abort(r)

(* A request goes on when the database lets it; no request need fail. *)
Fairness == \A r \in Requests : SF_vars(Continue(r))

Spec == Init /\ [][Next]_vars /\ Fairness

-----------------------------------------------------------------------------
(* Properties. *)

TypeOK ==
    /\ problem \in Tables
    /\ assigned \in [Slots -> BOOLEAN]
    /\ set \in [status : Statuses, report : Tables \cup {NoReport}]
    /\ set.status # "DRAFT" => set.report # NoReport
    /\ exists \in SUBSET Problems
    /\ holder \in SUBSET Requests
    /\ \A r \in Requests :
          /\ req[r].op \in Ops \cup {"none"}
          /\ req[r].op # "none" => req[r].met \in SUBSET Ops

(* As long as binds have not overlapped, no problem is in two slots of the  *)
(* set, and a slot is ASSIGNED when it has a problem and only then, although *)
(* a bind moves a problem by writing two rows of which it read one earlier. *)
SlotsAgree ==
    ~raced =>
        /\ \A s, t \in Slots : problem[s] = problem[t] /\ problem[s] # NoProblem => s = t
        /\ \A s \in Slots : assigned[s] <=> problem[s] # NoProblem

(* A bind that no other bind overlaps repairs what races left behind: its   *)
(* problem is then in its slot and nowhere else, and that slot is ASSIGNED. *)
BindTakesHold ==
    [][\A r \in Requests :
          BindWrite(r) /\ "bind" \notin req[r].met =>
             /\ {s \in Slots : problem'[s] = req[r].problem} = {req[r].slot}
             /\ assigned'[req[r].slot]]_vars

(* The report of a set is about the problems in its slots, unless a bind    *)
(* was committed after the evaluation began that wrote it: an approved set  *)
(* may be about other problems for that reason only. Evaluations that save  *)
(* no report, as theirs equals the one they loaded, are no reason.          *)
ReportOfSlots == set.report # NoReport /\ ~drift => set.report = problem

(* An approved set carries the report its approver had read, unless an      *)
(* evaluation and the approval overlapped.                                  *)
ApprovedReport == set.status = "SET_EVAL_APPROVED" /\ ~clash => set.report = approvedOn

(* Requests end, although evaluations queue for the row of the set.         *)
RequestsEnd == \A r \in Requests : req[r] # Idle ~> req[r] = Idle
=============================================================================
