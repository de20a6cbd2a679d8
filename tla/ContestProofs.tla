--------------------------- MODULE ContestProofs ----------------------------
(***************************************************************************)
(* Proofs about contest sets, for any slots, problems and requests, any of *)
(* them with LangGraph, the others without.                                 *)
(***************************************************************************)
EXTENDS Contest, TLAPS

-----------------------------------------------------------------------------
(* The invariant. *)

SetRows == [status : Statuses, report : Tables \cup {NoReport}]
Columns(S) == UNION {[D -> S] : D \in SUBSET Slots}

BindReads ==
    [op : {"bind"}, at : {"others"}, slot : Slots, problem : Problems,
     row : [problem : Problems \cup {NoProblem}, assigned : BOOLEAN], met : SUBSET Ops]
BindWrites ==
    [op : {"bind"}, at : {"write"}, slot : Slots, problem : Problems,
     put : Columns(Problems \cup {NoProblem}), mark : Columns(BOOLEAN), met : SUBSET Ops]
Scans == [op : {"evaluate"}, at : {"scan"}, set : SetRows, met : SUBSET Ops]
Evaluations ==
    [op : {"evaluate"}, at : {"write"}, set : SetRows, table : Tables, met : SUBSET Ops]
Approvals == [op : {"approve"}, at : {"write"}, set : SetRows, met : SUBSET Ops]
Open == BindReads \cup BindWrites \cup Scans \cup Evaluations \cup Approvals

Typed ==
    /\ problem \in Tables
    /\ assigned \in [Slots -> BOOLEAN]
    /\ set \in SetRows
    /\ set.status # "DRAFT" => set.report # NoReport
    /\ exists \in SUBSET Problems
    /\ holder \in SUBSET Requests
    /\ req \in [Requests -> Open \cup {Idle}]

(* What a bind that no other bind has overlapped would make of the slots.   *)
Moves(r) ==
    \A s \in Slots :
        /\ Written(req[r].put, problem)[s] =
              IF s = req[r].slot THEN req[r].problem
              ELSE IF problem[s] = req[r].problem THEN NoProblem ELSE problem[s]
        /\ Written(req[r].mark, assigned)[s] =
              IF s = req[r].slot THEN TRUE
              ELSE IF problem[s] = req[r].problem THEN FALSE ELSE assigned[s]

(* What a bind has read is still true, unless another bind was committed.   *)
BindFits(r) ==
    /\ req[r] \in BindReads /\ "bind" \notin req[r].met =>
          /\ req[r].row.problem = problem[req[r].slot]
          /\ req[r].row.assigned = assigned[req[r].slot]
    /\ req[r] \in BindWrites /\ "bind" \notin req[r].met => Moves(r)

(* What an evaluation has read, likewise. *)
EvaluationFits(r) ==
    /\ req[r] \in Evaluations /\ "bind" \notin req[r].met => req[r].table = problem
    /\ req[r] \in Scans \cup Evaluations =>
          (req[r].set.status = "SET_EVAL_PENDING" /\ set.status = "SET_EVAL_APPROVED"
             => "approve" \in req[r].met)
    /\ req[r] \in Scans \cup Evaluations /\ req[r].set.report # NoReport =>
          set.report # NoReport

(* What an approval has read, likewise: and there is a report to approve.   *)
ApprovalFits(r) ==
    req[r] \in Approvals =>
        /\ set.report # NoReport
        /\ "evaluate" \notin req[r].met => set.report = req[r].set.report

Fits(r) == BindFits(r) /\ EvaluationFits(r) /\ ApprovalFits(r)

ContestInv ==
    /\ Typed
    /\ \A r \in Requests : Fits(r)
    /\ SlotsAgree /\ ReportOfSlots /\ ApprovedReport

-----------------------------------------------------------------------------
(* Kinds of requests. *)

LEMMA InColumns ==
    ASSUME NEW S, NEW D \in SUBSET Slots, NEW f \in [D -> S]
    PROVE  f \in Columns(S)
PROOF
  BY DEF Columns

(* A request in progress is of one kind, which its op and at tell.          *)
LEMMA Kinds ==
    ASSUME NEW q \in Open
    PROVE  /\ q \in BindReads <=> q.op = "bind" /\ q.at = "others"
           /\ q \in BindWrites <=> q.op = "bind" /\ q.at = "write"
           /\ q \in Scans <=> q.op = "evaluate" /\ q.at = "scan"
           /\ q \in Evaluations <=> q.op = "evaluate" /\ q.at = "write"
           /\ q \in Approvals <=> q.op = "approve"
           /\ q.met \in SUBSET Ops
           /\ q.op \in Ops
PROOF
  BY DEF Open, BindReads, BindWrites, Scans, Evaluations, Approvals, Ops

LEMMA IdleOp == Idle.op = "none" /\ Idle \notin Open
PROOF
  BY DEF Idle, Open, BindReads, BindWrites, Scans, Evaluations, Approvals

(* A request that has met another one's commit is otherwise what it was.    *)
LEMMA MetGrows ==
    ASSUME NEW q \in Open, NEW op \in Ops, NEW p,
           p = [q EXCEPT !.met = @ \cup {op}]
    PROVE  /\ p.met = q.met \cup {op}
           /\ q \in BindReads =>
                 p \in BindReads /\ p.slot = q.slot /\ p.problem = q.problem /\ p.row = q.row
           /\ q \in BindWrites =>
                 /\ p \in BindWrites /\ p.slot = q.slot /\ p.problem = q.problem
                 /\ p.put = q.put /\ p.mark = q.mark
           /\ q \in Scans => p \in Scans /\ p.set = q.set
           /\ q \in Evaluations => p \in Evaluations /\ p.set = q.set /\ p.table = q.table
           /\ q \in Approvals => p \in Approvals /\ p.set = q.set
PROOF
<1>1. CASE q \in BindReads
  BY <1>1 DEF BindReads, BindWrites, Scans, Evaluations, Approvals
<1>2. CASE q \in BindWrites
  BY <1>2 DEF BindReads, BindWrites, Scans, Evaluations, Approvals
<1>3. CASE q \in Scans
  BY <1>3 DEF BindReads, BindWrites, Scans, Evaluations, Approvals
<1>4. CASE q \in Evaluations
  BY <1>4 DEF BindReads, BindWrites, Scans, Evaluations, Approvals
<1>5. CASE q \in Approvals
  BY <1>5 DEF BindReads, BindWrites, Scans, Evaluations, Approvals
<1> QED
  BY <1>1, <1>2, <1>3, <1>4, <1>5 DEF Open

(* An idle request has nothing to fit. *)
LEMMA IdleFits ==
    ASSUME NEW r \in Requests, req[r] = Idle
    PROVE  Fits(r)
PROOF
  BY IdleOp DEF Fits, BindFits, EvaluationFits, ApprovalFits, Open

LEMMA InitInv == Init => ContestInv
PROOF
<1> SUFFICES ASSUME Init PROVE ContestInv
  OBVIOUS
<1>1. Typed
  BY ExistingAssumption DEF Init, Typed, Tables, SetRows, Statuses
<1>2. ASSUME NEW r \in Requests PROVE Fits(r)
  <2>1. req[r] = Idle
    BY DEF Init
  <2> QED
    BY <2>1, IdleFits
<1>3. SlotsAgree /\ ReportOfSlots /\ ApprovedReport
  BY DEF Init, SlotsAgree, ReportOfSlots, ApprovedReport
<1> QED
  BY <1>1, <1>2, <1>3 DEF ContestInv

-----------------------------------------------------------------------------
(* Steps that leave the rows alone. *)

LEMMA AloneInv ==
    ASSUME ContestInv, NEW r \in Requests,
           \E x \in Open \cup {Idle} : req' = [req EXCEPT ![r] = x],
           UNCHANGED <<problem, assigned, set, exists, approvedOn, clash, drift, raced>>,
           holder' \in SUBSET Requests,
           Fits(r)'
    PROVE  ContestInv'
PROOF
<1>1. Typed'
  BY DEF ContestInv, Typed
<1>2. ASSUME NEW u \in Requests PROVE Fits(u)'
  <2>1. CASE u = r
    BY <2>1
  <2>2. CASE u # r
    <3>1. req'[u] = req[u]
      BY <2>2 DEF ContestInv, Typed
    <3>2. Fits(u)
      BY DEF ContestInv
    <3>3. Written(req[u].put, problem)' = Written(req[u].put, problem)
      BY <3>1 DEF Written
    <3>4. Written(req[u].mark, assigned)' = Written(req[u].mark, assigned)
      BY <3>1 DEF Written
    <3>5. Moves(u) => Moves(u)'
      BY <3>1, <3>3, <3>4 DEF Moves
    <3>6. BindFits(u)'
      BY <3>1, <3>2, <3>5 DEF Fits, BindFits
    <3>7. EvaluationFits(u)' /\ ApprovalFits(u)'
      BY <3>1, <3>2 DEF Fits, EvaluationFits, ApprovalFits
    <3> QED
      BY <3>6, <3>7 DEF Fits
  <2> QED
    BY <2>1, <2>2
<1>3. (SlotsAgree /\ ReportOfSlots /\ ApprovedReport)'
  BY DEF ContestInv, SlotsAgree, ReportOfSlots, ApprovedReport
<1> QED
  BY <1>1, <1>2, <1>3 DEF ContestInv

(* A request that has just been loaded fits, having met nobody. *)
LEMMA StartBind ==
    ASSUME ContestInv, NEW r \in Requests, NEW s \in Slots, NEW p \in Problems,
           BindLoad(r, s, p) \/ CreateLoad(r, s, p)
    PROVE  ContestInv'
PROOF
<1> DEFINE x == Loading(s, p)
<1>1. /\ req' = [req EXCEPT ![r] = x]
      /\ UNCHANGED <<problem, assigned, set, exists, holder, approvedOn, clash, drift, raced>>
  BY DEF BindLoad, CreateLoad, Start
<1>2. /\ problem[s] \in Problems \cup {NoProblem}
      /\ assigned[s] \in BOOLEAN
  BY DEF ContestInv, Typed, Tables
<1>3. /\ x \in BindReads /\ x.slot = s
      /\ x.row.problem = problem[s] /\ x.row.assigned = assigned[s]
  BY <1>2 DEF Loading, BindReads
<1>4. x \in Open /\ x.op = "bind" /\ x.at = "others"
  BY <1>3 DEF Open, Loading
<1>5. x \notin BindWrites /\ x \notin Scans /\ x \notin Evaluations /\ x \notin Approvals
  BY <1>4, Kinds
<1> HIDE DEF x
<1>6. req'[r] = x
  BY <1>1 DEF ContestInv, Typed
<1>7. BindFits(r)'
  BY <1>1, <1>3, <1>5, <1>6 DEF BindFits
<1>8. EvaluationFits(r)' /\ ApprovalFits(r)'
  BY <1>5, <1>6 DEF EvaluationFits, ApprovalFits
<1>9. holder' \in SUBSET Requests
  BY <1>1 DEF ContestInv, Typed
<1> QED
  BY <1>1, <1>4, <1>7, <1>8, <1>9, AloneInv DEF Fits

LEMMA StartEvaluation ==
    ASSUME ContestInv, NEW r \in Requests, EvaluateLoad(r)
    PROVE  ContestInv'
PROOF
<1> DEFINE x == [op |-> "evaluate", at |-> "scan", set |-> set, met |-> {}]
<1>1. /\ req' = [req EXCEPT ![r] = x]
      /\ UNCHANGED <<problem, assigned, set, exists, holder, approvedOn, clash, drift, raced>>
  BY DEF EvaluateLoad, Start
<1>2. x \in Scans /\ x.set = set
  BY DEF Scans, ContestInv, Typed
<1>3. x \in Open /\ x.op = "evaluate" /\ x.at = "scan"
  BY <1>2 DEF Open
<1>4. x \notin BindReads /\ x \notin BindWrites /\ x \notin Evaluations /\ x \notin Approvals
  BY <1>3, Kinds
<1> HIDE DEF x
<1>5. req'[r] = x
  BY <1>1 DEF ContestInv, Typed
<1>6. BindFits(r)' /\ ApprovalFits(r)'
  BY <1>4, <1>5 DEF BindFits, ApprovalFits
<1>7. EvaluationFits(r)'
  BY <1>1, <1>2, <1>4, <1>5 DEF EvaluationFits
<1>8. holder' \in SUBSET Requests
  BY <1>1 DEF ContestInv, Typed
<1> QED
  BY <1>1, <1>3, <1>6, <1>7, <1>8, AloneInv DEF Fits

LEMMA StartApproval ==
    ASSUME ContestInv, NEW r \in Requests, ApproveLoad(r)
    PROVE  ContestInv'
PROOF
<1> DEFINE x == [op |-> "approve", at |-> "write", set |-> set, met |-> {}]
<1>1. /\ req' = [req EXCEPT ![r] = x]
      /\ set.report # NoReport
      /\ UNCHANGED <<problem, assigned, set, exists, holder, approvedOn, clash, drift, raced>>
  BY DEF ApproveLoad, Start, MayApprove
<1>2. x \in Approvals /\ x.set = set
  BY DEF Approvals, ContestInv, Typed
<1>3. x \in Open /\ x.op = "approve"
  BY <1>2 DEF Open
<1>4. x \notin BindReads /\ x \notin BindWrites /\ x \notin Scans /\ x \notin Evaluations
  BY <1>3, Kinds
<1> HIDE DEF x
<1>5. req'[r] = x
  BY <1>1 DEF ContestInv, Typed
<1>6. BindFits(r)' /\ EvaluationFits(r)'
  BY <1>4, <1>5 DEF BindFits, EvaluationFits
<1>7. ApprovalFits(r)'
  BY <1>1, <1>2, <1>5 DEF ApprovalFits
<1>8. holder' \in SUBSET Requests
  BY <1>1 DEF ContestInv, Typed
<1> QED
  BY <1>1, <1>3, <1>6, <1>7, <1>8, AloneInv DEF Fits

LEMMA AbortInv ==
    ASSUME ContestInv, NEW r \in Requests, Abort(r)
    PROVE  ContestInv'
PROOF
<1>1. /\ req' = [req EXCEPT ![r] = Idle]
      /\ UNCHANGED <<problem, assigned, set, exists, approvedOn, clash, drift, raced>>
      /\ holder' = holder \ {r}
  BY DEF Abort, Released
<1>2. req'[r] = Idle
  BY <1>1 DEF ContestInv, Typed
<1>3. Fits(r)'
  BY <1>2, IdleOp DEF Fits, BindFits, EvaluationFits, ApprovalFits, Open
<1>4. holder' \in SUBSET Requests
  BY <1>1 DEF ContestInv, Typed
<1> QED
  BY <1>1, <1>3, <1>4, AloneInv

(* The slots are read in one SELECT, which takes the row lock with LangGraph. *)
LEMMA ScanInv ==
    ASSUME ContestInv, NEW r \in Requests, EvaluateScan(r)
    PROVE  ContestInv'
PROOF
<1> DEFINE x == [op |-> "evaluate", at |-> "write", set |-> req[r].set,
                 table |-> problem, met |-> req[r].met]
<1>1. /\ req[r].op = "evaluate" /\ req[r].at = "scan"
      /\ req' = [req EXCEPT ![r] = x]
      /\ holder' = IF r \in Langgraph THEN {r} ELSE holder
      /\ UNCHANGED <<problem, assigned, set, exists, approvedOn, clash, drift, raced>>
  BY DEF EvaluateScan, SlotsRead
<1>2. req[r] \in Scans
  BY <1>1, IdleOp, Kinds DEF ContestInv, Typed
<1>3. x \in Evaluations /\ x.set = req[r].set /\ x.table = problem /\ x.met = req[r].met
  BY <1>2 DEF Scans, Evaluations, ContestInv, Typed
<1>4. x \in Open /\ x.op = "evaluate" /\ x.at = "write"
  BY <1>3 DEF Open
<1>5. x \notin BindReads /\ x \notin BindWrites /\ x \notin Scans /\ x \notin Approvals
  BY <1>4, Kinds
<1>6. EvaluationFits(r)
  BY DEF ContestInv, Fits
<1> HIDE DEF x
<1>7. req'[r] = x
  BY <1>1 DEF ContestInv, Typed
<1>8. BindFits(r)' /\ ApprovalFits(r)'
  BY <1>5, <1>7 DEF BindFits, ApprovalFits
<1>9. EvaluationFits(r)'
  BY <1>1, <1>2, <1>3, <1>6, <1>7 DEF EvaluationFits
<1>10. holder' \in SUBSET Requests
  BY <1>1 DEF ContestInv, Typed
<1> QED
  BY <1>1, <1>4, <1>8, <1>9, <1>10, AloneInv DEF Fits

(* The other slots are read: what the bind will write is settled.           *)
LEMMA OthersInv ==
    ASSUME ContestInv, NEW r \in Requests, BindOthers(r)
    PROVE  ContestInv'
PROOF
<1> DEFINE q == req[r]
           moved == IF q.row.problem = q.problem THEN {} ELSE {q.slot}
           marked == IF q.row.assigned THEN {} ELSE {q.slot}
           cleared == {s \in Others(q) : assigned[s]}
           put == [s \in moved \cup Others(q) |-> IF s = q.slot THEN q.problem ELSE NoProblem]
           mark == [s \in marked \cup cleared |-> s = q.slot]
           x == [op |-> "bind", at |-> "write", slot |-> q.slot, problem |-> q.problem,
                 put |-> put, mark |-> mark, met |-> q.met]
<1>1. /\ q.op = "bind" /\ q.at = "others"
      /\ req' = [req EXCEPT ![r] = x]
      /\ UNCHANGED <<problem, assigned, set, exists, holder, approvedOn, clash, drift, raced>>
  BY DEF BindOthers
<1>2. q \in BindReads
  BY <1>1, IdleOp, Kinds DEF ContestInv, Typed
<1>3. q.slot \in Slots /\ q.problem \in Problems /\ q.met \in SUBSET Ops
  BY <1>2 DEF BindReads
<1>4. Others(q) = {s \in Slots \ {q.slot} : problem[s] = q.problem}
  BY DEF Others
<1>5. moved \cup Others(q) \in SUBSET Slots /\ marked \cup cleared \in SUBSET Slots
  BY <1>3, <1>4
<1>6. put \in [moved \cup Others(q) -> Problems \cup {NoProblem}]
  BY <1>3
<1>7. mark \in [marked \cup cleared -> BOOLEAN]
  OBVIOUS
<1>8. put \in Columns(Problems \cup {NoProblem}) /\ mark \in Columns(BOOLEAN)
  <2> HIDE DEF put, mark, moved, marked, cleared
  <2> QED
    BY <1>5, <1>6, <1>7, InColumns
<1>9. "bind" \notin q.met =>
          \A s \in Slots :
             /\ Written(put, problem)[s] =
                   IF s = q.slot THEN q.problem
                   ELSE IF problem[s] = q.problem THEN NoProblem ELSE problem[s]
             /\ Written(mark, assigned)[s] =
                   IF s = q.slot THEN TRUE
                   ELSE IF problem[s] = q.problem THEN FALSE ELSE assigned[s]
  <2> SUFFICES ASSUME "bind" \notin q.met, NEW s \in Slots
               PROVE  /\ Written(put, problem)[s] =
                             IF s = q.slot THEN q.problem
                             ELSE IF problem[s] = q.problem THEN NoProblem ELSE problem[s]
                      /\ Written(mark, assigned)[s] =
                             IF s = q.slot THEN TRUE
                             ELSE IF problem[s] = q.problem THEN FALSE ELSE assigned[s]
    OBVIOUS
  <2>1. q.row.problem = problem[q.slot] /\ q.row.assigned = assigned[q.slot]
    BY <1>2 DEF ContestInv, Fits, BindFits
  <2>2. assigned[s] \in BOOLEAN
    BY DEF ContestInv, Typed
  <2>3. Written(put, problem)[s] = IF s \in moved \cup Others(q) THEN put[s] ELSE problem[s]
    BY <1>6 DEF Written
  <2>4. Written(mark, assigned)[s] = IF s \in marked \cup cleared THEN mark[s] ELSE assigned[s]
    BY <1>7 DEF Written
  <2>5. CASE s = q.slot
    BY <2>1, <2>2, <2>3, <2>4, <2>5, <1>4
  <2>6. CASE s # q.slot
    BY <2>2, <2>3, <2>4, <2>6, <1>4
  <2> QED
    BY <2>5, <2>6
<1>10. /\ x \in BindWrites /\ x.slot = q.slot /\ x.problem = q.problem
       /\ x.put = put /\ x.mark = mark /\ x.met = q.met
  BY <1>3, <1>8 DEF BindWrites
<1>11. x \in Open /\ x.op = "bind" /\ x.at = "write"
  BY <1>10 DEF Open
<1>12. x \notin BindReads /\ x \notin Scans /\ x \notin Evaluations /\ x \notin Approvals
  BY <1>11, Kinds
<1> HIDE DEF x, put, mark, q
<1>13. req'[r] = x
  BY <1>1 DEF ContestInv, Typed
<1>14. Written(req[r].put, problem)' = Written(put, problem)
  BY <1>1, <1>10, <1>13 DEF Written
<1>15. Written(req[r].mark, assigned)' = Written(mark, assigned)
  BY <1>1, <1>10, <1>13 DEF Written
<1>16. "bind" \notin q.met => Moves(r)'
  <2> SUFFICES ASSUME "bind" \notin q.met, NEW s \in Slots
               PROVE  /\ (Written(req[r].put, problem)[s] =
                             IF s = req[r].slot THEN req[r].problem
                             ELSE IF problem[s] = req[r].problem THEN NoProblem ELSE problem[s])'
                      /\ (Written(req[r].mark, assigned)[s] =
                             IF s = req[r].slot THEN TRUE
                             ELSE IF problem[s] = req[r].problem THEN FALSE ELSE assigned[s])'
    BY DEF Moves
  <2>1. req'[r].slot = q.slot /\ req'[r].problem = q.problem /\ problem' = problem
    BY <1>1, <1>10, <1>13
  <2>2. Written(put, problem)[s] =
           IF s = q.slot THEN q.problem
           ELSE IF problem[s] = q.problem THEN NoProblem ELSE problem[s]
    BY <1>9
  <2>3. Written(mark, assigned)[s] =
           IF s = q.slot THEN TRUE
           ELSE IF problem[s] = q.problem THEN FALSE ELSE assigned[s]
    BY <1>9
  <2>4. assigned' = assigned
    BY <1>1
  <2> QED
    BY <1>14, <1>15, <2>1, <2>2, <2>3, <2>4
<1>17. BindFits(r)'
  BY <1>10, <1>12, <1>13, <1>16 DEF BindFits
<1>18. EvaluationFits(r)' /\ ApprovalFits(r)'
  BY <1>12, <1>13 DEF EvaluationFits, ApprovalFits
<1>19. holder' \in SUBSET Requests
  BY <1>1 DEF ContestInv, Typed
<1> QED
  BY <1>1, <1>11, <1>17, <1>18, <1>19, AloneInv DEF Fits

-----------------------------------------------------------------------------
(* Commits. *)

(* Those who are open after a commit were open before, and have met it.     *)
LEMMA Met ==
    ASSUME Typed, NEW r \in Requests, NEW op \in Ops, End(r, op),
           NEW u \in Requests, req'[u] # Idle
    PROVE  /\ req'[u].met = req[u].met \cup {op}
           /\ req'[u] \in BindReads => req[u] \in BindReads
           /\ req'[u] \in BindWrites => req[u] \in BindWrites
           /\ req'[u] \in Scans \cup Evaluations =>
                 req[u] \in Scans \cup Evaluations /\ req'[u].set = req[u].set
           /\ req'[u] \in Evaluations =>
                 req[u] \in Evaluations /\ req'[u].table = req[u].table
           /\ req'[u] \in Approvals => req[u] \in Approvals /\ req'[u].set = req[u].set
           /\ req[u] \in BindWrites =>
                 /\ req'[u].slot = req[u].slot /\ req'[u].problem = req[u].problem
                 /\ req'[u].put = req[u].put /\ req'[u].mark = req[u].mark
           /\ req[u] \in BindReads =>
                 req'[u].slot = req[u].slot /\ req'[u].row = req[u].row
           /\ req[u] \in Open /\ req'[u] \in Open
PROOF
<1>1. u # r /\ req[u] # Idle /\ req'[u] = [req[u] EXCEPT !.met = @ \cup {op}]
  BY DEF End
<1>2. req[u] \in Open
  BY <1>1 DEF Typed
<1>3. PICK q \in Open : q = req[u]
  BY <1>2
<1>4. PICK p : p = req'[u]
  OBVIOUS
<1>5. p = [q EXCEPT !.met = @ \cup {op}]
  BY <1>1, <1>3, <1>4
<1>6. p \in Open
  BY <1>5, MetGrows DEF Open
<1>7. /\ p \in BindReads => q \in BindReads
      /\ p \in BindWrites => q \in BindWrites
      /\ p \in Scans => q \in Scans
      /\ p \in Evaluations => q \in Evaluations
      /\ p \in Approvals => q \in Approvals
  <2>1. p.op = q.op /\ (q \notin Approvals => p.at = q.at)
    BY <1>5, MetGrows, Kinds, <1>6 DEF Open
  <2> QED
    BY <2>1, <1>6, Kinds DEF Open
<1> QED
  BY <1>3, <1>4, <1>5, <1>6, <1>7, MetGrows

LEMMA EndTyped ==
    ASSUME Typed, NEW r \in Requests, NEW op \in Ops, End(r, op)
    PROVE  req' \in [Requests -> Open \cup {Idle}] /\ holder' \in SUBSET Requests
PROOF
<1>1. ASSUME NEW u \in Requests PROVE req'[u] \in Open \cup {Idle}
  BY Met
<1>2. req' = [u \in Requests |-> req'[u]]
  BY DEF End
<1> QED
  BY <1>1, <1>2 DEF End, Typed

(* A bind that has met no other one moves its problem to its slot.          *)
LEMMA BindWritten ==
    ASSUME ContestInv, NEW r \in Requests, BindWrite(r), "bind" \notin req[r].met
    PROVE  /\ req[r].problem \in Problems /\ req[r].slot \in Slots
           /\ \A s \in Slots :
                 /\ problem'[s] = IF s = req[r].slot THEN req[r].problem
                                  ELSE IF problem[s] = req[r].problem THEN NoProblem
                                  ELSE problem[s]
                 /\ assigned'[s] = IF s = req[r].slot THEN TRUE
                                   ELSE IF problem[s] = req[r].problem THEN FALSE
                                   ELSE assigned[s]
PROOF
<1>1. req[r].op = "bind" /\ req[r].at = "write"
  BY DEF BindWrite
<1>2. req[r] \in BindWrites
  BY <1>1, IdleOp, Kinds DEF ContestInv, Typed
<1>3. Moves(r)
  BY <1>2 DEF ContestInv, Fits, BindFits
<1>4. problem' = Written(req[r].put, problem) /\ assigned' = Written(req[r].mark, assigned)
  BY DEF BindWrite
<1>5. req[r].problem \in Problems /\ req[r].slot \in Slots
  BY <1>2 DEF BindWrites
<1> QED
  BY <1>3, <1>4, <1>5 DEF Moves

LEMMA BindTyped ==
    ASSUME ContestInv, NEW r \in Requests, BindWrite(r)
    PROVE  Typed'
PROOF
<1>1. req[r].op = "bind" /\ req[r].at = "write"
  BY DEF BindWrite
<1>2. req[r] \in BindWrites
  BY <1>1, IdleOp, Kinds DEF ContestInv, Typed
<1>3. /\ req[r].put \in Columns(Problems \cup {NoProblem})
      /\ req[r].mark \in Columns(BOOLEAN)
      /\ req[r].problem \in Problems
  BY <1>2 DEF BindWrites
<1>4. PICK D \in SUBSET Slots : req[r].put \in [D -> Problems \cup {NoProblem}]
  BY <1>3 DEF Columns
<1>5. PICK M \in SUBSET Slots : req[r].mark \in [M -> BOOLEAN]
  BY <1>3 DEF Columns
<1>6. Written(req[r].put, problem) \in Tables
  BY <1>4 DEF Written, Tables, ContestInv, Typed
<1>7. Written(req[r].mark, assigned) \in [Slots -> BOOLEAN]
  BY <1>5 DEF Written, ContestInv, Typed
<1>8. /\ problem' \in Tables /\ assigned' \in [Slots -> BOOLEAN]
      /\ exists' \in SUBSET Problems /\ set' = set /\ End(r, "bind")
  BY <1>3, <1>6, <1>7 DEF BindWrite, ContestInv, Typed
<1>9. req' \in [Requests -> Open \cup {Idle}] /\ holder' \in SUBSET Requests
  BY <1>8, EndTyped DEF Ops, ContestInv
<1> QED
  BY <1>8, <1>9 DEF Typed, ContestInv

LEMMA BindInv ==
    ASSUME ContestInv, NEW r \in Requests, BindWrite(r)
    PROVE  ContestInv'
PROOF
<1>1. Typed'
  BY BindTyped
<1>2. /\ End(r, "bind") /\ set' = set /\ drift' = TRUE
      /\ raced' = (raced \/ "bind" \in req[r].met)
      /\ UNCHANGED <<approvedOn, clash>>
  BY DEF BindWrite
<1>3. "bind" \in Ops
  BY DEF Ops
<1>4. ASSUME NEW u \in Requests PROVE Fits(u)'
  <2>1. CASE req'[u] = Idle
    BY <2>1, IdleOp DEF Fits, BindFits, EvaluationFits, ApprovalFits, Open
  <2>2. CASE req'[u] # Idle
    <3>1. "bind" \in req'[u].met /\ req'[u].met = req[u].met \cup {"bind"}
      BY <1>2, <1>3, <2>2, Met DEF ContestInv
    <3>2. Fits(u)
      BY DEF ContestInv
    <3>3. BindFits(u)'
      BY <3>1 DEF BindFits
    <3>4. EvaluationFits(u)'
      BY <1>2, <1>3, <2>2, <3>1, <3>2, Met DEF Fits, EvaluationFits, ContestInv
    <3>5. ApprovalFits(u)'
      BY <1>2, <1>3, <2>2, <3>1, <3>2, Met DEF Fits, ApprovalFits, ContestInv
    <3> QED
      BY <3>3, <3>4, <3>5 DEF Fits
  <2> QED
    BY <2>1, <2>2
<1>5. SlotsAgree'
  <2> SUFFICES ASSUME ~raced'
               PROVE  /\ \A s, t \in Slots : problem'[s] = problem'[t] /\ problem'[s] # NoProblem => s = t
                      /\ \A s \in Slots : assigned'[s] <=> problem'[s] # NoProblem
    BY DEF SlotsAgree
  <2>1. ~raced /\ "bind" \notin req[r].met
    BY <1>2
  <2>2. /\ \A s, t \in Slots : problem[s] = problem[t] /\ problem[s] # NoProblem => s = t
        /\ \A s \in Slots : assigned[s] <=> problem[s] # NoProblem
    BY <2>1 DEF ContestInv, SlotsAgree
  <2>3. req[r].problem # NoProblem
    BY <2>1, BindWritten, ExistingAssumption
  <2>4. ASSUME NEW s \in Slots, NEW t \in Slots,
               problem'[s] = problem'[t], problem'[s] # NoProblem
        PROVE  s = t
    <3> DEFINE moved(z) == IF z = req[r].slot THEN req[r].problem
                           ELSE IF problem[z] = req[r].problem THEN NoProblem ELSE problem[z]
    <3>1. problem'[s] = moved(s) /\ problem'[t] = moved(t)
      BY <2>1, BindWritten
    <3>2. moved(s) = moved(t) /\ moved(s) # NoProblem
      BY <2>4, <3>1
    <3> QED
      BY <2>2, <3>2
  <2>5. ASSUME NEW s \in Slots PROVE assigned'[s] <=> problem'[s] # NoProblem
    <3>1. CASE s = req[r].slot
      BY <2>1, <2>3, <3>1, BindWritten
    <3>2. CASE s # req[r].slot /\ problem[s] = req[r].problem
      BY <2>1, <3>2, BindWritten
    <3>3. CASE s # req[r].slot /\ problem[s] # req[r].problem
      BY <2>1, <2>2, <3>3, BindWritten
    <3> QED
      BY <3>1, <3>2, <3>3
  <2> QED
    BY <2>4, <2>5
<1>6. ReportOfSlots' /\ ApprovedReport'
  BY <1>2 DEF ReportOfSlots, ApprovedReport, ContestInv
<1> QED
  BY <1>1, <1>4, <1>5, <1>6 DEF ContestInv

LEMMA EvaluationInv ==
    ASSUME ContestInv, NEW r \in Requests, EvaluateWrite(r)
    PROVE  ContestInv'
PROOF
<1>1. PICK writes \in BOOLEAN :
      /\ req[r].op = "evaluate" /\ req[r].at = "write"
      /\ ~writes => req[r].set.report = req[r].table
      /\ set' = [status |-> Pending(req[r].set),
                 report |-> IF writes THEN req[r].table ELSE set.report]
      /\ clash' = ("approve" \in req[r].met)
      /\ drift' = IF writes THEN "bind" \in req[r].met ELSE drift
      /\ End(r, "evaluate") /\ "evaluate" \in Ops
      /\ UNCHANGED <<problem, assigned, exists, approvedOn, raced>>
  <2>1. WritesReport(r) \subseteq BOOLEAN
    BY DEF WritesReport
  <2>2. FALSE \in WritesReport(r) => req[r].set.report = req[r].table
    BY DEF WritesReport
  <2> QED
    BY <2>1, <2>2 DEF EvaluateWrite, Ops
<1>2. req[r] \in Evaluations /\ EvaluationFits(r)
  BY <1>1, IdleOp, Kinds DEF ContestInv, Typed, Fits
<1>3. req[r].table \in Tables /\ req[r].set \in SetRows
  BY <1>2 DEF Evaluations
<1>4. Pending(req[r].set) \in Statuses
  BY DEF Pending, Statuses, ContestInv, Typed, SetRows
<1>5. /\ set'.status = Pending(req[r].set)
      /\ set'.report = IF writes THEN req[r].table ELSE set.report
      /\ set'.report # NoReport /\ set' \in SetRows
  <2>1. req[r].set.report = req[r].table => set.report # NoReport
    BY <1>2, <1>3, ReportAssumption DEF EvaluationFits
  <2>2. set' \in SetRows
    BY <1>1, <1>3, <1>4 DEF SetRows, ContestInv, Typed
  <2> QED
    BY <1>1, <1>3, <2>1, <2>2, ReportAssumption
<1>6. Typed'
  <2>1. req' \in [Requests -> Open \cup {Idle}] /\ holder' \in SUBSET Requests
    BY <1>1, EndTyped DEF ContestInv
  <2> QED
    BY <1>1, <1>5, <2>1 DEF Typed, ContestInv
<1>7. ASSUME NEW u \in Requests PROVE Fits(u)'
  <2>1. CASE req'[u] = Idle
    BY <2>1, IdleOp DEF Fits, BindFits, EvaluationFits, ApprovalFits, Open
  <2>2. CASE req'[u] # Idle
    <3>1. req'[u].met = req[u].met \cup {"evaluate"}
      BY <1>1, <2>2, Met DEF ContestInv
    <3>2. Fits(u)
      BY DEF ContestInv
    <3>3. "bind" \notin req'[u].met => "bind" \notin req[u].met
      BY <3>1
    <3>4. ASSUME req[u] \in BindWrites, Moves(u) PROVE Moves(u)'
      <4>1. /\ req'[u].slot = req[u].slot /\ req'[u].problem = req[u].problem
            /\ req'[u].put = req[u].put /\ req'[u].mark = req[u].mark
        BY <1>1, <2>2, <3>4, Met DEF ContestInv
      <4>2. Written(req[u].put, problem)' = Written(req[u].put, problem)
        BY <1>1, <4>1 DEF Written
      <4>3. Written(req[u].mark, assigned)' = Written(req[u].mark, assigned)
        BY <1>1, <4>1 DEF Written
      <4> QED
        BY <1>1, <3>4, <4>1, <4>2, <4>3 DEF Moves
    <3>5. BindFits(u)'
      BY <1>1, <2>2, <3>2, <3>3, <3>4, Met DEF Fits, BindFits, ContestInv
    <3>6. set'.status = "SET_EVAL_APPROVED" => set.status = "SET_EVAL_APPROVED"
      BY <1>5 DEF Pending
    <3>7. EvaluationFits(u)'
      BY <1>1, <1>5, <2>2, <3>1, <3>2, <3>3, <3>6, Met DEF Fits, EvaluationFits, ContestInv
    <3>8. ApprovalFits(u)'
      BY <1>5, <3>1 DEF ApprovalFits
    <3> QED
      BY <3>5, <3>7, <3>8 DEF Fits
  <2> QED
    BY <2>1, <2>2
<1>8. SlotsAgree'
  BY <1>1 DEF SlotsAgree, ContestInv
<1>9. ReportOfSlots'
  <2>1. CASE writes
    BY <1>1, <1>2, <1>5, <2>1 DEF ReportOfSlots, EvaluationFits
  <2>2. CASE ~writes
    BY <1>1, <1>2, <1>3, <1>5, <2>2, ReportAssumption DEF ReportOfSlots, EvaluationFits, ContestInv
  <2> QED
    BY <2>1, <2>2
<1>10. ApprovedReport'
  BY <1>1, <1>2, <1>5 DEF ApprovedReport, EvaluationFits, Pending
<1> QED
  BY <1>6, <1>7, <1>8, <1>9, <1>10 DEF ContestInv

LEMMA ApprovalInv ==
    ASSUME ContestInv, NEW r \in Requests, ApproveWrite(r)
    PROVE  ContestInv'
PROOF
<1>1. /\ req[r].op = "approve"
      /\ set' = [set EXCEPT !.status = "SET_EVAL_APPROVED"]
      /\ approvedOn' = req[r].set.report
      /\ clash' = ("evaluate" \in req[r].met)
      /\ End(r, "approve") /\ "approve" \in Ops
      /\ UNCHANGED <<problem, assigned, exists, drift, raced>>
  BY DEF ApproveWrite, Ops
<1>2. req[r] \in Approvals /\ ApprovalFits(r)
  BY <1>1, IdleOp, Kinds DEF ContestInv, Typed, Fits
<1>3. /\ set'.status = "SET_EVAL_APPROVED" /\ set'.report = set.report
      /\ set' \in SetRows /\ set.report # NoReport
  BY <1>1, <1>2 DEF SetRows, Statuses, ApprovalFits, ContestInv, Typed
<1>4. Typed'
  <2>1. req' \in [Requests -> Open \cup {Idle}] /\ holder' \in SUBSET Requests
    BY <1>1, EndTyped DEF ContestInv
  <2> QED
    BY <1>1, <1>3, <2>1 DEF Typed, ContestInv
<1>5. ASSUME NEW u \in Requests PROVE Fits(u)'
  <2>1. CASE req'[u] = Idle
    BY <2>1, IdleOp DEF Fits, BindFits, EvaluationFits, ApprovalFits, Open
  <2>2. CASE req'[u] # Idle
    <3>1. req'[u].met = req[u].met \cup {"approve"}
      BY <1>1, <2>2, Met DEF ContestInv
    <3>2. Fits(u)
      BY DEF ContestInv
    <3>3. "bind" \notin req'[u].met => "bind" \notin req[u].met
      BY <3>1
    <3>4. ASSUME req[u] \in BindWrites, Moves(u) PROVE Moves(u)'
      <4>1. /\ req'[u].slot = req[u].slot /\ req'[u].problem = req[u].problem
            /\ req'[u].put = req[u].put /\ req'[u].mark = req[u].mark
        BY <1>1, <2>2, <3>4, Met DEF ContestInv
      <4>2. Written(req[u].put, problem)' = Written(req[u].put, problem)
        BY <1>1, <4>1 DEF Written
      <4>3. Written(req[u].mark, assigned)' = Written(req[u].mark, assigned)
        BY <1>1, <4>1 DEF Written
      <4> QED
        BY <1>1, <3>4, <4>1, <4>2, <4>3 DEF Moves
    <3>5. BindFits(u)'
      BY <1>1, <2>2, <3>2, <3>3, <3>4, Met DEF Fits, BindFits, ContestInv
    <3>6. EvaluationFits(u)'
      BY <1>1, <2>2, <3>1, <3>2, <3>3, Met DEF Fits, EvaluationFits, ContestInv
    <3>7. ApprovalFits(u)'
      BY <1>1, <1>3, <2>2, <3>1, <3>2, Met DEF Fits, ApprovalFits, ContestInv
    <3> QED
      BY <3>5, <3>6, <3>7 DEF Fits
  <2> QED
    BY <2>1, <2>2
<1>6. SlotsAgree'
  BY <1>1 DEF SlotsAgree, ContestInv
<1>7. ReportOfSlots'
  BY <1>1, <1>3 DEF ReportOfSlots, ContestInv
<1>8. ApprovedReport'
  BY <1>1, <1>2, <1>3 DEF ApprovedReport, ApprovalFits
<1> QED
  BY <1>4, <1>5, <1>6, <1>7, <1>8 DEF ContestInv

LEMMA StutterInv == ContestInv /\ UNCHANGED vars => ContestInv'
PROOF
<1> SUFFICES ASSUME ContestInv, UNCHANGED vars PROVE ContestInv'
  OBVIOUS
<1> USE DEF vars
<1>1. Typed'
  BY DEF ContestInv, Typed
<1>2. ASSUME NEW u \in Requests PROVE Fits(u)'
  <2>1. Fits(u)
    BY DEF ContestInv
  <2>2. Written(req[u].put, problem)' = Written(req[u].put, problem)
    BY DEF Written
  <2>3. Written(req[u].mark, assigned)' = Written(req[u].mark, assigned)
    BY DEF Written
  <2>4. Moves(u) => Moves(u)'
    BY <2>2, <2>3 DEF Moves
  <2>5. BindFits(u)'
    BY <2>1, <2>4 DEF Fits, BindFits
  <2> QED
    BY <2>1, <2>5 DEF Fits, EvaluationFits, ApprovalFits
<1>3. (SlotsAgree /\ ReportOfSlots /\ ApprovedReport)'
  BY DEF ContestInv, SlotsAgree, ReportOfSlots, ApprovedReport
<1> QED
  BY <1>1, <1>2, <1>3 DEF ContestInv

-----------------------------------------------------------------------------
(* Theorems. *)

LEMMA NextInv == ContestInv /\ [Next]_vars => ContestInv'
PROOF
<1> SUFFICES ASSUME ContestInv, [Next]_vars PROVE ContestInv'
  OBVIOUS
<1>1. CASE UNCHANGED vars
  BY <1>1, StutterInv
<1>2. CASE Next
  <2>1. PICK r \in Requests :
           \/ \E s \in Slots, p \in Problems : BindLoad(r, s, p) \/ CreateLoad(r, s, p)
           \/ EvaluateLoad(r) \/ ApproveLoad(r) \/ Continue(r) \/ Abort(r)
    BY <1>2 DEF Next
  <2>2. CASE \E s \in Slots, p \in Problems : BindLoad(r, s, p) \/ CreateLoad(r, s, p)
    BY <2>2, StartBind
  <2>3. CASE EvaluateLoad(r)
    BY <2>3, StartEvaluation
  <2>4. CASE ApproveLoad(r)
    BY <2>4, StartApproval
  <2>5. CASE Continue(r)
    BY <2>5, OthersInv, BindInv, ScanInv, EvaluationInv, ApprovalInv DEF Continue
  <2>6. CASE Abort(r)
    BY <2>6, AbortInv
  <2> QED
    BY <2>1, <2>2, <2>3, <2>4, <2>5, <2>6
<1> QED
  BY <1>1, <1>2

(* The facts above hold in every reachable state: what requests have read   *)
(* is true of the rows, or they have met the commit that changed them.      *)
THEOREM ContestInvariant == Spec => []ContestInv
PROOF
  BY InitInv, NextInv, PTL DEF Spec

(* Rows and requests keep their types, and only a draft has no report.      *)
THEOREM TypeCorrect == Spec => []TypeOK
PROOF
<1>1. ContestInv => TypeOK
  <2> SUFFICES ASSUME ContestInv PROVE TypeOK
    OBVIOUS
  <2>1. ASSUME NEW r \in Requests
        PROVE  /\ req[r].op \in Ops \cup {"none"}
               /\ req[r].op # "none" => req[r].met \in SUBSET Ops
    BY IdleOp, Kinds DEF ContestInv, Typed
  <2>2. set \in [status : Statuses, report : Tables \cup {NoReport}]
    BY DEF ContestInv, Typed, SetRows
  <2> QED
    BY <2>1, <2>2 DEF ContestInv, Typed, TypeOK
<1> QED
  BY <1>1, ContestInvariant, PTL

(* The slots of a set agree as long as binds have not overlapped: with any  *)
(* number of binds one after the other, whatever else goes on.              *)
THEOREM SlotsConsistent == Spec => []SlotsAgree
PROOF
  BY ContestInvariant, PTL DEF ContestInv

(* The report is about the problems in the slots until the next bind.       *)
THEOREM ReportAboutSlots == Spec => []ReportOfSlots
PROOF
  BY ContestInvariant, PTL DEF ContestInv

(* What is approved is what the approver has read, unless an evaluation was *)
(* committed between the reading and the approval, or read the set before.  *)
THEOREM ApprovedAsRead == Spec => []ApprovedReport
PROOF
  BY ContestInvariant, PTL DEF ContestInv

(* A bind that no other bind overlaps leaves its problem in its slot only,  *)
(* whatever earlier races have left in the slots.                           *)
THEOREM BindHolds == Spec => BindTakesHold
PROOF
<1>1. ASSUME ContestInv, NEW r \in Requests, BindWrite(r), "bind" \notin req[r].met
      PROVE  /\ {s \in Slots : problem'[s] = req[r].problem} = {req[r].slot}
             /\ assigned'[req[r].slot]
  <2>1. req[r].problem # NoProblem
    BY <1>1, BindWritten, ExistingAssumption
  <2>2. req[r].slot \in Slots /\ assigned'[req[r].slot]
    BY <1>1, BindWritten
  <2>3. ASSUME NEW s \in Slots PROVE problem'[s] = req[r].problem <=> s = req[r].slot
    <3>1. problem'[s] = IF s = req[r].slot THEN req[r].problem
                        ELSE IF problem[s] = req[r].problem THEN NoProblem ELSE problem[s]
      BY <1>1, BindWritten
    <3> QED
      BY <2>1, <3>1
  <2> QED
    BY <2>2, <2>3
<1>2. ContestInv =>
        [\A r \in Requests :
           BindWrite(r) /\ "bind" \notin req[r].met =>
              /\ {s \in Slots : problem'[s] = req[r].problem} = {req[r].slot}
              /\ assigned'[req[r].slot]]_vars
  BY <1>1
<1> QED
  BY <1>2, ContestInvariant, PTL DEF BindTakesHold
=============================================================================
