------------------------- MODULE PipelineRowProofs --------------------------
(***************************************************************************)
(* Proofs about the rows the transactions of the stage pipeline share.      *)
(* First the row locks: no two transactions hold one row, and an agent that *)
(* runs holds the row of its stage. Then the two rows an approval writes:   *)
(* the problem row with current_stage, and the row of the next stage.       *)
(***************************************************************************)
EXTENDS PipelineProofs

-----------------------------------------------------------------------------
(* Row locks. *)

Dispatches == {"dispatch", "chat_dispatch"}

(* A dispatch that has accepted its stage has the row, or is still going to *)
(* lock it, after the problem row if that is dirty as well.                 *)
Claims(t) ==
    t.op \in Dispatches /\ t.pc = "agent" =>
        \/ t.stage \in t.held
        \/ t.todo = <<t.stage>>
        \/ t.todo = <<"problem", t.stage>>

LockInv ==
    /\ \A a, b \in Actors : a # b => tx[a].held \cap tx[b].held = {}
    /\ \A a \in Actors : Claims(tx[a])

(* A step that takes no lock and starts no dispatched agent. *)
Quiet(t) == t.pc # "agent" \/ t.op \notin Dispatches

QuietStep(a) ==
    \E t : /\ tx' = [tx EXCEPT ![a] = t]
           /\ t.held \subseteq tx[a].held
           /\ Quiet(t)

LEMMA QuietLocks ==
    ASSUME TypeOK, LockInv, NEW a \in Actors, QuietStep(a)
    PROVE  LockInv'
PROOF
<1>1. PICK t : tx' = [tx EXCEPT ![a] = t] /\ t.held \subseteq tx[a].held /\ Quiet(t)
  BY DEF QuietStep
<1>2. tx'[a] = t /\ \A b \in Actors \ {a} : tx'[b] = tx[b]
  BY <1>1 DEF TypeOK
<1>3. \A b \in Actors : tx'[b].held \subseteq tx[b].held
  BY <1>1, <1>2
<1>4. \A b \in Actors : Claims(tx'[b])
  BY <1>1, <1>2 DEF LockInv, Claims, Quiet
<1>5. \A b, c \in Actors : b # c => tx'[b].held \cap tx'[c].held = {}
  BY <1>3 DEF LockInv
<1> QED
  BY <1>4, <1>5 DEF LockInv, Claims

LEMMA RefuseQuiet == \A a \in Actors : Refuse(a) => QuietStep(a)
PROOF
<1>1. Idle.held = {} /\ Quiet(Idle)
  BY DEF Idle, Quiet
<1> QED
  BY <1>1 DEF Refuse, QuietStep

LEMMA SetSpecKeeps ==
    ASSUME NEW t \in Transactions, NEW spec
    PROVE  LET u == SetSpec(t, spec)
           IN u.pc = t.pc /\ u.op = t.op /\ u.stage = t.stage /\ u.held = t.held
PROOF
  BY DEF SetSpec, Transactions

LEMMA LoadQuiet ==
    ASSUME TypeOK, NEW r \in Requests, Load(r)
    PROVE  QuietStep(r)
PROOF
<1>1. ASSUME NEW op \in StageOps, NEW s \in StageIds, tx' = [tx EXCEPT ![r] = Loaded(op, s)]
      PROVE  QuietStep(r)
  BY <1>1, LoadedType DEF QuietStep, Quiet
<1>2. ASSUME NEW op \in SpecOps \cup JobOps, tx' = [tx EXCEPT ![r] = Loaded(op, "none")]
      PROVE  QuietStep(r)
  BY <1>2, LoadedType DEF QuietStep, Quiet, SpecOps, JobOps, StageOps
<1> QED
  BY <1>1, <1>2 DEF Load

LEMMA ApprovalQuiet ==
    ASSUME TypeOK, NEW r \in Requests,
           ApproveStage(r) \/ ApproveNext(r) \/ RejectStage(r)
    PROVE  QuietStep(r)
PROOF
<1> DEFINE t == tx[r]
<1>1. r \in Actors /\ t \in Transactions
  BY DEF TypeOK, Actors
<1>2. CASE ApproveStage(r)
  <2> DEFINE n == NextStage(t.stage)
             st == IF stages[t.stage] = "APPROVED" THEN "keep" ELSE "APPROVED"
             u == [t EXCEPT !.pc = "next", !.mem.current = n, !.dirty = {"current"},
                            !.st[t.stage] = st, !.todo = <<"problem", t.stage>>]
  <2>1. tx' = [tx EXCEPT ![r] = u] \/ Refuse(r)
    BY <1>2 DEF ApproveStage
  <2> HIDE DEF n, st
  <2>2. u.pc = "next" /\ u.held = t.held
    BY <1>1 DEF Transactions
  <2> QED
    BY <1>1, <2>1, <2>2, RefuseQuiet DEF QuietStep, Quiet
<1>3. CASE ApproveNext(r)
  <2> DEFINE n == t.mem.current
             u == [t EXCEPT !.pc = "commit", !.st[n] = "AWAITING_HUMAN", !.todo = <<n>>]
             v == [t EXCEPT !.pc = "commit"]
  <2>1. tx' = [tx EXCEPT ![r] = u] \/ tx' = [tx EXCEPT ![r] = v]
    BY <1>3 DEF ApproveNext
  <2>2. u.pc = "commit" /\ u.held = t.held /\ v.pc = "commit" /\ v.held = t.held
    BY <1>1 DEF Transactions
  <2> QED
    BY <2>1, <2>2 DEF QuietStep, Quiet
<1>4. CASE RejectStage(r)
  <2> DEFINE st == IF stages[t.stage] = "REJECTED" THEN "keep" ELSE "REJECTED"
             u == [t EXCEPT !.pc = "commit", !.st[t.stage] = st, !.todo = <<t.stage>>]
  <2>1. tx' = [tx EXCEPT ![r] = u] \/ Refuse(r)
    BY <1>4 DEF RejectStage
  <2> HIDE DEF st
  <2>2. u.pc = "commit" /\ u.held = t.held
    BY <1>1 DEF Transactions
  <2> QED
    BY <1>1, <2>1, <2>2, RefuseQuiet DEF QuietStep, Quiet
<1> QED
  BY <1>2, <1>3, <1>4

LEMMA AgentDoneQuiet ==
    ASSUME TypeOK, NEW r \in Requests, AgentDone(r)
    PROVE  QuietStep(r)
PROOF
<1> DEFINE t == tx[r]
<1>1. t \in Transactions
  BY DEF TypeOK, Actors
<1>2. PICK enq : tx' = [tx EXCEPT ![r] = Answered(t, enq)]
  BY DEF AgentDone
<1> DEFINE u == IF AgentWrites(t.stage, enq) THEN SetSpec(t, t.mem.spec) ELSE t
           todo == IF "spec" \in u.dirty THEN <<"problem">> ELSE << >>
           v == [u EXCEPT !.st[t.stage] = AfterAgent, !.pc = "commit", !.enq = enq,
                          !.todo = todo]
<1>3. Answered(t, enq) = v
  BY DEF Answered
<1>4. t.mem.spec \in Specs
  BY <1>1 DEF Transactions, Problems
<1>5. u \in Transactions /\ u.held = t.held
  BY <1>1, <1>4, SetSpecType, SetSpecKeeps
<1> HIDE DEF u, todo
<1>6. v.pc = "commit" /\ v.held = u.held
  BY <1>5 DEF Transactions
<1> QED
  BY <1>2, <1>3, <1>5, <1>6 DEF QuietStep, Quiet

LEMMA RewriteSpecQuiet ==
    ASSUME TypeOK, NEW r \in Requests, RewriteSpec(r)
    PROVE  QuietStep(r)
PROOF
<1> DEFINE t == tx[r]
           spec == IF t.op = "confirm" THEN [t.mem.spec EXCEPT !.confirmed = TRUE]
                   ELSE t.mem.spec
           u == SetSpec(t, spec)
           enq == IF t.op = "check" THEN {"import_check"} ELSE {}
           v == [u EXCEPT !.pc = "commit", !.todo = <<"problem">>, !.enq = enq]
<1>1. r \in Actors /\ t \in Transactions
  BY DEF TypeOK, Actors
<1>2. tx' = [tx EXCEPT ![r] = v] \/ Refuse(r)
  BY DEF RewriteSpec
<1>3. spec \in Specs
  BY <1>1 DEF Transactions, Problems, Specs
<1> HIDE DEF spec, enq
<1>4. u \in Transactions /\ u.held = t.held
  BY <1>1, <1>3, SetSpecType, SetSpecKeeps
<1> HIDE DEF u
<1>5. v.pc = "commit" /\ v.held = u.held
  BY <1>4 DEF Transactions
<1> QED
  BY <1>1, <1>2, <1>4, <1>5, RefuseQuiet DEF QuietStep, Quiet

LEMMA JobRequestQuiet ==
    ASSUME TypeOK, NEW r \in Requests, JobRequest(r)
    PROVE  QuietStep(r)
PROOF
<1> DEFINE t == tx[r]
           becomes == IF t.op = "cancel" /\ t.job = "queued" THEN "cancelled"
                      ELSE IF t.op = "retry" /\ t.job \in {"failed", "cancelled"} THEN "queued"
                      ELSE "keep"
           u == [t EXCEPT !.pc = "commit", !.enq = {"stress"}]
           v == [t EXCEPT !.pc = "commit", !.setjob = becomes, !.todo = <<"crawl">>]
<1>1. r \in Actors /\ t \in Transactions
  BY DEF TypeOK, Actors
<1>2. tx' = [tx EXCEPT ![r] = u] \/ tx' = [tx EXCEPT ![r] = v] \/ Refuse(r)
  BY DEF JobRequest
<1> HIDE DEF becomes
<1>3. u.pc = "commit" /\ u.held = t.held /\ v.pc = "commit" /\ v.held = t.held
  BY <1>1 DEF Transactions
<1> QED
  BY <1>1, <1>2, <1>3, RefuseQuiet DEF QuietStep, Quiet

(* The dispatch that starts an agent goes on to lock the row of its stage. *)
LEMMA DispatchLocks ==
    ASSUME TypeOK, LockInv, NEW r \in Requests, DispatchStage(r)
    PROVE  LockInv'
PROOF
<1> DEFINE t == tx[r]
           first == ~t.mem.spec.thread
           spec == [t.mem.spec EXCEPT !.thread = TRUE]
           u == IF first THEN SetSpec(t, spec) ELSE t
           lockProblem == IF first THEN <<"problem">> ELSE << >>
           todo == lockProblem \o FlushWorking(t.stage)
           v == [u EXCEPT !.pc = "agent", !.todo = todo]
           w == [u EXCEPT !.pc = "commit", !.todo = lockProblem]
<1>1. r \in Actors /\ t \in Transactions
  BY DEF TypeOK, Actors
<1>2. tx' = [tx EXCEPT ![r] = v] \/ tx' = [tx EXCEPT ![r] = w] \/ Refuse(r)
  BY DEF DispatchStage
<1>3. t.stage \in StageIds
  BY <1>1 DEF Transactions, StageOps, DispatchStage, Checking
<1>4. todo = <<t.stage>> \/ todo = <<"problem", t.stage>>
  BY <1>3, LockProblemType DEF FlushWorking
<1>5. u \in Transactions /\ u.held = t.held /\ u.stage = t.stage
  <2>1. spec \in Specs
    BY <1>1 DEF Transactions, Problems, Specs
  <2> HIDE DEF spec
  <2> QED
    BY <1>1, <2>1, SetSpecType, SetSpecKeeps
<1> HIDE DEF u, todo, lockProblem
<1>6. /\ v.held = u.held /\ v.stage = u.stage /\ v.todo = todo
      /\ w.held = u.held /\ w.pc = "commit"
  BY <1>5 DEF Transactions
<1> HIDE DEF v, w
<1>7. CASE tx' = [tx EXCEPT ![r] = v]
  <2>1. tx'[r] = v /\ \A b \in Actors \ {r} : tx'[b] = tx[b]
    BY <1>1, <1>7 DEF TypeOK
  <2>2. \A b \in Actors : tx'[b].held = tx[b].held
    BY <1>5, <1>6, <2>1
  <2>3. Claims(v)
    BY <1>4, <1>5, <1>6 DEF Claims
  <2>4. \A b \in Actors : Claims(tx'[b])
    BY <2>1, <2>3 DEF LockInv
  <2> QED
    BY <2>2, <2>4 DEF LockInv, Claims
<1>8. CASE tx' = [tx EXCEPT ![r] = w]
  BY <1>1, <1>5, <1>6, <1>8, QuietLocks DEF QuietStep, Quiet
<1> QED
  BY <1>1, <1>2, <1>7, <1>8, RefuseQuiet, QuietLocks

LEMMA TailOfTwo == \A x, y : Tail(<<x, y>>) = <<y>>
PROOF
<1> SUFFICES ASSUME NEW x, NEW y PROVE Tail(<<x, y>>) = <<y>>
  OBVIOUS
<1> DEFINE S == {x, y}
<1>1. <<x, y>> \in Seq(S) /\ <<y>> \in Seq(S)
  OBVIOUS
<1>2. Len(<<x, y>>) = 2 /\ <<x, y>>[2] = y /\ Len(<<y>>) = 1 /\ <<y>>[1] = y
  OBVIOUS
<1> HIDE DEF S
<1>3. Tail(<<x, y>>) \in Seq(S) /\ Len(Tail(<<x, y>>)) = 1 /\ Tail(<<x, y>>)[1] = y
  BY <1>1, <1>2
<1>4. \A i \in 1..1 : Tail(<<x, y>>)[i] = <<y>>[i]
  BY <1>2, <1>3
<1> QED
  BY <1>1, <1>2, <1>3, <1>4, SeqEqual

(* Only a row nobody else holds is locked; the row that was claimed first   *)
(* in the list is the one that is held then.                                *)
LEMMA LockLocks ==
    ASSUME TypeOK, LockInv, NEW a \in Actors, Lock(a)
    PROVE  LockInv'
PROOF
<1> DEFINE t == tx[a]
           h == Head(t.todo)
           tail == Tail(t.todo)
           u == [t EXCEPT !.todo = tail, !.held = t.held \cup {h}]
<1>1. t \in Transactions /\ t.todo # << >> /\ Free(a, h)
  BY DEF TypeOK, Lock
<1>2. tx' = [tx EXCEPT ![a] = u]
  BY <1>1 DEF Lock, TypeOK, Transactions
<1>3. Claims(t)
  BY DEF LockInv
<1>4. /\ t.todo = <<t.stage>> => h = t.stage
      /\ t.todo = <<"problem", t.stage>> => tail = <<t.stage>>
  <2>1. \A x : Head(<<x>>) = x
    OBVIOUS
  <2>2. t.todo = <<t.stage>> => h = Head(<<t.stage>>)
    OBVIOUS
  <2>3. t.todo = <<"problem", t.stage>> => tail = Tail(<<"problem", t.stage>>)
    BY Zenon
  <2> HIDE DEF h, tail
  <2> QED
    BY <2>1, <2>2, <2>3, TailOfTwo
<1> HIDE DEF h, tail
<1>5. /\ u.op = t.op /\ u.pc = t.pc /\ u.stage = t.stage
      /\ u.todo = tail /\ u.held = t.held \cup {h}
  BY <1>1 DEF Transactions
<1> HIDE DEF u
<1>6. Claims(u)
  BY <1>3, <1>4, <1>5 DEF Claims
<1>7. tx'[a] = u /\ \A b \in Actors \ {a} : tx'[b] = tx[b]
  BY <1>2 DEF TypeOK
<1>8. \A b \in Actors : Claims(tx'[b])
  BY <1>6, <1>7 DEF LockInv
<1>9. \A b, c \in Actors : b # c => tx'[b].held \cap tx'[c].held = {}
  BY <1>1, <1>5, <1>7 DEF LockInv, Free
<1> QED
  BY <1>8, <1>9 DEF LockInv, Claims

LEMMA WorkerQuiet ==
    ASSUME TypeOK, NEW ok \in BOOLEAN, NEW fails \in BOOLEAN, NEW wrote \in BOOLEAN,
           StressDone(ok, fails, wrote)
    PROVE  QuietStep("worker")
PROOF
<1> DEFINE t == tx["worker"]
           records == t.stage = "import_check" /\ ~fails
           spec == IF records THEN [t.mem.spec EXCEPT !.checkOk = ok] ELSE t.mem.spec
           rec == IF ~records THEN "none" ELSE IF ok THEN "ok" ELSE "fail"
           u == [t EXCEPT !.pc = "commit"]
           v == SetSpec(t, spec)
           w == [v EXCEPT !.pc = "commit", !.todo = <<"problem">>, !.rec = rec]
<1>1. t \in Transactions
  BY DEF TypeOK, Actors, Workers
<1>2. tx' = [tx EXCEPT !["worker"] = u] \/ tx' = [tx EXCEPT !["worker"] = w]
  BY DEF StressDone
<1>3. spec \in Specs
  BY <1>1 DEF Transactions, Problems, Specs
<1> HIDE DEF spec, rec
<1>4. v \in Transactions /\ v.held = t.held
  BY <1>1, <1>3, SetSpecType, SetSpecKeeps
<1> HIDE DEF v
<1>5. u.pc = "commit" /\ u.held = t.held /\ w.pc = "commit" /\ w.held = v.held
  BY <1>1, <1>4 DEF Transactions
<1> QED
  BY <1>2, <1>4, <1>5 DEF QuietStep, Quiet

LEMMA StartQuiet ==
    ASSUME TypeOK, (\E m \in Modes : StressStart(m)) \/ CrawlStart
    PROVE  QuietStep("worker") \/ QuietStep("crawler")
PROOF
<1>1. ASSUME NEW m \in Modes, StressStart(m) PROVE QuietStep("worker")
  <2> DEFINE l == Loaded("run", m)
             u == [l EXCEPT !.pc = "agent"]
  <2>1. l \in Transactions /\ l.op = "run" /\ l.held = {}
    BY LoadedType DEF StageOps
  <2>2. tx' = [tx EXCEPT !["worker"] = u]
    BY <1>1 DEF StressStart
  <2> HIDE DEF l
  <2>3. u.op = "run" /\ u.held = {}
    BY <2>1 DEF Transactions
  <2> QED
    BY <2>2, <2>3 DEF QuietStep, Quiet, Dispatches
<1>2. CASE CrawlStart
  <2> DEFINE l == Loaded("import", "none")
             u == [l EXCEPT !.pc = "agent", !.todo = <<"crawl">>]
  <2>1. l \in Transactions /\ l.op = "import" /\ l.held = {}
    BY LoadedType DEF StageOps
  <2>2. tx' = [tx EXCEPT !["crawler"] = u]
    BY <1>2 DEF CrawlStart
  <2> HIDE DEF l
  <2>3. u.op = "import" /\ u.held = {}
    BY <2>1 DEF Transactions
  <2> QED
    BY <2>2, <2>3 DEF QuietStep, Quiet, Dispatches
<1> QED
  BY <1>1, <1>2

LEMMA CrawlerQuiet ==
    ASSUME TypeOK, CrawlerStep
    PROVE  QuietStep("crawler")
PROOF
<1> DEFINE t == tx["crawler"]
<1>1. "crawler" \in Actors /\ t \in Transactions
  BY DEF TypeOK, Actors, Workers
<1>2. CASE CrawlFail
  <2> DEFINE u == [t EXCEPT !.pc = "commit", !.setjob = "failed"]
  <2>1. tx' = [tx EXCEPT !["crawler"] = u]
    BY <1>1, <1>2 DEF CrawlFail, TypeOK, Transactions
  <2>2. u.pc = "commit" /\ u.held = t.held
    BY <1>1 DEF Transactions
  <2> QED
    BY <2>1, <2>2 DEF QuietStep, Quiet
<1>3. ASSUME NEW hasStd \in BOOLEAN, CrawlDone(hasStd) PROVE QuietStep("crawler")
  <2> DEFINE spec == [t.mem.spec EXCEPT !.imported = TRUE, !.confirmed = FALSE]
             u == IF hasStd \/ spec # t.mem.spec THEN SetSpec(t, spec) ELSE t
             back == t.mem.current # "IMPORT"
             b == [u EXCEPT !.mem.current = "IMPORT", !.dirty = u.dirty \cup {"current"}]
             v == IF back THEN b ELSE u
             enq == IF hasStd THEN {"import_check"} ELSE {}
             todo == IF v.dirty # {} THEN <<"problem">> ELSE << >>
             w == [v EXCEPT !.setjob = "done", !.pc = "commit", !.enq = enq, !.todo = todo]
  <2>1. spec \in Specs
    BY <1>1 DEF Transactions, Problems, Specs
  <2>2. tx' = [tx EXCEPT !["crawler"] = w]
    BY <1>3 DEF CrawlDone
  <2> HIDE DEF spec
  <2>3. u \in Transactions /\ u.held = t.held
    BY <1>1, <2>1, SetSpecType, SetSpecKeeps
  <2> HIDE DEF u
  <2>4. b \in Transactions /\ b.held = u.held
    BY <2>3, MoveBackType DEF Transactions
  <2> HIDE DEF b
  <2>5. v \in Transactions /\ v.held = t.held
    BY <2>3, <2>4
  <2> HIDE DEF v, enq, todo
  <2>6. w.pc = "commit" /\ w.held = v.held
    BY <2>5 DEF Transactions
  <2> QED
    BY <2>2, <2>5, <2>6 DEF QuietStep, Quiet
<1> QED
  BY <1>2, <1>3 DEF CrawlerStep

LEMMA BootstrapQuiet ==
    ASSUME TypeOK, Bootstrap
    PROVE  QuietStep("boot")
PROOF
<1> DEFINE t == tx["boot"]
           missing == {s \in StageIds : ~Exists(s)}
           back == t.mem.current = "SPEC"
           u == IF missing # {} THEN SetSpec(t, t.mem.spec) ELSE t
           b == [u EXCEPT !.mem.current = "IMPORT", !.dirty = u.dirty \cup {"current"}]
           v == IF back THEN b ELSE u
           reopen == back /\ Exists("IMPORT") /\ stages["IMPORT"] # "AWAITING_HUMAN"
           st == [s \in StageIds |->
                     IF s \in missing THEN "PENDING"
                     ELSE IF s = "IMPORT" /\ reopen THEN "AWAITING_HUMAN"
                     ELSE "keep"]
           lockProblem == IF v.dirty # {} THEN <<"problem">> ELSE << >>
           lockImport == IF reopen THEN <<"IMPORT">> ELSE << >>
           todo == lockProblem \o lockImport
           w == [v EXCEPT !.pc = "commit", !.st = st, !.todo = todo]
           x == [t EXCEPT !.pc = "commit"]
<1>1. t \in Transactions
  BY DEF TypeOK, Actors, Workers
<1>2. t.mem.spec \in Specs
  BY <1>1 DEF Transactions, Problems
<1>3. tx' = [tx EXCEPT !["boot"] = w] \/ tx' = [tx EXCEPT !["boot"] = x]
  BY DEF Bootstrap
<1>4. u \in Transactions /\ u.held = t.held
  BY <1>1, <1>2, SetSpecType, SetSpecKeeps
<1> HIDE DEF u
<1>5. b \in Transactions /\ b.held = u.held
  BY <1>4, MoveBackType DEF Transactions
<1> HIDE DEF b
<1>6. v \in Transactions /\ v.held = t.held
  BY <1>4, <1>5
<1> HIDE DEF v, todo, st
<1>7. w.pc = "commit" /\ w.held = v.held /\ x.pc = "commit" /\ x.held = t.held
  BY <1>1, <1>6 DEF Transactions
<1> QED
  BY <1>3, <1>6, <1>7 DEF QuietStep, Quiet

(* A restart rolls every request back, and with it its locks. *)
LEMMA RestartLocks ==
    ASSUME TypeOK, LockInv, Restart
    PROVE  LockInv'
PROOF
<1> DEFINE l == Loaded("boot", "none")
<1>1. l.op = "boot" /\ l.held = {}
  BY LoadedType DEF StageOps, JobOps
<1>2. \A a \in Actors : tx'[a] \in {Idle, l, tx[a]}
  BY DEF Restart
<1> HIDE DEF l
<1>3. Idle.held = {} /\ Idle.pc = "idle"
  BY DEF Idle
<1>4. \A a \in Actors : tx'[a].held \subseteq tx[a].held
  BY <1>1, <1>2, <1>3
<1>5. \A a \in Actors : Claims(tx'[a])
  BY <1>1, <1>2, <1>3 DEF LockInv, Claims, Dispatches
<1>6. \A a, b \in Actors : a # b => tx'[a].held \cap tx'[b].held = {}
  BY <1>4 DEF LockInv
<1> QED
  BY <1>5, <1>6 DEF LockInv, Claims

LEMMA NextLocks ==
    ASSUME TypeOK, LockInv, [Next]_vars
    PROVE  LockInv'
PROOF
<1>1. ASSUME NEW r \in Requests, Load(r) \/ Step(r) PROVE LockInv'
  <2>1. CASE DispatchStage(r)
    BY <2>1, DispatchLocks
  <2>2. CASE ~DispatchStage(r)
    BY <1>1, <2>2, LoadQuiet, ApprovalQuiet, AgentDoneQuiet, RewriteSpecQuiet,
       JobRequestQuiet, QuietLocks DEF Step, Actors
  <2> QED
    BY <2>1, <2>2
<1>2. ASSUME NEW a \in Actors, Lock(a) \/ DeadlockVictim(a) \/ Commit(a) PROVE LockInv'
  <2>1. CASE Lock(a)
    BY <2>1, LockLocks
  <2>2. CASE DeadlockVictim(a)
    BY <2>2, RefuseQuiet, QuietLocks DEF DeadlockVictim
  <2>3. CASE Commit(a)
    BY <2>3, RefuseQuiet, QuietLocks DEF Commit, Refuse
  <2> QED
    BY <1>2, <2>1, <2>2, <2>3
<1>3. CASE (\E m \in Modes : StressStart(m)) \/ CrawlStart
  BY <1>3, StartQuiet, QuietLocks DEF Actors, Workers
<1>4. CASE WorkerStep \/ CrawlerStep \/ Bootstrap
  BY <1>4, WorkerQuiet, CrawlerQuiet, BootstrapQuiet, QuietLocks
  DEF WorkerStep, Actors, Workers
<1>5. ASSUME NEW w \in Workers, WorkerCrash(w) PROVE LockInv'
  BY <1>5, RefuseQuiet, QuietLocks DEF WorkerCrash, Actors
<1>6. CASE Restart
  BY <1>6, RestartLocks
<1>7. CASE UNCHANGED vars
  BY <1>7 DEF LockInv, Claims, vars
<1> QED
  BY <1>1, <1>2, <1>3, <1>4, <1>5, <1>6, <1>7 DEF Next

(* The inductive invariant of the row locks. *)
THEOREM LocksInvariant == Spec => []LockInv
PROOF
<1>1. Init => LockInv
  <2>1. Idle.held = {} /\ Idle.pc = "idle"
    BY DEF Idle
  <2> QED
    BY <2>1 DEF Init, LockInv, Claims
<1>2. TypeOK /\ LockInv /\ [Next]_vars => LockInv'
  BY NextLocks
<1> QED
  BY <1>1, <1>2, TypeCorrect, PTL DEF Spec

(* Whatever requests are dispatched, aborted and restarted, and however     *)
(* many: the agent of a stage is never run by two of them at a time.        *)
THEOREM AgentsApart == Spec => []OneAgentPerStage
PROOF
<1>1. TypeOK /\ LockInv => OneAgentPerStage
  <2> SUFFICES ASSUME TypeOK, LockInv, NEW a \in Actors, NEW b \in Actors,
                      Working(a), Working(b), tx[a].stage = tx[b].stage
               PROVE  a = b
    BY DEF OneAgentPerStage
  <2>1. \A s : << >> # <<s>> /\ << >> # <<"problem", s>>
    OBVIOUS
  <2>2. \A c \in Actors : Working(c) => tx[c].stage \in tx[c].held
    BY <2>1 DEF LockInv, Claims, Working, Dispatches
  <2> QED
    BY <2>2 DEF LockInv
<1> QED
  BY <1>1, TypeCorrect, LocksInvariant, PTL


-----------------------------------------------------------------------------
(* Stage rows. *)

(* The human can work at the stage c. *)
Opened(c) == c # "DONE" => stages[c] \in Status \ {"PENDING"}

(* The stage row an approval arrives at is open, or it will open it. *)
Arrives(t) ==
    t.op = "approve" /\ t.pc = "commit" =>
        Opened(t.mem.current) \/ t.st[t.mem.current] # "keep"

NeverPending(t) == \A s \in StageIds : t.st[s] # "PENDING"

StatusSafe(t) == NeverPending(t) /\ Arrives(t)

(* No row of the chain is missing and none goes back to PENDING, so what    *)
(* has been open once stays open; IMPORT, to which imports return, is open. *)
StatusInv ==
    /\ \A s \in Chain : stages[s] # "missing"
    /\ NonOriginal => Opened("IMPORT")
    /\ Opened(problem.current)
    /\ \A a \in Actors : StatusSafe(tx[a])

StatusStep(a) ==
    /\ UNCHANGED <<problem, stages>>
    /\ \E t : tx' = [tx EXCEPT ![a] = t] /\ StatusSafe(t)

LEMMA OneStatus ==
    ASSUME TypeOK, StatusInv, NEW a \in Actors, StatusStep(a)
    PROVE  StatusInv'
PROOF
<1>1. \A b \in Actors : StatusSafe(tx'[b])
  BY DEF StatusStep, StatusInv, TypeOK
<1> QED
  BY <1>1 DEF StatusStep, StatusInv, StatusSafe, NeverPending, Arrives, Opened

LEMMA IdleStatus == StatusSafe(Idle)
PROOF
  BY DEF Idle, KeepStages, StatusSafe, NeverPending, Arrives

(* A transaction that has the statuses of another, and is no approval at    *)
(* its end.                                                                 *)
LEMMA SameStatus ==
    ASSUME NEW t, NEW u, NeverPending(t), u.st = t.st, u.op # "approve" \/ u.pc # "commit"
    PROVE  StatusSafe(u)
PROOF
  BY DEF StatusSafe, NeverPending, Arrives

LEMMA RefuseStatus ==
    ASSUME NEW a \in Actors, Refuse(a), UNCHANGED <<problem, stages>>
    PROVE  StatusStep(a)
PROOF
  BY IdleStatus DEF Refuse, StatusStep

LEMMA LoadedStatus ==
    ASSUME TypeOK, NEW op \in StageOps \cup SpecOps \cup JobOps \cup {"run", "import", "boot"},
           NEW s \in StageIds \cup Modes \cup {"none"}
    PROVE  NeverPending(Loaded(op, s)) /\ StatusSafe(Loaded(op, s))
PROOF
<1>1. Loaded(op, s).st = KeepStages /\ Loaded(op, s).pc = "loaded"
  BY DEF Loaded, Idle
<1> QED
  BY <1>1 DEF KeepStages, StatusSafe, NeverPending, Arrives

LEMMA SetSpecStatus ==
    ASSUME NEW t \in Transactions, NEW spec
    PROVE  LET u == SetSpec(t, spec)
           IN u.st = t.st /\ u.op = t.op /\ u.pc = t.pc
PROOF
  BY DEF SetSpec, Transactions

(* A problem that is not original has every stage in its chain. *)
LEMMA NonOriginalChain == NonOriginal => StageIds \subseteq Chain
PROOF
<1> SUFFICES ASSUME NonOriginal PROVE StageIds \subseteq Chain
  OBVIOUS
<1>1. StageOrder = <<"IMPORT">> \o M3Order
  BY DEF StageOrder
<1>2. /\ Len(StageOrder) = Len(M3Order) + 1
      /\ StageOrder[1] = "IMPORT"
      /\ \A i \in 1..Len(M3Order) : i + 1 \in Positions /\ StageOrder[i + 1] = M3Order[i]
  BY <1>1, OrderAssumption DEF Positions
<1>3. 1 \in Positions
  BY ChainFacts DEF Positions
<1> QED
  BY <1>2, <1>3 DEF StageIds, Chain

LEMMA LoadStatus ==
    ASSUME TypeOK, NEW r \in Requests, Load(r)
    PROVE  StatusStep(r)
PROOF
<1>1. ASSUME NEW op \in StageOps, NEW s \in StageIds, tx' = [tx EXCEPT ![r] = Loaded(op, s)]
      PROVE  StatusStep(r)
  BY <1>1, LoadedStatus DEF StatusStep, Load
<1>2. ASSUME NEW op \in SpecOps \cup JobOps, tx' = [tx EXCEPT ![r] = Loaded(op, "none")]
      PROVE  StatusStep(r)
  BY <1>2, LoadedStatus DEF StatusStep, Load
<1> QED
  BY <1>1, <1>2 DEF Load

LEMMA ApproveStageStatus ==
    ASSUME TypeOK, StatusInv, NEW r \in Requests, ApproveStage(r)
    PROVE  StatusStep(r)
PROOF
<1> DEFINE t == tx[r]
           n == NextStage(t.stage)
           x == IF stages[t.stage] = "APPROVED" THEN "keep" ELSE "APPROVED"
           st == [t.st EXCEPT ![t.stage] = x]
           u == [t EXCEPT !.pc = "next", !.mem.current = n, !.dirty = {"current"},
                          !.st = st, !.todo = <<"problem", t.stage>>]
<1>1. r \in Actors /\ t \in Transactions /\ UNCHANGED <<problem, stages>>
  BY DEF TypeOK, Actors, ApproveStage
<1>2. tx' = [tx EXCEPT ![r] = u] \/ Refuse(r)
  BY DEF ApproveStage
<1>3. NeverPending(t)
  BY <1>1 DEF StatusInv, StatusSafe
<1>4. \A s \in StageIds : st[s] # "PENDING"
  BY <1>1, <1>3 DEF NeverPending, Transactions
<1> HIDE DEF n, st
<1>5. u.pc = "next" /\ u.st = st
  BY <1>1 DEF Transactions
<1> HIDE DEF u
<1>6. StatusSafe(u)
  BY <1>4, <1>5 DEF StatusSafe, NeverPending, Arrives
<1> QED
  BY <1>1, <1>2, <1>6, RefuseStatus DEF StatusStep

(* The row is read after the locks; an approval leaves a row alone only if  *)
(* it awaits the human already, for no row of the chain is missing.         *)
LEMMA ApproveNextStatus ==
    ASSUME TypeOK, GateInv, StatusInv, NEW r \in Requests, ApproveNext(r)
    PROVE  StatusStep(r)
PROOF
<1> DEFINE t == tx[r]
           n == t.mem.current
           st == [t.st EXCEPT ![n] = "AWAITING_HUMAN"]
           u == [t EXCEPT !.pc = "commit", !.st = st, !.todo = <<n>>]
           v == [t EXCEPT !.pc = "commit"]
<1>1. r \in Actors /\ t \in Transactions /\ UNCHANGED <<problem, stages>>
  BY DEF TypeOK, Actors, ApproveNext
<1>2. NeverPending(t) /\ MovesSafely(t)
  BY <1>1 DEF StatusInv, StatusSafe, GateInv
<1>3. CASE Opens(n)
  <2>1. tx' = [tx EXCEPT ![r] = u]
    BY <1>3 DEF ApproveNext
  <2>2. n \in StageIds
    BY <1>1, <1>3 DEF Opens, Transactions, Problems
  <2>3. (\A s \in StageIds : st[s] # "PENDING") /\ st[n] # "keep"
    BY <1>1, <1>2, <2>2 DEF NeverPending, Transactions
  <2> HIDE DEF st
  <2>4. u.st = st /\ u.mem.current = n
    BY <1>1 DEF Transactions
  <2> HIDE DEF u
  <2>5. StatusSafe(u)
    BY <2>3, <2>4 DEF StatusSafe, NeverPending, Arrives
  <2> QED
    BY <1>1, <2>1, <2>5 DEF StatusStep
<1>4. CASE ~Opens(n)
  <2>1. tx' = [tx EXCEPT ![r] = v]
    BY <1>4 DEF ApproveNext
  <2>2. Opened(n) \/ t.op # "approve"
    <3>1. CASE t.op = "approve"
      <4>1. n \in Chain \cup {"DONE"}
        BY <1>2, <3>1, ChainNext DEF ApproveNext, MovesSafely
      <4>2. n \in Chain => stages[n] = "AWAITING_HUMAN"
        BY <1>4, <4>1, ChainFacts DEF Opens, Exists, StatusInv, Chain
      <4> QED
        BY <4>1, <4>2 DEF Opened, Status
    <3> QED
      BY <3>1
  <2>3. v.st = t.st /\ v.mem = t.mem /\ v.op = t.op
    BY <1>1 DEF Transactions
  <2> HIDE DEF v
  <2>4. StatusSafe(v)
    BY <1>2, <2>2, <2>3 DEF StatusSafe, NeverPending, Arrives
  <2> QED
    BY <1>1, <2>1, <2>4 DEF StatusStep
<1> QED
  BY <1>3, <1>4

LEMMA RejectStatus ==
    ASSUME TypeOK, StatusInv, NEW r \in Requests, RejectStage(r)
    PROVE  StatusStep(r)
PROOF
<1> DEFINE t == tx[r]
           x == IF stages[t.stage] = "REJECTED" THEN "keep" ELSE "REJECTED"
           st == [t.st EXCEPT ![t.stage] = x]
           u == [t EXCEPT !.pc = "commit", !.st = st, !.todo = <<t.stage>>]
<1>1. r \in Actors /\ t \in Transactions /\ UNCHANGED <<problem, stages>> /\ t.op = "reject"
  BY DEF TypeOK, Actors, RejectStage, Checking
<1>2. tx' = [tx EXCEPT ![r] = u] \/ Refuse(r)
  BY DEF RejectStage
<1>3. NeverPending(t)
  BY <1>1 DEF StatusInv, StatusSafe
<1>4. \A s \in StageIds : st[s] # "PENDING"
  BY <1>1, <1>3 DEF NeverPending, Transactions
<1> HIDE DEF st
<1>5. u.op = "reject" /\ u.st = st
  BY <1>1 DEF Transactions
<1> HIDE DEF u
<1>6. StatusSafe(u)
  BY <1>4, <1>5 DEF StatusSafe, NeverPending, Arrives
<1> QED
  BY <1>1, <1>2, <1>6, RefuseStatus DEF StatusStep

LEMMA DispatchStatus ==
    ASSUME TypeOK, StatusInv, NEW r \in Requests, DispatchStage(r)
    PROVE  StatusStep(r)
PROOF
<1> DEFINE t == tx[r]
           first == ~t.mem.spec.thread
           spec == [t.mem.spec EXCEPT !.thread = TRUE]
           u == IF first THEN SetSpec(t, spec) ELSE t
           lockProblem == IF first THEN <<"problem">> ELSE << >>
           todo == lockProblem \o FlushWorking(t.stage)
           v == [u EXCEPT !.pc = "agent", !.todo = todo]
           w == [u EXCEPT !.pc = "commit", !.todo = lockProblem]
<1>1. r \in Actors /\ t \in Transactions /\ UNCHANGED <<problem, stages>> /\ t.op # "approve"
  BY DEF TypeOK, Actors, DispatchStage, Checking
<1>2. tx' = [tx EXCEPT ![r] = v] \/ tx' = [tx EXCEPT ![r] = w] \/ Refuse(r)
  BY DEF DispatchStage
<1>3. NeverPending(t)
  BY <1>1 DEF StatusInv, StatusSafe
<1>4. u \in Transactions /\ u.st = t.st /\ u.op = t.op
  <2>1. spec \in Specs
    BY <1>1 DEF Transactions, Problems, Specs
  <2> HIDE DEF spec
  <2> QED
    BY <1>1, <2>1, SetSpecType, SetSpecStatus
<1> HIDE DEF u, todo, lockProblem
<1>5. v.st = u.st /\ v.op = u.op /\ w.st = u.st /\ w.op = u.op
  BY <1>4 DEF Transactions
<1> HIDE DEF v, w
<1>6. StatusSafe(v) /\ StatusSafe(w)
  BY <1>1, <1>3, <1>4, <1>5, SameStatus
<1> QED
  BY <1>1, <1>2, <1>6, RefuseStatus DEF StatusStep

LEMMA AgentDoneStatus ==
    ASSUME TypeOK, GateInv, StatusInv, NEW r \in Requests, AgentDone(r)
    PROVE  StatusStep(r)
PROOF
<1> DEFINE t == tx[r]
<1>1. r \in Actors /\ t \in Transactions /\ UNCHANGED <<problem, stages>> /\ MovesSafely(t)
  BY DEF TypeOK, Actors, AgentDone, GateInv
<1>2. t.op # "approve"
  BY <1>1 DEF AgentDone, MovesSafely
<1>3. PICK enq : tx' = [tx EXCEPT ![r] = Answered(t, enq)]
  BY DEF AgentDone
<1> DEFINE u == IF AgentWrites(t.stage, enq) THEN SetSpec(t, t.mem.spec) ELSE t
           todo == IF "spec" \in u.dirty THEN <<"problem">> ELSE << >>
           st == [u.st EXCEPT ![t.stage] = AfterAgent]
           v == [u EXCEPT !.st = st, !.pc = "commit", !.enq = enq, !.todo = todo]
<1>4. Answered(t, enq) = v
  BY DEF Answered
<1>5. t.mem.spec \in Specs
  BY <1>1 DEF Transactions, Problems
<1>6. u \in Transactions /\ u.st = t.st /\ u.op = t.op
  BY <1>1, <1>5, SetSpecType, SetSpecStatus
<1> HIDE DEF u, todo
<1>7. NeverPending(t)
  BY <1>1 DEF StatusInv, StatusSafe
<1>8. \A s \in StageIds : st[s] # "PENDING"
  BY <1>6, <1>7 DEF NeverPending, Transactions, AfterAgent
<1> HIDE DEF st
<1>9. v.st = st /\ v.op = u.op
  BY <1>6 DEF Transactions
<1> HIDE DEF v
<1>10. StatusSafe(v)
  BY <1>2, <1>6, <1>8, <1>9 DEF StatusSafe, NeverPending, Arrives
<1> QED
  BY <1>1, <1>3, <1>4, <1>10 DEF StatusStep

LEMMA RewriteSpecStatus ==
    ASSUME TypeOK, StatusInv, NEW r \in Requests, RewriteSpec(r)
    PROVE  StatusStep(r)
PROOF
<1> DEFINE t == tx[r]
           spec == IF t.op = "confirm" THEN [t.mem.spec EXCEPT !.confirmed = TRUE]
                   ELSE t.mem.spec
           u == SetSpec(t, spec)
           enq == IF t.op = "check" THEN {"import_check"} ELSE {}
           v == [u EXCEPT !.pc = "commit", !.todo = <<"problem">>, !.enq = enq]
<1>1. r \in Actors /\ t \in Transactions /\ UNCHANGED <<problem, stages>> /\ t.op # "approve"
  BY DEF TypeOK, Actors, RewriteSpec, SpecOps
<1>2. tx' = [tx EXCEPT ![r] = v] \/ Refuse(r)
  BY DEF RewriteSpec
<1>3. spec \in Specs
  BY <1>1 DEF Transactions, Problems, Specs
<1>4. NeverPending(t)
  BY <1>1 DEF StatusInv, StatusSafe
<1> HIDE DEF spec, enq
<1>5. u \in Transactions /\ u.st = t.st /\ u.op = t.op
  BY <1>1, <1>3, SetSpecType, SetSpecStatus
<1> HIDE DEF u
<1>6. v.st = u.st /\ v.op = u.op
  BY <1>5 DEF Transactions
<1> HIDE DEF v
<1>7. StatusSafe(v)
  BY <1>1, <1>4, <1>5, <1>6, SameStatus
<1> QED
  BY <1>1, <1>2, <1>7, RefuseStatus DEF StatusStep

LEMMA JobRequestStatus ==
    ASSUME TypeOK, StatusInv, NEW r \in Requests, JobRequest(r)
    PROVE  StatusStep(r)
PROOF
<1> DEFINE t == tx[r]
           becomes == IF t.op = "cancel" /\ t.job = "queued" THEN "cancelled"
                      ELSE IF t.op = "retry" /\ t.job \in {"failed", "cancelled"} THEN "queued"
                      ELSE "keep"
           u == [t EXCEPT !.pc = "commit", !.enq = {"stress"}]
           v == [t EXCEPT !.pc = "commit", !.setjob = becomes, !.todo = <<"crawl">>]
<1>1. r \in Actors /\ t \in Transactions /\ UNCHANGED <<problem, stages>> /\ t.op # "approve"
  BY DEF TypeOK, Actors, JobRequest, JobOps
<1>2. tx' = [tx EXCEPT ![r] = u] \/ tx' = [tx EXCEPT ![r] = v] \/ Refuse(r)
  BY DEF JobRequest
<1>3. NeverPending(t)
  BY <1>1 DEF StatusInv, StatusSafe
<1> HIDE DEF becomes
<1>4. u.st = t.st /\ u.op = t.op /\ v.st = t.st /\ v.op = t.op
  BY <1>1 DEF Transactions
<1> HIDE DEF u, v
<1>5. StatusSafe(u) /\ StatusSafe(v)
  BY <1>1, <1>3, <1>4, SameStatus
<1> QED
  BY <1>1, <1>2, <1>5, RefuseStatus DEF StatusStep

LEMMA LockStatus ==
    ASSUME TypeOK, StatusInv, NEW a \in Actors, Lock(a)
    PROVE  StatusStep(a)
PROOF
<1> DEFINE t == tx[a]
           tail == Tail(t.todo)
           held == t.held \cup {Head(t.todo)}
           u == [t EXCEPT !.todo = tail, !.held = held]
<1>1. t \in Transactions /\ UNCHANGED <<problem, stages>> /\ StatusSafe(t)
  BY DEF TypeOK, Lock, StatusInv
<1>2. tx' = [tx EXCEPT ![a] = u]
  BY <1>1 DEF Lock, TypeOK, Transactions
<1> HIDE DEF tail, held
<1>3. u.st = t.st /\ u.op = t.op /\ u.pc = t.pc /\ u.mem = t.mem
  BY <1>1 DEF Transactions
<1> HIDE DEF u
<1>4. StatusSafe(u)
  BY <1>1, <1>3 DEF StatusSafe, NeverPending, Arrives
<1> QED
  BY <1>1, <1>2, <1>4 DEF StatusStep

LEMMA WorkerStatus ==
    ASSUME TypeOK, GateInv, StatusInv, NEW ok \in BOOLEAN, NEW fails \in BOOLEAN,
           NEW wrote \in BOOLEAN, StressDone(ok, fails, wrote)
    PROVE  StatusStep("worker")
PROOF
<1> DEFINE t == tx["worker"]
           records == t.stage = "import_check" /\ ~fails
           spec == IF records THEN [t.mem.spec EXCEPT !.checkOk = ok] ELSE t.mem.spec
           rec == IF ~records THEN "none" ELSE IF ok THEN "ok" ELSE "fail"
           u == [t EXCEPT !.pc = "commit"]
           v == SetSpec(t, spec)
           w == [v EXCEPT !.pc = "commit", !.todo = <<"problem">>, !.rec = rec]
<1>1. "worker" \in Actors /\ t \in Transactions /\ UNCHANGED <<problem, stages>>
      /\ MovesSafely(t) /\ NeverPending(t)
  BY DEF TypeOK, Actors, Workers, StressDone, GateInv, StatusInv, StatusSafe
<1>2. t.op # "approve"
  BY <1>1 DEF StressDone, MovesSafely
<1>3. tx' = [tx EXCEPT !["worker"] = u] \/ tx' = [tx EXCEPT !["worker"] = w]
  BY DEF StressDone
<1>4. spec \in Specs
  BY <1>1 DEF Transactions, Problems, Specs
<1> HIDE DEF spec, rec
<1>5. v \in Transactions /\ v.st = t.st /\ v.op = t.op
  BY <1>1, <1>4, SetSpecType, SetSpecStatus
<1> HIDE DEF v
<1>6. u.st = t.st /\ u.op = t.op /\ w.st = v.st /\ w.op = v.op
  BY <1>1, <1>5 DEF Transactions
<1> HIDE DEF u, w
<1>7. StatusSafe(u) /\ StatusSafe(w)
  BY <1>1, <1>2, <1>5, <1>6, SameStatus
<1> QED
  BY <1>1, <1>3, <1>7 DEF StatusStep

LEMMA StartStatus ==
    ASSUME TypeOK, (\E m \in Modes : StressStart(m)) \/ CrawlStart
    PROVE  StatusStep("worker") \/ StatusStep("crawler")
PROOF
<1>1. ASSUME NEW m \in Modes, StressStart(m) PROVE StatusStep("worker")
  <2> DEFINE l == Loaded("run", m)
             u == [l EXCEPT !.pc = "agent"]
  <2>1. l \in Transactions /\ NeverPending(l)
    BY LoadedType, LoadedStatus DEF StageOps
  <2>2. tx' = [tx EXCEPT !["worker"] = u] /\ UNCHANGED <<problem, stages>>
    BY <1>1 DEF StressStart
  <2> HIDE DEF l
  <2>3. u.pc = "agent" /\ u.st = l.st
    BY <2>1 DEF Transactions
  <2> HIDE DEF u
  <2> QED
    BY <2>1, <2>2, <2>3, SameStatus DEF StatusStep
<1>2. CASE CrawlStart
  <2> DEFINE l == Loaded("import", "none")
             u == [l EXCEPT !.pc = "agent", !.todo = <<"crawl">>]
  <2>1. l \in Transactions /\ NeverPending(l)
    BY LoadedType, LoadedStatus DEF StageOps
  <2>2. tx' = [tx EXCEPT !["crawler"] = u] /\ UNCHANGED <<problem, stages>>
    BY <1>2 DEF CrawlStart
  <2> HIDE DEF l
  <2>3. u.pc = "agent" /\ u.st = l.st
    BY <2>1 DEF Transactions
  <2> HIDE DEF u
  <2> QED
    BY <2>1, <2>2, <2>3, SameStatus DEF StatusStep
<1> QED
  BY <1>1, <1>2

LEMMA CrawlerStatus ==
    ASSUME TypeOK, GateInv, StatusInv, CrawlerStep
    PROVE  StatusStep("crawler")
PROOF
<1> DEFINE t == tx["crawler"]
<1>1. "crawler" \in Actors /\ t \in Transactions /\ MovesSafely(t) /\ NeverPending(t)
  BY DEF TypeOK, Actors, Workers, GateInv, StatusInv, StatusSafe
<1>2. t.op # "approve"
  BY <1>1 DEF CrawlerStep, CrawlFail, CrawlDone, MovesSafely
<1>3. CASE CrawlFail
  <2> DEFINE u == [t EXCEPT !.pc = "commit", !.setjob = "failed"]
  <2>1. tx' = [tx EXCEPT !["crawler"] = u] /\ UNCHANGED <<problem, stages>>
    BY <1>1, <1>3 DEF CrawlFail, TypeOK, Transactions
  <2>2. u.st = t.st /\ u.op = t.op
    BY <1>1 DEF Transactions
  <2> HIDE DEF u
  <2> QED
    BY <1>1, <1>2, <2>1, <2>2, SameStatus DEF StatusStep
<1>4. ASSUME NEW hasStd \in BOOLEAN, CrawlDone(hasStd) PROVE StatusStep("crawler")
  <2> DEFINE spec == [t.mem.spec EXCEPT !.imported = TRUE, !.confirmed = FALSE]
             u == IF hasStd \/ spec # t.mem.spec THEN SetSpec(t, spec) ELSE t
             back == t.mem.current # "IMPORT"
             b == [u EXCEPT !.mem.current = "IMPORT", !.dirty = u.dirty \cup {"current"}]
             v == IF back THEN b ELSE u
             enq == IF hasStd THEN {"import_check"} ELSE {}
             todo == IF v.dirty # {} THEN <<"problem">> ELSE << >>
             w == [v EXCEPT !.setjob = "done", !.pc = "commit", !.enq = enq, !.todo = todo]
  <2>1. spec \in Specs
    BY <1>1 DEF Transactions, Problems, Specs
  <2>2. tx' = [tx EXCEPT !["crawler"] = w] /\ UNCHANGED <<problem, stages>>
    BY <1>4 DEF CrawlDone
  <2> HIDE DEF spec
  <2>3. u \in Transactions /\ u.st = t.st /\ u.op = t.op
    BY <1>1, <2>1, SetSpecType, SetSpecStatus
  <2> HIDE DEF u
  <2>4. b \in Transactions /\ b.st = u.st /\ b.op = u.op
    BY <2>3, MoveBackType DEF Transactions
  <2> HIDE DEF b
  <2>5. v \in Transactions /\ v.st = t.st /\ v.op = t.op
    BY <2>3, <2>4
  <2> HIDE DEF v, enq, todo
  <2>6. w.st = v.st /\ w.op = v.op
    BY <2>5 DEF Transactions
  <2> HIDE DEF w
  <2> QED
    BY <1>1, <1>2, <2>2, <2>5, <2>6, SameStatus DEF StatusStep
<1> QED
  BY <1>3, <1>4 DEF CrawlerStep

(* No row is missing, so the bootstrap adds none, in PENDING or otherwise. *)
LEMMA BootstrapStatus ==
    ASSUME Origin # "post", TypeOK, GateInv, StatusInv, Bootstrap
    PROVE  StatusStep("boot")
PROOF
<1> DEFINE t == tx["boot"]
           missing == {s \in StageIds : ~Exists(s)}
           back == t.mem.current = "SPEC"
           u == IF missing # {} THEN SetSpec(t, t.mem.spec) ELSE t
           b == [u EXCEPT !.mem.current = "IMPORT", !.dirty = u.dirty \cup {"current"}]
           v == IF back THEN b ELSE u
           reopen == back /\ Exists("IMPORT") /\ stages["IMPORT"] # "AWAITING_HUMAN"
           st == [s \in StageIds |->
                     IF s \in missing THEN "PENDING"
                     ELSE IF s = "IMPORT" /\ reopen THEN "AWAITING_HUMAN"
                     ELSE "keep"]
           lockProblem == IF v.dirty # {} THEN <<"problem">> ELSE << >>
           lockImport == IF reopen THEN <<"IMPORT">> ELSE << >>
           todo == lockProblem \o lockImport
           w == [v EXCEPT !.pc = "commit", !.st = st, !.todo = todo]
           x == [t EXCEPT !.pc = "commit"]
<1>1. "boot" \in Actors /\ t \in Transactions /\ UNCHANGED <<problem, stages>>
      /\ NeverPending(t) /\ t.op # "approve"
  BY DEF TypeOK, Actors, Workers, Bootstrap, Checking, StatusInv, StatusSafe
<1>2. (NonOriginal /\ tx' = [tx EXCEPT !["boot"] = w]) \/ tx' = [tx EXCEPT !["boot"] = x]
  BY DEF Bootstrap
<1>3. t.mem.spec \in Specs
  BY <1>1 DEF Transactions, Problems
<1>4. ASSUME NonOriginal PROVE \A s \in StageIds : st[s] # "PENDING"
  <2>1. missing = {}
    BY <1>4, NonOriginalChain DEF StatusInv, Exists
  <2> QED
    BY <2>1
<1>5. u \in Transactions /\ u.op = t.op
  BY <1>1, <1>3, SetSpecType, SetSpecStatus
<1> HIDE DEF u
<1>6. b \in Transactions /\ b.op = u.op
  BY <1>5, MoveBackType DEF Transactions
<1> HIDE DEF b
<1>7. v \in Transactions /\ v.op = t.op
  BY <1>5, <1>6
<1> HIDE DEF v, todo, st
<1>8. w.st = st /\ w.op = v.op /\ x.st = t.st /\ x.op = t.op
  BY <1>1, <1>7 DEF Transactions
<1> HIDE DEF w, x
<1>9. StatusSafe(x) /\ (NonOriginal => StatusSafe(w))
  BY <1>1, <1>4, <1>7, <1>8, SameStatus DEF StatusSafe, NeverPending, Arrives
<1> QED
  BY <1>1, <1>2, <1>9 DEF StatusStep

LEMMA RestartStatus ==
    ASSUME TypeOK, StatusInv, Restart
    PROVE  StatusInv'
PROOF
<1> DEFINE l == Loaded("boot", "none")
<1>1. StatusSafe(l)
  BY LoadedStatus
<1>2. \A a \in Actors : tx'[a] \in {Idle, l, tx[a]}
  BY DEF Restart
<1> HIDE DEF l
<1>3. \A a \in Actors : StatusSafe(tx'[a])
  BY <1>1, <1>2, IdleStatus DEF StatusInv
<1>4. UNCHANGED <<problem, stages>>
  BY DEF Restart
<1> QED
  BY <1>3, <1>4 DEF StatusInv, StatusSafe, NeverPending, Arrives, Opened

(* A commit writes no PENDING, so what is open stays open; and the stage it *)
(* moves the problem to is open, or opened by the same commit.              *)
LEMMA CommitStatus ==
    ASSUME Origin # "post", TypeOK, GateInv, StatusInv, NEW a \in Actors, Commit(a)
    PROVE  StatusInv'
PROOF
<1> DEFINE t == tx[a]
<1>1. t \in Transactions /\ StatusSafe(t) /\ MovesSafely(t) /\ t.pc = "commit"
  BY DEF TypeOK, StatusInv, GateInv, Commit
<1>2. \A s \in StageIds : stages'[s] = IF t.st[s] = "keep" THEN stages[s] ELSE t.st[s]
  BY DEF Commit
<1>3. \A s \in StageIds : t.st[s] \in (Status \ {"PENDING"}) \cup {"keep"}
  BY <1>1 DEF Transactions, StatusSafe, NeverPending
<1>4. \A c \in StageIds \cup {"DONE"} : Opened(c) => Opened(c)'
  BY <1>2, <1>3 DEF Opened
<1>5. \A s \in Chain : stages'[s] # "missing"
  BY <1>2, <1>3, ChainFacts DEF StatusInv, Chain, Status
<1>6. "IMPORT" \in StageIds
  BY DEF StageIds
<1>7. NonOriginal => Opened("IMPORT")'
  BY <1>4, <1>6 DEF StatusInv
<1>8. problem.current \in StageIds \cup {"DONE"} /\ t.mem.current \in StageIds \cup {"DONE"}
  BY <1>1 DEF TypeOK, Problems, Transactions
<1>9. problem.current' = IF "current" \in t.dirty THEN t.mem.current ELSE problem.current
  BY DEF Commit, Committed
<1>10. Opened(problem.current)'
  <2>1. CASE "current" \notin t.dirty
    BY <1>4, <1>8, <1>9, <2>1 DEF StatusInv, Opened
  <2>2. CASE "current" \in t.dirty /\ t.op # "approve"
    BY <1>1, <1>7, <1>9, <2>2 DEF MovesSafely, Opened
  <2>3. CASE "current" \in t.dirty /\ t.op = "approve"
    <3>1. Opened(t.mem.current) \/ t.st[t.mem.current] # "keep"
      BY <1>1, <2>3 DEF StatusSafe, Arrives
    <3>2. CASE t.mem.current = "DONE"
      BY <1>9, <2>3, <3>2 DEF Opened
    <3>3. CASE t.mem.current \in StageIds
      BY <1>2, <1>3, <1>9, <2>3, <3>1, <3>3 DEF Opened
    <3> QED
      BY <1>8, <3>2, <3>3
  <2> QED
    BY <2>1, <2>2, <2>3
<1>11. \A b \in Actors : tx'[b] \in {Idle, tx[b]}
  BY DEF Commit, TypeOK
<1>12. \A b \in Actors : StatusSafe(tx'[b])
  BY <1>11, IdleStatus DEF StatusInv
<1>13. Idle.mem.current = "DONE"
  BY DEF Idle
<1>14. \A b \in Actors : tx'[b].mem.current \in StageIds \cup {"DONE"}
  BY <1>11, <1>13 DEF TypeOK, Transactions, Problems
<1>15. \A b \in Actors : StatusSafe(tx[b])'
  BY <1>4, <1>12, <1>14 DEF StatusSafe, NeverPending, Arrives
<1> QED
  BY <1>5, <1>7, <1>10, <1>15 DEF StatusInv

LEMMA InitStatus ==
    ASSUME Origin # "post", Init
    PROVE  StatusInv
PROOF
<1>1. problem.current = IF Origin = "crawl" THEN "IMPORT" ELSE "SPEC"
  BY DEF Init
<1>2. problem.current \in StageIds
  BY <1>1, OrderAssumption DEF StageIds
<1>3. \A s \in StageIds : stages[s] = IF s = problem.current THEN "AWAITING_HUMAN"
                                       ELSE IF s = "IMPORT" THEN "missing" ELSE "PENDING"
  BY DEF Init
<1>4. NonOriginal <=> Origin = "crawl"
  BY OriginAssumption DEF NonOriginal
<1>5. \A s \in Chain : s \in StageIds /\ (s = "IMPORT" => Origin = "crawl")
  BY <1>4, ChainFacts, HeadInChain DEF Chain
<1>6. \A s \in Chain : stages[s] # "missing"
  BY <1>1, <1>3, <1>5
<1>7. stages[problem.current] = "AWAITING_HUMAN"
  BY <1>2, <1>3
<1>8. Opened(problem.current) /\ (NonOriginal => Opened("IMPORT"))
  BY <1>1, <1>4, <1>7 DEF Opened, Status
<1>9. \A a \in Actors : StatusSafe(tx[a])
  BY IdleStatus DEF Init
<1> QED
  BY <1>6, <1>8, <1>9 DEF StatusInv

LEMMA NextStatus ==
    ASSUME Origin # "post", TypeOK, GateInv, StatusInv, [Next]_vars
    PROVE  StatusInv'
PROOF
<1>1. ASSUME NEW r \in Requests, Load(r) \/ Step(r) PROVE StatusInv'
  <2>1. StatusStep(r)
    BY <1>1, LoadStatus, ApproveStageStatus, ApproveNextStatus, RejectStatus,
       DispatchStatus, AgentDoneStatus, RewriteSpecStatus, JobRequestStatus DEF Step
  <2> QED
    BY <2>1, OneStatus DEF Actors
<1>2. ASSUME NEW a \in Actors, Lock(a) \/ DeadlockVictim(a) \/ Commit(a) PROVE StatusInv'
  <2>1. CASE Lock(a)
    BY <2>1, LockStatus, OneStatus
  <2>2. CASE DeadlockVictim(a)
    BY <2>2, RefuseStatus, OneStatus DEF DeadlockVictim
  <2>3. CASE Commit(a)
    BY <2>3, CommitStatus
  <2> QED
    BY <1>2, <2>1, <2>2, <2>3
<1>3. CASE (\E m \in Modes : StressStart(m)) \/ CrawlStart
  BY <1>3, StartStatus, OneStatus DEF Actors, Workers
<1>4. CASE WorkerStep \/ CrawlerStep \/ Bootstrap
  BY <1>4, WorkerStatus, CrawlerStatus, BootstrapStatus, OneStatus
  DEF WorkerStep, Actors, Workers
<1>5. ASSUME NEW w \in Workers, WorkerCrash(w) PROVE StatusInv'
  BY <1>5, RefuseStatus, OneStatus DEF WorkerCrash, Actors
<1>6. CASE Restart
  BY <1>6, RestartStatus
<1>7. CASE UNCHANGED vars
  BY <1>7 DEF StatusInv, StatusSafe, NeverPending, Arrives, Opened, vars
<1> QED
  BY <1>1, <1>2, <1>3, <1>4, <1>5, <1>6, <1>7 DEF Next

(* The stage a crawled or an original problem stands at is open to the      *)
(* human in every state, although it and its row are written by approvals   *)
(* that judged both before they had locked them.                            *)
THEOREM StageOpen ==
    ASSUME Origin # "post"
    PROVE  Spec => []CurrentIsOpen
PROOF
<1>1. Init => StatusInv
  BY InitStatus
<1>2. TypeOK /\ GateInv /\ StatusInv /\ [Next]_vars => StatusInv'
  BY NextStatus
<1>3. StatusInv => CurrentIsOpen
  BY DEF StatusInv, Opened, CurrentIsOpen
<1> QED
  BY <1>1, <1>2, <1>3, TypeCorrect, GatesInvariant, PTL DEF Spec

=============================================================================
