--------------------------- MODULE PipelineProofs ---------------------------
(***************************************************************************)
(* Proofs about the stage pipeline, for every set of requests, every stage *)
(* chain and every bound.                                                  *)
(***************************************************************************)
EXTENDS Pipeline, SequenceTheorems, TLAPS

-----------------------------------------------------------------------------
(* The stage chain. *)

(* The chain is a sequence of distinct stages, none of which is "DONE". *)
LEMMA ChainFacts ==
    /\ Len(StageOrder) \in Nat \ {0}
    /\ \A i \in Positions : StageOrder[i] \in StageIds
    /\ \A i, j \in Positions : StageOrder[i] = StageOrder[j] => i = j
    /\ \A s \in StageIds : s \notin {"DONE", "keep", "problem", "crawl"}
PROOF
<1>1. CASE NonOriginal
  <2>1. StageOrder = <<"IMPORT">> \o M3Order
    BY <1>1 DEF StageOrder
  <2>2. /\ Len(StageOrder) = Len(M3Order) + 1
        /\ StageOrder[1] = "IMPORT"
        /\ \A i \in Positions : i # 1 => i - 1 \in 1..Len(M3Order)
                                         /\ StageOrder[i] = M3Order[i - 1]
    BY <2>1, OrderAssumption DEF Positions
  <2>3. Len(StageOrder) \in Nat \ {0}
    BY <2>2, OrderAssumption
  <2>4. \A i \in Positions : StageOrder[i] \in StageIds
    BY <2>2, <2>3 DEF Positions, StageIds
  <2>5. \A i, j \in Positions : StageOrder[i] = StageOrder[j] => i = j
    <3>1. SUFFICES ASSUME NEW i \in Positions, NEW j \in Positions,
                          StageOrder[i] = StageOrder[j]
                   PROVE  i = j
      OBVIOUS
    <3>2. CASE i # 1 /\ j # 1
      BY <2>2, <2>3, <3>1, <3>2, OrderAssumption DEF Positions
    <3>3. CASE i = 1 \/ j = 1
      BY <2>2, <2>3, <3>1, <3>3, OrderAssumption DEF Positions
    <3> QED
      BY <3>2, <3>3
  <2>6. \A s \in StageIds : s \notin {"DONE", "keep", "problem", "crawl"}
    BY OrderAssumption DEF StageIds
  <2> QED
    BY <2>3, <2>4, <2>5, <2>6
<1>2. CASE ~NonOriginal
  BY <1>2, OrderAssumption DEF StageOrder, Positions, StageIds
<1> QED
  BY <1>1, <1>2

(* The stage after a stage is a stage of the chain, or "DONE". *)
LEMMA NextStageType == \A s : NextStage(s) \in StageIds \cup {"DONE"}
PROOF
  BY ChainFacts DEF NextStage

(* Nothing comes before the head of the chain, nor before IMPORT. *)
LEMMA NothingBeforeHead == Before(StageOrder[1]) = {} /\ Before("IMPORT") = {}
PROOF
<1>1. Before(StageOrder[1]) = {}
  BY ChainFacts DEF Before, Positions
<1>2. Before("IMPORT") = {}
  <2>1. CASE NonOriginal
    <3>1. StageOrder[1] = "IMPORT"
      BY <2>1, OrderAssumption DEF StageOrder
    <3> QED
      BY <3>1, <1>1
  <2>2. CASE ~NonOriginal
    BY <2>2, ChainFacts, OrderAssumption DEF Before, Positions, StageOrder
  <2> QED
    BY <2>1, <2>2
<1> QED
  BY <1>1, <1>2

(* Moving on by one stage adds one stage to those left behind. *)
LEMMA NextStageAddsOne ==
    ASSUME NEW s \in StageIds
    PROVE  Before(NextStage(s)) \subseteq Before(s) \cup {s}
           \/ \A i \in Positions : StageOrder[i] # s
PROOF
<1>1. SUFFICES ASSUME NEW i \in Positions, StageOrder[i] = s
               PROVE  Before(NextStage(s)) \subseteq Before(s) \cup {s}
  OBVIOUS
<1>2. (CHOOSE k \in Positions : StageOrder[k] = s) = i
  BY <1>1, ChainFacts
<1>3. Before(s) = {StageOrder[k] : k \in {m \in Positions : m < i}}
  BY <1>1, ChainFacts DEF Before
<1>4. CASE i + 1 \in Positions
  <2>1. NextStage(s) = StageOrder[i + 1]
    BY <1>1, <1>2, <1>4 DEF NextStage
  <2>2. Before(NextStage(s)) = {StageOrder[k] : k \in {m \in Positions : m < i + 1}}
    BY <1>4, <2>1, ChainFacts DEF Before
  <2> QED
    BY <1>1, <1>3, <2>2, ChainFacts DEF Positions
<1>5. CASE i + 1 \notin Positions
  <2>1. NextStage(s) = "DONE"
    BY <1>1, <1>5, ChainFacts DEF NextStage, Positions
  <2>2. i = Len(StageOrder)
    BY <1>5, ChainFacts DEF Positions
  <2>3. Before(NextStage(s)) = {StageOrder[k] : k \in Positions}
    BY <2>1 DEF Before
  <2> QED
    BY <1>1, <1>3, <2>2, <2>3, ChainFacts DEF Positions
<1> QED
  BY <1>4, <1>5
-----------------------------------------------------------------------------
(* Type correctness. *)

(* The types a transaction's fields are taken from stay folded: the proofs  *)
(* below need that they hold, not what they are.                            *)
LEMMA IdleType == Idle \in Transactions
PROOF
<1>1. Idle.mem \in Problems
  BY DEF Idle, Problems, Specs
<1>2. KeepStages \in [StageIds -> Status \cup {"keep"}]
  BY DEF KeepStages
<1>3. "none" \in CrawlStatus /\ "none" \notin StageOps
  BY DEF CrawlStatus, StageOps
<1> QED
  BY <1>1, <1>2, <1>3 DEF Idle, Transactions

LEMMA LoadedType ==
    ASSUME TypeOK, NEW op \in StageOps \cup SpecOps \cup JobOps \cup {"run", "import", "boot"},
           NEW s \in StageIds \cup Modes \cup {"none"},
           op \in StageOps => s \in StageIds
    PROVE  /\ Loaded(op, s) \in Transactions
           /\ Loaded(op, s).pc = "loaded"
           /\ Loaded(op, s).op = op
           /\ Loaded(op, s).stage = s
           /\ Loaded(op, s).dirty = {}
           /\ Loaded(op, s).held = {}
           /\ Loaded(op, s).todo = << >>
           /\ Loaded(op, s).job \in {"none", crawl}
           /\ op \notin JobOps => Loaded(op, s).job = "none"
           /\ Loaded(op, s).setjob = "keep"
           /\ op = "approve" => Loaded(op, s).mem = problem
PROOF
<1> DEFINE m == IF op \in JobOps \cup {"reject"} THEN Idle.mem ELSE problem
           j == IF op \in JobOps THEN crawl ELSE "none"
           l == [pc |-> "loaded", op |-> op, stage |-> s, mem |-> m, job |-> j,
                 dirty |-> {}, st |-> KeepStages, setjob |-> "keep", enq |-> {},
                 rec |-> "none", todo |-> << >>, held |-> {}]
<1>1. Loaded(op, s) = l
  <2>1. Idle.job = "none"
    BY DEF Idle
  <2>2. Loaded(op, s) = [Idle EXCEPT !.pc = "loaded", !.op = op, !.stage = s,
                                     !.mem = m, !.job = j]
    BY <2>1 DEF Loaded
  <2> HIDE DEF m, j
  <2> QED
    BY <2>2 DEF Idle
<1>2. m \in Problems /\ j \in CrawlStatus
  BY DEF TypeOK, Idle, Problems, Specs, CrawlStatus
<1>3. l \in Transactions
  BY <1>2 DEF Transactions, KeepStages
<1>4. /\ op = "approve" => m = problem
      /\ j \in {"none", crawl}
      /\ op \notin JobOps => j = "none"
  BY DEF JobOps
<1> HIDE DEF m, j
<1> QED
  BY <1>1, <1>3, <1>4

(* Replacing one actor's transaction keeps the type of all of them. *)
LEMMA OneTransaction ==
    ASSUME TypeOK, NEW a \in Actors, NEW t \in Transactions
    PROVE  [tx EXCEPT ![a] = t] \in [Actors -> Transactions]
PROOF
  BY DEF TypeOK

LEMMA InitType == Init => TypeOK
PROOF
<1> SUFFICES ASSUME Init PROVE TypeOK
  OBVIOUS
<1>1. problem \in Problems
  <2>1. "SPEC" \in StageIds /\ "IMPORT" \in StageIds
    BY OrderAssumption DEF StageIds
  <2>2. Idle.mem.spec \in Specs
    BY DEF Idle, Specs
  <2> QED
    BY <2>1, <2>2 DEF Init, Problems
<1>2. stages \in [StageIds -> Status \cup {"missing"}]
  BY DEF Init, Status
<1>3. tx \in [Actors -> Transactions]
  BY IdleType DEF Init
<1>4. gates \subseteq StageIds /\ queue \subseteq Modes /\ crawl \in CrawlStatus
  BY DEF Init, CrawlStatus
<1>5. complete \in BOOLEAN /\ verdict \in {"none", "ok", "fail"}
  BY DEF Init
<1>6. starts \in 0..MaxStarts
  BY BoundAssumption DEF Init
<1> QED
  BY <1>1, <1>2, <1>3, <1>4, <1>5, <1>6 DEF TypeOK

(* Most steps change only one actor's transaction. *)
Others == <<problem, stages, gates, crawl, queue, complete, verdict, starts>>

LEMMA OnlyTransaction ==
    ASSUME TypeOK, UNCHANGED Others, NEW a \in Actors, NEW t \in Transactions,
           tx' = [tx EXCEPT ![a] = t]
    PROVE  TypeOK'
PROOF
  BY DEF TypeOK, Others

LEMMA RefuseType ==
    ASSUME TypeOK, UNCHANGED Others, NEW a \in Actors, Refuse(a)
    PROVE  TypeOK'
PROOF
  BY IdleType, OnlyTransaction DEF Refuse

LEMMA LoadType ==
    ASSUME TypeOK, NEW r \in Requests, Load(r)
    PROVE  TypeOK'
PROOF
<1>1. tx' \in [Actors -> Transactions]
  <2>1. CASE \E op \in StageOps \cap Ops, s \in StageIds :
                tx' = [tx EXCEPT ![r] = Loaded(op, s)]
    <3>1. PICK op \in StageOps \cap Ops, s \in StageIds :
             tx' = [tx EXCEPT ![r] = Loaded(op, s)]
      BY <2>1
    <3>2. Loaded(op, s) \in Transactions
      BY LoadedType
    <3> QED
      BY <3>1, <3>2, OneTransaction DEF Actors
  <2>2. CASE \E op \in (SpecOps \cup JobOps) \cap Ops :
                tx' = [tx EXCEPT ![r] = Loaded(op, "none")]
    <3>1. PICK op \in (SpecOps \cup JobOps) \cap Ops :
             tx' = [tx EXCEPT ![r] = Loaded(op, "none")]
      BY <2>2
    <3>2. Loaded(op, "none") \in Transactions
      BY LoadedType DEF SpecOps, JobOps, StageOps
    <3> QED
      BY <3>1, <3>2, OneTransaction DEF Actors
  <2> QED
    BY <2>1, <2>2 DEF Load
<1>2. starts' \in 0..MaxStarts
  BY BoundAssumption DEF Load, TypeOK
<1> QED
  BY <1>1, <1>2 DEF Load, TypeOK

LEMMA LockType ==
    ASSUME TypeOK, NEW a \in Actors, Lock(a)
    PROVE  TypeOK'
PROOF
<1> DEFINE t == [tx[a] EXCEPT !.todo = Tail(@), !.held = @ \cup {Head(tx[a].todo)}]
<1>1. tx[a] \in Transactions
  BY DEF TypeOK
<1>2. Head(tx[a].todo) \in Rows /\ Tail(tx[a].todo) \in Seq(Rows)
  BY <1>1 DEF Lock, Transactions
<1>3. t \in Transactions
  BY <1>1, <1>2 DEF Transactions
<1>4. tx' = [tx EXCEPT ![a] = t]
  BY <1>1 DEF Lock, TypeOK, Transactions
<1> QED
  BY <1>3, <1>4, OnlyTransaction DEF Lock, Others

LEMMA ApproveStageType ==
    ASSUME TypeOK, NEW r \in Requests, ApproveStage(r)
    PROVE  TypeOK'
PROOF
<1> DEFINE t == tx[r]
           u == [t EXCEPT !.pc = "next", !.mem.current = NextStage(t.stage),
                          !.dirty = {"current"},
                          !.st[t.stage] = IF stages[t.stage] = "APPROVED"
                                          THEN "keep" ELSE "APPROVED",
                          !.todo = <<"problem", t.stage>>]
<1>1. r \in Actors /\ t \in Transactions
  BY DEF TypeOK, Actors
<1>2. CASE tx' = [tx EXCEPT ![r] = u] /\ t.mem.current = t.stage /\ t.pc = "loaded"
           /\ stages[t.stage] # "missing" /\ t.op = "approve"
  <2>1. t.stage \in StageIds
    BY <1>1, <1>2 DEF Transactions, StageOps
  <2>2. <<"problem", t.stage>> \in Seq(Rows)
    BY <2>1 DEF Rows
  <2>3. u \in Transactions
    BY <1>1, <2>1, <2>2, NextStageType DEF Transactions, Problems, Status
  <2> QED
    BY <1>1, <1>2, <2>3, OnlyTransaction DEF ApproveStage, Others
<1>3. CASE Refuse(r)
  BY <1>1, <1>3, RefuseType DEF ApproveStage, Others
<1> QED
  BY <1>2, <1>3 DEF ApproveStage, MayApprove, Checking, Exists

LEMMA ApproveNextType ==
    ASSUME TypeOK, NEW r \in Requests, ApproveNext(r)
    PROVE  TypeOK'
PROOF
<1> DEFINE t == tx[r]
           n == t.mem.current
           u == [t EXCEPT !.pc = "commit", !.st[n] = "AWAITING_HUMAN", !.todo = <<n>>]
           v == [t EXCEPT !.pc = "commit"]
<1>1. r \in Actors /\ t \in Transactions
  BY DEF TypeOK, Actors
<1>2. v \in Transactions
  BY <1>1 DEF Transactions
<1>3. CASE Opens(n)
  <2>1. n \in StageIds
    BY <1>1, <1>3 DEF Transactions, Problems, Opens
  <2>2. <<n>> \in Seq(Rows)
    BY <2>1 DEF Rows
  <2>3. u \in Transactions
    BY <1>1, <2>1, <2>2 DEF Transactions, Status
  <2> QED
    BY <1>1, <1>3, <2>3, OnlyTransaction DEF ApproveNext, Others
<1>4. CASE ~Opens(n)
  BY <1>1, <1>2, <1>4, OnlyTransaction DEF ApproveNext, Others
<1> QED
  BY <1>3, <1>4

LEMMA RejectStageType ==
    ASSUME TypeOK, NEW r \in Requests, RejectStage(r)
    PROVE  TypeOK'
PROOF
<1> DEFINE t == tx[r]
           u == [t EXCEPT !.pc = "commit",
                          !.st[t.stage] = IF stages[t.stage] = "REJECTED"
                                          THEN "keep" ELSE "REJECTED",
                          !.todo = <<t.stage>>]
<1>1. r \in Actors /\ t \in Transactions
  BY DEF TypeOK, Actors
<1>2. CASE Exists(t.stage)
  <2>1. t.stage \in StageIds
    BY <1>1 DEF Transactions, StageOps, RejectStage, Checking
  <2>2. <<t.stage>> \in Seq(Rows)
    BY <2>1 DEF Rows
  <2>3. u \in Transactions
    BY <1>1, <2>1, <2>2 DEF Transactions, Status
  <2> QED
    BY <1>1, <1>2, <2>3, OnlyTransaction DEF RejectStage, Others
<1>3. CASE ~Exists(t.stage)
  BY <1>1, <1>3, RefuseType DEF RejectStage, Others
<1> QED
  BY <1>2, <1>3

(* A transaction that stages a rewrite of spec_json. *)
LEMMA SetSpecType ==
    ASSUME NEW t \in Transactions, NEW spec \in Specs
    PROVE  /\ SetSpec(t, spec) \in Transactions
           /\ SetSpec(t, spec) = [t EXCEPT !.mem = [t.mem EXCEPT !.spec = spec],
                                          !.dirty = t.dirty \cup {"spec"}]
PROOF
  BY DEF SetSpec, Transactions, Problems

(* What transactions that lock the problem row first have to lock. *)
LEMMA LockProblemType ==
    /\ << >> \in Seq(Rows)
    /\ <<"problem">> \in Seq(Rows)
    /\ <<"crawl">> \in Seq(Rows)
    /\ \A s \in StageIds : /\ << >> \o <<s>> \in Seq(Rows) /\ << >> \o <<s>> = <<s>>
                            /\ <<"problem">> \o <<s>> \in Seq(Rows)
                            /\ <<"problem">> \o <<s>> = <<"problem", s>>
PROOF
<1>1. "problem" \in Rows /\ "crawl" \in Rows /\ \A s \in StageIds : s \in Rows
  BY DEF Rows
<1>2. << >> \in Seq(Rows)
  OBVIOUS
<1>3. \A x \in Rows : <<x>> \in Seq(Rows)
  OBVIOUS
<1>4. \A x, y \in Rows : <<x, y>> \in Seq(Rows) /\ <<x>> \o <<y>> = <<x, y>>
  <2> SUFFICES ASSUME NEW x \in Rows, NEW y \in Rows
               PROVE  <<x, y>> \in Seq(Rows) /\ <<x>> \o <<y>> = <<x, y>>
    OBVIOUS
  <2>1. <<x, y>> \in Seq(Rows) /\ <<x>> \o <<y>> \in Seq(Rows)
    OBVIOUS
  <2>2. Len(<<x>> \o <<y>>) = 2 /\ (<<x>> \o <<y>>)[1] = x /\ (<<x>> \o <<y>>)[2] = y
    OBVIOUS
  <2>3. Len(<<x, y>>) = 2 /\ <<x, y>>[1] = x /\ <<x, y>>[2] = y
    OBVIOUS
  <2>4. \A i \in 1..2 : (<<x>> \o <<y>>)[i] = <<x, y>>[i]
    BY <2>2, <2>3
  <2> QED
    BY <2>1, <2>2, <2>3, <2>4, SeqEqual
<1>5. \A x \in Rows : << >> \o <<x>> = <<x>>
  OBVIOUS
<1> QED
  BY <1>1, <1>2, <1>3, <1>4, <1>5

LEMMA DispatchStageType ==
    ASSUME TypeOK, NEW r \in Requests, DispatchStage(r)
    PROVE  TypeOK'
PROOF
<1> DEFINE t == tx[r]
           first == ~t.mem.spec.thread
           u == IF first THEN SetSpec(t, [t.mem.spec EXCEPT !.thread = TRUE]) ELSE t
           lockProblem == IF first THEN <<"problem">> ELSE << >>
           v == [u EXCEPT !.pc = "agent", !.todo = lockProblem \o FlushWorking(t.stage)]
           w == [u EXCEPT !.pc = "commit", !.todo = lockProblem]
<1>1. r \in Actors /\ t \in Transactions
  BY DEF TypeOK, Actors
<1>2. u \in Transactions
  <2>1. [t.mem.spec EXCEPT !.thread = TRUE] \in Specs
    BY <1>1 DEF Transactions, Problems, Specs
  <2> QED
    BY <1>1, <2>1, SetSpecType
<1>3. t.stage \in StageIds
  BY <1>1 DEF Transactions, StageOps, DispatchStage, Checking
<1>4. lockProblem \in Seq(Rows) /\ lockProblem \o FlushWorking(t.stage) \in Seq(Rows)
  BY <1>3, LockProblemType DEF FlushWorking
<1> HIDE DEF u, lockProblem
<1>5. v \in Transactions /\ w \in Transactions
  BY <1>2, <1>4, ZenonT(60) DEF Transactions
<1>6. \/ tx' = [tx EXCEPT ![r] = v] \/ tx' = [tx EXCEPT ![r] = w] \/ Refuse(r)
  BY DEF DispatchStage, u, lockProblem
<1>7. UNCHANGED Others
  BY DEF DispatchStage, Others
<1> HIDE DEF v, w
<1> QED
  BY <1>1, <1>5, <1>6, <1>7, OnlyTransaction, RefuseType

(* Setting fields to values of their types keeps the type of a transaction. *)
LEMMA SetStatusType ==
    ASSUME NEW t \in Transactions, NEW st \in [StageIds -> Status \cup {"keep"}]
    PROVE  [t EXCEPT !.st = st] \in Transactions
PROOF
  BY DEF Transactions

LEMMA SetWritesType ==
    ASSUME NEW t \in Transactions, NEW enq \in SUBSET Modes, NEW todo \in Seq(Rows)
    PROVE  [t EXCEPT !.pc = "commit", !.enq = enq, !.todo = todo] \in Transactions
PROOF
  BY DEF Transactions

LEMMA AnsweredType ==
    ASSUME NEW t \in Transactions, NEW enq \in SUBSET Modes
    PROVE  Answered(t, enq) \in Transactions
PROOF
<1> DEFINE u == IF AgentWrites(t.stage, enq) THEN SetSpec(t, t.mem.spec) ELSE t
           todo == IF "spec" \in u.dirty THEN <<"problem">> ELSE << >>
           st == [u.st EXCEPT ![t.stage] = AfterAgent]
           u1 == [u EXCEPT !.st = st]
           v == [u1 EXCEPT !.pc = "commit", !.enq = enq, !.todo = todo]
<1>1. u \in Transactions
  <2>1. t.mem.spec \in Specs
    BY DEF Transactions, Problems
  <2> QED
    BY <2>1, SetSpecType
<1>2. todo \in Seq(Rows)
  BY LockProblemType
<1>3. Answered(t, enq) = v
  BY DEF Answered
<1> HIDE DEF u, todo
<1>4. u1 \in Transactions
  <2>1. st \in [StageIds -> Status \cup {"keep"}]
    BY <1>1 DEF Transactions, AfterAgent, Status
  <2> HIDE DEF st
  <2> QED
    BY <1>1, <2>1, SetStatusType
<1> HIDE DEF u1
<1>5. v \in Transactions
  BY <1>2, <1>4, SetWritesType
<1> QED
  BY <1>3, <1>5

LEMMA AgentDoneType ==
    ASSUME TypeOK, NEW r \in Requests, AgentDone(r)
    PROVE  TypeOK'
PROOF
<1>1. r \in Actors /\ tx[r] \in Transactions
  BY DEF TypeOK, Actors
<1>2. PICK enq \in SUBSET Modes : tx' = [tx EXCEPT ![r] = Answered(tx[r], enq)]
  BY DEF AgentDone, Modes
<1> QED
  BY <1>1, <1>2, AnsweredType, OnlyTransaction DEF AgentDone, Others

LEMMA RewriteSpecType ==
    ASSUME TypeOK, NEW r \in Requests, RewriteSpec(r)
    PROVE  TypeOK'
PROOF
<1> DEFINE t == tx[r]
           spec == IF t.op = "confirm" THEN [t.mem.spec EXCEPT !.confirmed = TRUE]
                                       ELSE t.mem.spec
           enq == IF t.op = "check" THEN {"import_check"} ELSE {}
           u == SetSpec(t, spec)
           v == [u EXCEPT !.pc = "commit", !.todo = <<"problem">>, !.enq = enq]
<1>1. r \in Actors /\ t \in Transactions
  BY DEF TypeOK, Actors
<1>2. spec \in Specs
  BY <1>1 DEF Transactions, Problems, Specs
<1>3. u \in Transactions
  BY <1>1, <1>2, SetSpecType
<1>4. enq \in SUBSET Modes /\ <<"problem">> \in Seq(Rows)
  BY LockProblemType DEF Modes
<1>5. tx' = [tx EXCEPT ![r] = v] \/ Refuse(r)
  BY DEF RewriteSpec
<1> HIDE DEF u, enq
<1>6. v \in Transactions
  BY <1>3, <1>4 DEF Transactions
<1>7. UNCHANGED Others
  BY DEF RewriteSpec, Others
<1> HIDE DEF v
<1> QED
  BY <1>1, <1>5, <1>6, <1>7, OnlyTransaction, RefuseType

LEMMA JobRequestType ==
    ASSUME TypeOK, NEW r \in Requests, JobRequest(r)
    PROVE  TypeOK'
PROOF
<1> DEFINE t == tx[r]
           becomes == IF t.op = "cancel" /\ t.job = "queued" THEN "cancelled"
                      ELSE IF t.op = "retry" /\ t.job \in {"failed", "cancelled"} THEN "queued"
                      ELSE "keep"
           u == [t EXCEPT !.pc = "commit", !.enq = {"stress"}]
           v == [t EXCEPT !.pc = "commit", !.setjob = becomes, !.todo = <<"crawl">>]
<1>1. r \in Actors /\ t \in Transactions
  BY DEF TypeOK, Actors
<1>2. becomes \in CrawlStatus \cup {"keep"}
  BY DEF CrawlStatus
<1>3. <<"crawl">> \in Seq(Rows)
  BY LockProblemType
<1>4. u \in Transactions
  BY <1>1 DEF Transactions, Modes
<1>5. \/ tx' = [tx EXCEPT ![r] = u] \/ tx' = [tx EXCEPT ![r] = v] \/ Refuse(r)
  BY DEF JobRequest
<1> HIDE DEF becomes
<1>6. v \in Transactions
  BY <1>1, <1>2, <1>3 DEF Transactions
<1>7. UNCHANGED Others
  BY DEF JobRequest, Others
<1> HIDE DEF u, v
<1> QED
  BY <1>1, <1>4, <1>5, <1>6, <1>7, OnlyTransaction, RefuseType

LEMMA StressStartType ==
    ASSUME TypeOK, NEW m \in Modes, StressStart(m)
    PROVE  TypeOK'
PROOF
<1> DEFINE l == Loaded("run", m)
<1>1. l \in Transactions
  BY LoadedType DEF StageOps
<1> HIDE DEF l
<1>2. [l EXCEPT !.pc = "agent"] \in Transactions
  BY <1>1 DEF Transactions
<1> QED
  BY <1>2, OnlyTransaction DEF StressStart, Others, Actors, Workers, l

(* A transaction that has a report to write goes to its commit. *)
LEMMA ReportType ==
    ASSUME NEW v \in Transactions, NEW todo \in Seq(Rows), NEW rec \in {"none", "ok", "fail"}
    PROVE  [v EXCEPT !.pc = "commit", !.todo = todo, !.rec = rec] \in Transactions
PROOF
  BY ZenonT(60) DEF Transactions

LEMMA StressDoneType ==
    ASSUME TypeOK, NEW ok \in BOOLEAN, NEW fails \in BOOLEAN, NEW wrote \in BOOLEAN,
           StressDone(ok, fails, wrote)
    PROVE  TypeOK'
PROOF
<1> DEFINE t == tx["worker"]
           records == t.stage = "import_check" /\ ~fails
           spec == IF records THEN [t.mem.spec EXCEPT !.checkOk = ok] ELSE t.mem.spec
           rec == IF ~records THEN "none" ELSE IF ok THEN "ok" ELSE "fail"
           u == [t EXCEPT !.pc = "commit"]
           v == SetSpec(t, spec)
           w == [v EXCEPT !.pc = "commit", !.todo = <<"problem">>, !.rec = rec]
<1>1. "worker" \in Actors /\ t \in Transactions
  BY DEF TypeOK, Actors, Workers
<1>2. spec \in Specs
  BY <1>1 DEF Transactions, Problems, Specs
<1>3. v \in Transactions
  BY <1>1, <1>2, SetSpecType
<1>4. rec \in {"none", "ok", "fail"} /\ <<"problem">> \in Seq(Rows)
  BY LockProblemType
<1>5. u \in Transactions
  BY <1>1 DEF Transactions
<1>6. tx' = [tx EXCEPT !["worker"] = u] \/ tx' = [tx EXCEPT !["worker"] = w]
  BY DEF StressDone
<1> HIDE DEF t, records, spec, rec, u, v
<1>7. w \in Transactions
  BY <1>3, <1>4, ReportType
<1>8. UNCHANGED Others
  BY DEF StressDone, Others
<1> HIDE DEF w
<1> QED
  BY <1>1, <1>5, <1>6, <1>7, <1>8, OnlyTransaction

LEMMA CrawlStartType ==
    ASSUME TypeOK, CrawlStart
    PROVE  TypeOK'
PROOF
<1> DEFINE l == Loaded("import", "none")
<1>1. l \in Transactions
  BY LoadedType DEF StageOps
<1> HIDE DEF l
<1>2. [l EXCEPT !.pc = "agent", !.todo = <<"crawl">>] \in Transactions
  BY <1>1, LockProblemType DEF Transactions
<1> QED
  BY <1>2, OnlyTransaction DEF CrawlStart, Others, Actors, Workers, l

(* A transaction that stages a move of current_stage to IMPORT. *)
LEMMA MoveBackType ==
    ASSUME NEW t \in Transactions
    PROVE  [t EXCEPT !.mem.current = "IMPORT", !.dirty = t.dirty \cup {"current"}]
              \in Transactions
PROOF
<1>1. [t.mem EXCEPT !.current = "IMPORT"] \in Problems
  BY DEF Transactions, Problems, StageIds
<1> QED
  BY <1>1 DEF Transactions

LEMMA SetJobType ==
    ASSUME NEW t \in Transactions, NEW status \in CrawlStatus
    PROVE  [t EXCEPT !.setjob = status] \in Transactions
PROOF
  BY DEF Transactions

LEMMA CrawlDoneType ==
    ASSUME TypeOK, NEW hasStd \in BOOLEAN, CrawlDone(hasStd)
    PROVE  TypeOK'
PROOF
<1> DEFINE t == tx["crawler"]
           spec == [t.mem.spec EXCEPT !.imported = TRUE, !.confirmed = FALSE]
           u == IF hasStd \/ spec # t.mem.spec THEN SetSpec(t, spec) ELSE t
           back == t.mem.current # "IMPORT"
           v == IF back
                THEN [u EXCEPT !.mem.current = "IMPORT", !.dirty = u.dirty \cup {"current"}]
                ELSE u
           enq == IF hasStd THEN {"import_check"} ELSE {}
           todo == IF v.dirty # {} THEN <<"problem">> ELSE << >>
           d == [v EXCEPT !.setjob = "done"]
           w == [d EXCEPT !.pc = "commit", !.enq = enq, !.todo = todo]
<1>1. "crawler" \in Actors /\ t \in Transactions
  BY DEF TypeOK, Actors, Workers
<1>2. u \in Transactions
  <2>1. spec \in Specs
    BY <1>1 DEF Transactions, Problems, Specs
  <2> HIDE DEF spec
  <2> QED
    BY <1>1, <2>1, SetSpecType
<1>3. tx' = [tx EXCEPT !["crawler"] = w]
  BY <1>1 DEF CrawlDone
<1> HIDE DEF u
<1>4. v \in Transactions
  BY <1>2, MoveBackType
<1>5. enq \in SUBSET Modes /\ todo \in Seq(Rows)
  BY LockProblemType DEF Modes
<1> HIDE DEF v, enq, todo
<1>6. d \in Transactions
  BY <1>4, SetJobType DEF CrawlStatus
<1> HIDE DEF d
<1>7. w \in Transactions
  BY <1>5, <1>6, SetWritesType
<1> HIDE DEF w
<1> QED
  BY <1>1, <1>3, <1>7, OnlyTransaction DEF CrawlDone, Others

LEMMA CrawlFailType ==
    ASSUME TypeOK, CrawlFail
    PROVE  TypeOK'
PROOF
<1> DEFINE t == tx["crawler"]
           d == [t EXCEPT !.setjob = "failed"]
           u == [d EXCEPT !.pc = "commit"]
<1>1. "crawler" \in Actors /\ t \in Transactions
  BY DEF TypeOK, Actors, Workers
<1>2. d \in Transactions
  BY <1>1, SetJobType DEF CrawlStatus
<1>3. tx' = [tx EXCEPT !["crawler"] = u]
  BY <1>1 DEF CrawlFail, TypeOK, Transactions
<1> HIDE DEF d
<1>4. u \in Transactions
  BY <1>2 DEF Transactions
<1> HIDE DEF u
<1> QED
  BY <1>1, <1>3, <1>4, OnlyTransaction DEF CrawlFail, Others

LEMMA RestartType ==
    ASSUME TypeOK, Restart
    PROVE  TypeOK'
PROOF
<1>1. Loaded("boot", "none") \in Transactions
  BY LoadedType DEF StageOps
<1>2. tx' \in [Actors -> Transactions]
  BY <1>1, IdleType DEF Restart, TypeOK
<1>3. starts' \in 0..MaxStarts
  BY BoundAssumption DEF Restart, TypeOK
<1> QED
  BY <1>2, <1>3 DEF Restart, TypeOK

LEMMA BootstrapType ==
    ASSUME TypeOK, Bootstrap
    PROVE  TypeOK'
PROOF
<1> DEFINE t == tx["boot"]
           missing == {s \in StageIds : ~Exists(s)}
           back == t.mem.current = "SPEC"
           u == IF missing # {} THEN SetSpec(t, t.mem.spec) ELSE t
           v == IF back
                THEN [u EXCEPT !.mem.current = "IMPORT", !.dirty = u.dirty \cup {"current"}]
                ELSE u
           reopen == back /\ Exists("IMPORT") /\ stages["IMPORT"] # "AWAITING_HUMAN"
           st == [s \in StageIds |->
                     IF s \in missing THEN "PENDING"
                     ELSE IF s = "IMPORT" /\ reopen THEN "AWAITING_HUMAN"
                     ELSE "keep"]
           lockProblem == IF v.dirty # {} THEN <<"problem">> ELSE << >>
           lockImport == IF reopen THEN <<"IMPORT">> ELSE << >>
           todo == lockProblem \o lockImport
           w == [v EXCEPT !.pc = "commit", !.st = st, !.todo = todo]
           x == [t EXCEPT !.pc = "commit"]
<1>1. "boot" \in Actors /\ t \in Transactions
  BY DEF TypeOK, Actors, Workers
<1>2. u \in Transactions
  <2>1. t.mem.spec \in Specs
    BY <1>1 DEF Transactions, Problems
  <2> QED
    BY <1>1, <2>1, SetSpecType
<1>3. tx' = [tx EXCEPT !["boot"] = w] \/ tx' = [tx EXCEPT !["boot"] = x]
  BY DEF Bootstrap
<1> HIDE DEF u
<1>4. v \in Transactions
  BY <1>2, MoveBackType
<1>5. todo \in Seq(Rows)
  <2>1. <<"IMPORT">> \in Seq(Rows)
    <3>1. "IMPORT" \in Rows
      BY DEF Rows, StageIds
    <3> QED
      BY <3>1
  <2>2. lockProblem \in Seq(Rows) /\ lockImport \in Seq(Rows)
    BY <2>1, LockProblemType
  <2> HIDE DEF lockProblem, lockImport
  <2> QED
    BY <2>2
<1>6. st \in [StageIds -> Status \cup {"keep"}]
  BY DEF Status
<1>7. x \in Transactions
  BY <1>1 DEF Transactions
<1> HIDE DEF v, todo, st
<1>8. w \in Transactions
  BY <1>4, <1>5, <1>6 DEF Transactions
<1> HIDE DEF w, x
<1> QED
  BY <1>1, <1>3, <1>7, <1>8, OnlyTransaction DEF Bootstrap, Others

LEMMA CommitType ==
    ASSUME TypeOK, NEW a \in Actors, Commit(a)
    PROVE  TypeOK'
PROOF
<1> DEFINE t == tx[a]
<1>1. t \in Transactions
  BY DEF TypeOK
<1>2. problem' \in Problems
  BY <1>1 DEF Commit, Committed, TypeOK, Transactions, Problems
<1>3. stages' \in [StageIds -> Status \cup {"missing"}]
  BY <1>1 DEF Commit, TypeOK, Transactions
<1>4. gates' \subseteq StageIds
  BY <1>1 DEF Commit, TypeOK, Transactions, StageOps
<1>5. crawl' \in CrawlStatus
  BY <1>1 DEF Commit, TypeOK, Transactions
<1>6. queue' \subseteq Modes
  BY <1>1 DEF Commit, TypeOK, Transactions
<1>7. tx' \in [Actors -> Transactions]
  BY IdleType, OneTransaction DEF Commit
<1>8. complete' \in BOOLEAN
  BY DEF Commit, TypeOK, AllGatesOpen
<1>9. verdict' \in {"none", "ok", "fail"}
  BY <1>1 DEF Commit, TypeOK, Transactions
<1>10. starts' \in 0..MaxStarts
  BY DEF Commit, TypeOK
<1> QED
  BY <1>2, <1>3, <1>4, <1>5, <1>6, <1>7, <1>8, <1>9, <1>10 DEF TypeOK

LEMMA NextType ==
    ASSUME TypeOK, [Next]_vars
    PROVE  TypeOK'
PROOF
<1>1. CASE \E r \in Requests : Load(r)
  BY <1>1, LoadType
<1>2. ASSUME NEW r \in Requests, Step(r) PROVE TypeOK'
  BY <1>2, ApproveStageType, ApproveNextType, RejectStageType, DispatchStageType,
     AgentDoneType, RewriteSpecType, JobRequestType DEF Step
<1>3. ASSUME NEW a \in Actors, Lock(a) \/ DeadlockVictim(a) \/ Commit(a) PROVE TypeOK'
  <2>1. CASE DeadlockVictim(a)
    BY <2>1, RefuseType DEF DeadlockVictim, Others
  <2> QED
    BY <1>3, <2>1, LockType, CommitType
<1>4. CASE WorkerStep \/ \E m \in Modes : StressStart(m)
  BY <1>4, StressStartType, StressDoneType DEF WorkerStep
<1>5. CASE CrawlStart \/ CrawlerStep
  BY <1>5, CrawlStartType, CrawlDoneType, CrawlFailType DEF CrawlerStep
<1>6. ASSUME NEW w \in Workers, WorkerCrash(w) PROVE TypeOK'
  BY <1>6, RefuseType DEF WorkerCrash, Others, Actors
<1>7. CASE Restart \/ Bootstrap
  BY <1>7, RestartType, BootstrapType
<1>8. CASE UNCHANGED vars
  BY <1>8 DEF TypeOK, vars
<1> QED
  BY <1>1, <1>2, <1>3, <1>4, <1>5, <1>6, <1>7, <1>8 DEF Next

(* Every reachable state is well formed: the rows, the open transactions   *)
(* of every actor and the locks they hold.                                 *)
THEOREM TypeCorrect == Spec => []TypeOK
PROOF
<1> QED
  BY InitType, NextType, PTL DEF Spec

-----------------------------------------------------------------------------
(* The gates. An approval that is under way has seen the stages before its  *)
(* own approved, leaves that stage for the next one, and approves IMPORT    *)
(* only on evidence; any other transaction that moves current_stage moves   *)
(* it to IMPORT, where nothing comes before, and only problems that have    *)
(* that stage have a crawl job. Approvals and evidence only grow.           *)

Chain == {StageOrder[i] : i \in Positions}

(* A problem created by the plain route starts behind the IMPORT gate. *)
Passed(c) == Origin # "post" => Before(c) \subseteq gates

MovesSafely(t) ==
    /\ t.op = "approve" =>
          \/ /\ t.pc = "loaded"
             /\ t.dirty = {}
             /\ t.mem.current \in Chain \cup {"DONE"}
             /\ Passed(t.mem.current)
             /\ AllGatesOpen(t.mem) => complete
          \/ /\ t.pc \in {"next", "commit"}
             /\ t.dirty = {"current"}
             /\ t.stage \in Chain
             /\ t.mem.current = NextStage(t.stage)
             /\ Passed(t.stage)
             /\ t.stage = "IMPORT" => complete
    /\ t.op # "approve" /\ "current" \in t.dirty => NonOriginal /\ t.mem.current = "IMPORT"
    /\ t.job # "none" \/ t.setjob # "keep" => NonOriginal

RowsSafe ==
    /\ problem.current \in Chain \cup {"DONE"}
    /\ Passed(problem.current)
    /\ \A s \in gates : Passed(s)
    /\ AllGatesOpen(problem) => complete
    /\ ImportEvidence
    /\ crawl # "none" => NonOriginal

GateInv ==
    /\ RowsSafe
    /\ \A a \in Actors : MovesSafely(tx[a])
    /\ NonOriginal \/ tx["crawler"] = Idle

(* The part of the state the invariant speaks of, beside the transactions. *)
rows == <<problem, gates, crawl, complete>>

LEMMA ChainNext == \A s : NextStage(s) \in Chain \cup {"DONE"}
PROOF
  BY ChainFacts DEF NextStage, Chain

LEMMA HeadInChain ==
    /\ StageOrder[1] \in Chain
    /\ NonOriginal => StageOrder[1] = "IMPORT"
    /\ ~NonOriginal => StageOrder[1] = "SPEC" /\ "IMPORT" \notin Chain
PROOF
<1>1. 1 \in Positions
  BY ChainFacts DEF Positions
<1>2. NonOriginal => StageOrder[1] = "IMPORT"
  BY OrderAssumption DEF StageOrder
<1>3. ~NonOriginal => StageOrder[1] = "SPEC" /\ "IMPORT" \notin Chain
  BY OrderAssumption DEF StageOrder, Chain, Positions
<1> QED
  BY <1>1, <1>2, <1>3 DEF Chain

LEMMA SpecInChain == "SPEC" \in Chain
PROOF
<1>1. CASE NonOriginal
  <2>1. StageOrder = <<"IMPORT">> \o M3Order
    BY <1>1 DEF StageOrder
  <2>2. 2 \in 1..Len(StageOrder) /\ StageOrder[2] = "SPEC"
    BY <2>1, OrderAssumption
  <2> QED
    BY <2>2 DEF Chain, Positions
<1>2. CASE ~NonOriginal
  BY <1>2, HeadInChain
<1> QED
  BY <1>1, <1>2

LEMMA IdleMoves == MovesSafely(Idle)
PROOF
  BY DEF MovesSafely, Idle

LEMMA InitGate ==
    ASSUME Init
    PROVE  GateInv
PROOF
<1>1. problem.current = IF Origin = "crawl" THEN "IMPORT" ELSE "SPEC"
  BY DEF Init
<1>2. problem.current \in Chain
  BY <1>1, HeadInChain, SpecInChain DEF NonOriginal
<1>3. Passed(problem.current)
  <2>1. CASE Origin # "post"
    BY <1>1, <2>1, NothingBeforeHead, HeadInChain, OriginAssumption DEF NonOriginal, Passed
  <2> QED
    BY <2>1 DEF Passed
<1>4. ~AllGatesOpen(problem) /\ ImportEvidence /\ gates = {}
  BY DEF Init, Idle, AllGatesOpen, ImportEvidence
<1>5. crawl # "none" => NonOriginal
  BY DEF Init, NonOriginal
<1>6. \A a \in Actors : tx[a] = Idle
  BY DEF Init
<1> QED
  BY <1>2, <1>3, <1>4, <1>5, <1>6, IdleMoves DEF GateInv, RowsSafe, Actors, Workers

(* A step of one transaction that leaves the rows alone. *)
LEMMA OneMoves ==
    ASSUME TypeOK, GateInv, UNCHANGED rows, NEW a \in Actors, NEW t,
           tx' = [tx EXCEPT ![a] = t], MovesSafely(t),
           a = "crawler" => NonOriginal \/ t = Idle
    PROVE  GateInv'
PROOF
<1>1. \A b \in Actors : MovesSafely(tx'[b])
  BY DEF TypeOK, GateInv
<1>2. \A b \in Actors : MovesSafely(tx[b])'
  BY <1>1 DEF MovesSafely, Passed, AllGatesOpen, rows
<1>3. RowsSafe'
  BY DEF GateInv, RowsSafe, Passed, AllGatesOpen, ImportEvidence, rows
<1>4. NonOriginal \/ tx'["crawler"] = Idle
  BY DEF TypeOK, GateInv, Actors, Workers
<1> QED
  BY <1>2, <1>3, <1>4 DEF GateInv

LEMMA RequestsNotCrawler == \A r \in Requests : r # "crawler" /\ r \in Actors
PROOF
  BY ActorsAssumption DEF Actors, Workers

LEMMA RefuseMoves ==
    ASSUME TypeOK, GateInv, UNCHANGED rows, NEW a \in Actors, Refuse(a)
    PROVE  GateInv'
PROOF
  BY IdleMoves, OneMoves DEF Refuse

LEMMA SetSpecFields ==
    ASSUME NEW t \in Transactions, NEW spec \in Specs
    PROVE  /\ SetSpec(t, spec).op = t.op
           /\ SetSpec(t, spec).pc = t.pc
           /\ SetSpec(t, spec).stage = t.stage
           /\ SetSpec(t, spec).mem.current = t.mem.current
           /\ SetSpec(t, spec).job = t.job
           /\ SetSpec(t, spec).setjob = t.setjob
           /\ SetSpec(t, spec).dirty = t.dirty \cup {"spec"}
PROOF
  BY DEF SetSpec, Transactions, Problems

LEMMA LoadMoves ==
    ASSUME TypeOK, GateInv, NEW r \in Requests, Load(r)
    PROVE  GateInv'
PROOF
<1>1. PICK op \in StageOps \cup SpecOps \cup JobOps, s \in StageIds \cup {"none"} :
         /\ op \in StageOps => s \in StageIds
         /\ tx' = [tx EXCEPT ![r] = Loaded(op, s)]
  BY DEF Load, StageOps, SpecOps, JobOps
<1> DEFINE l == Loaded(op, s)
<1>2. /\ l.op = op /\ l.pc = "loaded" /\ l.dirty = {} /\ l.setjob = "keep"
      /\ op = "approve" => l.mem = problem
      /\ l.job \in {"none", crawl}
  BY <1>1, LoadedType
<1>3. RowsSafe
  BY DEF GateInv
<1> HIDE DEF l
<1>4. MovesSafely(l)
  BY <1>2, <1>3 DEF MovesSafely, RowsSafe
<1>5. UNCHANGED rows
  BY DEF Load, rows
<1> QED
  BY <1>1, <1>4, <1>5, RequestsNotCrawler, OneMoves DEF l

LEMMA LockMoves ==
    ASSUME TypeOK, GateInv, NEW a \in Actors, Lock(a)
    PROVE  GateInv'
PROOF
<1> DEFINE t == [tx[a] EXCEPT !.todo = Tail(@), !.held = @ \cup {Head(tx[a].todo)}]
<1>1. tx[a] \in Transactions /\ MovesSafely(tx[a])
  BY DEF TypeOK, GateInv
<1>2. tx' = [tx EXCEPT ![a] = t]
  BY <1>1 DEF Lock, TypeOK, Transactions
<1>3. MovesSafely(t)
  <2>1. /\ t.op = tx[a].op /\ t.pc = tx[a].pc /\ t.stage = tx[a].stage
        /\ t.mem = tx[a].mem /\ t.dirty = tx[a].dirty
        /\ t.job = tx[a].job /\ t.setjob = tx[a].setjob
    BY <1>1 DEF Transactions
  <2> HIDE DEF t
  <2> QED
    BY <1>1, <2>1 DEF MovesSafely
<1>4. a = "crawler" => NonOriginal
  BY DEF GateInv, Lock, Idle
<1>5. UNCHANGED rows
  BY DEF Lock, rows
<1> HIDE DEF t
<1> QED
  BY <1>2, <1>3, <1>4, <1>5, OneMoves

LEMMA ApproveStageMoves ==
    ASSUME TypeOK, GateInv, NEW r \in Requests, ApproveStage(r)
    PROVE  GateInv'
PROOF
<1> DEFINE t == tx[r]
           u == [t EXCEPT !.pc = "next", !.mem.current = NextStage(t.stage),
                          !.dirty = {"current"},
                          !.st[t.stage] = IF stages[t.stage] = "APPROVED"
                                          THEN "keep" ELSE "APPROVED",
                          !.todo = <<"problem", t.stage>>]
<1>1. /\ r \in Actors /\ r # "crawler" /\ UNCHANGED rows
      /\ t \in Transactions /\ MovesSafely(t)
  BY RequestsNotCrawler DEF TypeOK, GateInv, ApproveStage, rows
<1>2. CASE tx' = [tx EXCEPT ![r] = u] /\ MayApprove(t)
  <2>1. t.op = "approve" /\ t.pc = "loaded" /\ t.mem.current = t.stage
    BY <1>2 DEF ApproveStage, Checking, MayApprove
  <2>2. t.stage \in StageIds /\ t.stage # "DONE"
    BY <1>1, <2>1, ChainFacts DEF Transactions, StageOps
  <2>3. /\ Passed(t.stage)
        /\ t.stage \in Chain
        /\ AllGatesOpen(t.mem) => complete
        /\ t.job # "none" \/ t.setjob # "keep" => NonOriginal
    BY <1>1, <2>1, <2>2 DEF MovesSafely
  <2>4. t.stage = "IMPORT" => complete
    BY <1>2, <2>3, HeadInChain DEF MayApprove, ValidateApprove, AllGatesOpen
  <2>5. /\ u.op = "approve" /\ u.pc = "next" /\ u.stage = t.stage
        /\ u.mem.current = NextStage(t.stage) /\ u.dirty = {"current"}
        /\ u.job = t.job /\ u.setjob = t.setjob
    BY <1>1, <2>1 DEF Transactions, Problems
  <2> HIDE DEF u
  <2>6. MovesSafely(u)
    BY <2>3, <2>4, <2>5 DEF MovesSafely
  <2> QED
    BY <1>1, <1>2, <2>6, OneMoves
<1>3. CASE Refuse(r)
  BY <1>1, <1>3, RefuseMoves
<1> QED
  BY <1>2, <1>3 DEF ApproveStage

LEMMA ApproveNextMoves ==
    ASSUME TypeOK, GateInv, NEW r \in Requests, ApproveNext(r)
    PROVE  GateInv'
PROOF
<1> DEFINE t == tx[r]
           n == t.mem.current
           u == [t EXCEPT !.pc = "commit", !.st[n] = "AWAITING_HUMAN", !.todo = <<n>>]
           v == [t EXCEPT !.pc = "commit"]
<1>1. /\ r \in Actors /\ r # "crawler" /\ UNCHANGED rows
      /\ t \in Transactions /\ MovesSafely(t) /\ t.pc = "next"
  BY RequestsNotCrawler DEF TypeOK, GateInv, ApproveNext, rows
<1>2. tx' = [tx EXCEPT ![r] = u] \/ tx' = [tx EXCEPT ![r] = v]
  BY DEF ApproveNext
<1>3. /\ u.op = t.op /\ u.pc = "commit" /\ u.stage = t.stage
      /\ u.mem = t.mem /\ u.dirty = t.dirty
      /\ u.job = t.job /\ u.setjob = t.setjob
      /\ v.op = t.op /\ v.pc = "commit" /\ v.stage = t.stage
      /\ v.mem = t.mem /\ v.dirty = t.dirty
      /\ v.job = t.job /\ v.setjob = t.setjob
  BY <1>1 DEF Transactions
<1> HIDE DEF u, v
<1>4. MovesSafely(u) /\ MovesSafely(v)
  BY <1>1, <1>3 DEF MovesSafely
<1> QED
  BY <1>1, <1>2, <1>4, OneMoves

LEMMA RejectStageMoves ==
    ASSUME TypeOK, GateInv, NEW r \in Requests, RejectStage(r)
    PROVE  GateInv'
PROOF
<1> DEFINE t == tx[r]
           u == [t EXCEPT !.pc = "commit",
                          !.st[t.stage] = IF stages[t.stage] = "REJECTED"
                                          THEN "keep" ELSE "REJECTED",
                          !.todo = <<t.stage>>]
<1>1. /\ r \in Actors /\ r # "crawler" /\ UNCHANGED rows
      /\ t \in Transactions /\ MovesSafely(t) /\ t.op = "reject"
  BY RequestsNotCrawler DEF TypeOK, GateInv, RejectStage, Checking, rows
<1>2. tx' = [tx EXCEPT ![r] = u] \/ Refuse(r)
  BY DEF RejectStage
<1>3. /\ u.op = t.op /\ u.mem = t.mem /\ u.dirty = t.dirty
      /\ u.job = t.job /\ u.setjob = t.setjob
  BY <1>1 DEF Transactions
<1> HIDE DEF u
<1>4. MovesSafely(u)
  BY <1>1, <1>3 DEF MovesSafely
<1> QED
  BY <1>1, <1>2, <1>4, OneMoves, RefuseMoves

LEMMA DispatchStageMoves ==
    ASSUME TypeOK, GateInv, NEW r \in Requests, DispatchStage(r)
    PROVE  GateInv'
PROOF
<1> DEFINE t == tx[r]
           first == ~t.mem.spec.thread
           spec == [t.mem.spec EXCEPT !.thread = TRUE]
           u == IF first THEN SetSpec(t, spec) ELSE t
           lockProblem == IF first THEN <<"problem">> ELSE << >>
           v == [u EXCEPT !.pc = "agent", !.todo = lockProblem \o FlushWorking(t.stage)]
           w == [u EXCEPT !.pc = "commit", !.todo = lockProblem]
<1>1. /\ r \in Actors /\ r # "crawler" /\ UNCHANGED rows
      /\ t \in Transactions /\ MovesSafely(t) /\ t.op # "approve"
  BY RequestsNotCrawler DEF TypeOK, GateInv, DispatchStage, Checking, rows
<1>2. spec \in Specs
  BY <1>1 DEF Transactions, Problems, Specs
<1>3. /\ u.op = t.op /\ u.mem.current = t.mem.current
      /\ u.dirty = t.dirty \/ u.dirty = t.dirty \cup {"spec"}
      /\ u.job = t.job /\ u.setjob = t.setjob
  BY <1>1, <1>2, SetSpecFields
<1>4. u \in Transactions
  BY <1>1, <1>2, SetSpecType
<1>5. \/ tx' = [tx EXCEPT ![r] = v] \/ tx' = [tx EXCEPT ![r] = w] \/ Refuse(r)
  BY DEF DispatchStage
<1> HIDE DEF u, lockProblem
<1>6. /\ v.op = u.op /\ v.mem = u.mem /\ v.dirty = u.dirty
      /\ v.job = u.job /\ v.setjob = u.setjob
      /\ w.op = u.op /\ w.mem = u.mem /\ w.dirty = u.dirty
      /\ w.job = u.job /\ w.setjob = u.setjob
  BY <1>4 DEF Transactions
<1> HIDE DEF v, w
<1>7. MovesSafely(v) /\ MovesSafely(w)
  BY <1>1, <1>3, <1>6 DEF MovesSafely
<1> QED
  BY <1>1, <1>5, <1>7, OneMoves, RefuseMoves

LEMMA AgentDoneMoves ==
    ASSUME TypeOK, GateInv, NEW r \in Requests, AgentDone(r)
    PROVE  GateInv'
PROOF
<1> DEFINE t == tx[r]
<1>1. /\ r \in Actors /\ r # "crawler" /\ UNCHANGED rows
      /\ t \in Transactions /\ MovesSafely(t)
  BY RequestsNotCrawler DEF TypeOK, GateInv, AgentDone, rows
<1>2. t.op # "approve"
  BY <1>1 DEF AgentDone, MovesSafely
<1>3. PICK enq \in SUBSET Modes : tx' = [tx EXCEPT ![r] = Answered(t, enq)]
  BY DEF AgentDone, Modes
<1> DEFINE u == IF AgentWrites(t.stage, enq) THEN SetSpec(t, t.mem.spec) ELSE t
           todo == IF "spec" \in u.dirty THEN <<"problem">> ELSE << >>
           st == [u.st EXCEPT ![t.stage] = AfterAgent]
           v == [u EXCEPT !.st = st, !.pc = "commit", !.enq = enq, !.todo = todo]
<1>4. Answered(t, enq) = v
  BY DEF Answered
<1>5. t.mem.spec \in Specs
  BY <1>1 DEF Transactions, Problems
<1>6. u \in Transactions
  BY <1>1, <1>5, SetSpecType
<1>7. /\ u.op = t.op /\ u.mem.current = t.mem.current
      /\ u.dirty = t.dirty \/ u.dirty = t.dirty \cup {"spec"}
      /\ u.job = t.job /\ u.setjob = t.setjob
  BY <1>1, <1>5, SetSpecFields
<1> HIDE DEF u, todo, st
<1>8. /\ v.op = u.op /\ v.mem = u.mem /\ v.dirty = u.dirty
      /\ v.job = u.job /\ v.setjob = u.setjob
  BY <1>6 DEF Transactions
<1> HIDE DEF v
<1>9. MovesSafely(v)
  BY <1>1, <1>2, <1>7, <1>8 DEF MovesSafely
<1> QED
  BY <1>1, <1>3, <1>4, <1>9, OneMoves

LEMMA RewriteSpecMoves ==
    ASSUME TypeOK, GateInv, NEW r \in Requests, RewriteSpec(r)
    PROVE  GateInv'
PROOF
<1> DEFINE t == tx[r]
           spec == IF t.op = "confirm" THEN [t.mem.spec EXCEPT !.confirmed = TRUE]
                                       ELSE t.mem.spec
           enq == IF t.op = "check" THEN {"import_check"} ELSE {}
           u == SetSpec(t, spec)
           v == [u EXCEPT !.pc = "commit", !.todo = <<"problem">>, !.enq = enq]
<1>1. /\ r \in Actors /\ r # "crawler" /\ UNCHANGED rows
      /\ t \in Transactions /\ MovesSafely(t) /\ t.op # "approve"
  BY RequestsNotCrawler DEF TypeOK, GateInv, RewriteSpec, SpecOps, rows
<1>2. spec \in Specs
  BY <1>1 DEF Transactions, Problems, Specs
<1>3. /\ u.op = t.op /\ u.mem.current = t.mem.current /\ u.dirty = t.dirty \cup {"spec"}
      /\ u.job = t.job /\ u.setjob = t.setjob
  BY <1>1, <1>2, SetSpecFields
<1>4. u \in Transactions
  BY <1>1, <1>2, SetSpecType
<1>5. tx' = [tx EXCEPT ![r] = v] \/ Refuse(r)
  BY DEF RewriteSpec
<1> HIDE DEF u, enq
<1>6. /\ v.op = u.op /\ v.mem = u.mem /\ v.dirty = u.dirty
      /\ v.job = u.job /\ v.setjob = u.setjob
  BY <1>4 DEF Transactions
<1> HIDE DEF v
<1>7. MovesSafely(v)
  BY <1>1, <1>3, <1>6 DEF MovesSafely
<1> QED
  BY <1>1, <1>5, <1>7, OneMoves, RefuseMoves

LEMMA JobRequestMoves ==
    ASSUME TypeOK, GateInv, NEW r \in Requests, JobRequest(r)
    PROVE  GateInv'
PROOF
<1> DEFINE t == tx[r]
           becomes == IF t.op = "cancel" /\ t.job = "queued" THEN "cancelled"
                      ELSE IF t.op = "retry" /\ t.job \in {"failed", "cancelled"} THEN "queued"
                      ELSE "keep"
           u == [t EXCEPT !.pc = "commit", !.enq = {"stress"}]
           v == [t EXCEPT !.pc = "commit", !.setjob = becomes, !.todo = <<"crawl">>]
<1>1. /\ r \in Actors /\ r # "crawler" /\ UNCHANGED rows
      /\ t \in Transactions /\ MovesSafely(t) /\ t.op # "approve"
  BY RequestsNotCrawler DEF TypeOK, GateInv, JobRequest, JobOps, rows
<1>2. \/ tx' = [tx EXCEPT ![r] = u] \/ tx' = [tx EXCEPT ![r] = v] \/ Refuse(r)
  BY DEF JobRequest
<1>3. becomes # "keep" => NonOriginal
  BY <1>1 DEF MovesSafely
<1> HIDE DEF becomes
<1>4. /\ u.op = t.op /\ u.mem = t.mem /\ u.dirty = t.dirty
      /\ u.job = t.job /\ u.setjob = t.setjob
      /\ v.op = t.op /\ v.mem = t.mem /\ v.dirty = t.dirty
      /\ v.job = t.job /\ v.setjob = becomes
  BY <1>1 DEF Transactions
<1> HIDE DEF u, v
<1>5. MovesSafely(u) /\ MovesSafely(v)
  BY <1>1, <1>3, <1>4 DEF MovesSafely
<1> QED
  BY <1>1, <1>2, <1>5, OneMoves, RefuseMoves

LEMMA StressStartMoves ==
    ASSUME TypeOK, GateInv, NEW m \in Modes, StressStart(m)
    PROVE  GateInv'
PROOF
<1> DEFINE l == Loaded("run", m)
           u == [l EXCEPT !.pc = "agent"]
<1>1. l \in Transactions /\ l.op = "run" /\ l.dirty = {} /\ l.job = "none" /\ l.setjob = "keep"
  BY LoadedType DEF StageOps, JobOps
<1>2. tx' = [tx EXCEPT !["worker"] = u] /\ UNCHANGED rows /\ "worker" \in Actors
  BY DEF StressStart, Actors, Workers, rows
<1> HIDE DEF l
<1>3. u.op = "run" /\ u.dirty = {} /\ u.job = "none" /\ u.setjob = "keep"
  BY <1>1 DEF Transactions
<1> HIDE DEF u
<1>4. MovesSafely(u)
  BY <1>3 DEF MovesSafely
<1> QED
  BY <1>2, <1>4, OneMoves

LEMMA StressDoneMoves ==
    ASSUME TypeOK, GateInv, NEW ok \in BOOLEAN, NEW fails \in BOOLEAN, NEW wrote \in BOOLEAN,
           StressDone(ok, fails, wrote)
    PROVE  GateInv'
PROOF
<1> DEFINE t == tx["worker"]
           records == t.stage = "import_check" /\ ~fails
           spec == IF records THEN [t.mem.spec EXCEPT !.checkOk = ok] ELSE t.mem.spec
           rec == IF ~records THEN "none" ELSE IF ok THEN "ok" ELSE "fail"
           u == [t EXCEPT !.pc = "commit"]
           v == SetSpec(t, spec)
           w == [v EXCEPT !.pc = "commit", !.todo = <<"problem">>, !.rec = rec]
<1>1. "worker" \in Actors /\ t \in Transactions /\ MovesSafely(t)
      /\ UNCHANGED rows
  BY DEF TypeOK, Actors, Workers, GateInv, StressDone, rows
<1>2. t.op # "approve"
  BY <1>1 DEF StressDone, MovesSafely
<1>3. spec \in Specs
  BY <1>1 DEF Transactions, Problems, Specs
<1>4. /\ v.op = t.op /\ v.mem.current = t.mem.current /\ v.dirty = t.dirty \cup {"spec"}
      /\ v.job = t.job /\ v.setjob = t.setjob
  BY <1>1, <1>3, SetSpecFields
<1>5. v \in Transactions
  BY <1>1, <1>3, SetSpecType
<1>6. tx' = [tx EXCEPT !["worker"] = u] \/ tx' = [tx EXCEPT !["worker"] = w]
  BY DEF StressDone
<1> HIDE DEF v, rec
<1>7. /\ u.op = t.op /\ u.mem = t.mem /\ u.dirty = t.dirty
      /\ u.job = t.job /\ u.setjob = t.setjob
      /\ w.op = v.op /\ w.mem = v.mem /\ w.dirty = v.dirty
      /\ w.job = v.job /\ w.setjob = v.setjob
  BY <1>1, <1>5 DEF Transactions
<1> HIDE DEF u, w
<1>8. MovesSafely(u) /\ MovesSafely(w)
  BY <1>1, <1>2, <1>4, <1>7 DEF MovesSafely
<1> QED
  BY <1>1, <1>6, <1>8, OneMoves

LEMMA CrawlStartMoves ==
    ASSUME TypeOK, GateInv, CrawlStart
    PROVE  GateInv'
PROOF
<1> DEFINE l == Loaded("import", "none")
           u == [l EXCEPT !.pc = "agent", !.todo = <<"crawl">>]
<1>1. l \in Transactions /\ l.op = "import" /\ l.dirty = {} /\ l.job = "none"
      /\ l.setjob = "keep"
  BY LoadedType DEF StageOps, JobOps
<1>2. tx' = [tx EXCEPT !["crawler"] = u] /\ UNCHANGED rows /\ "crawler" \in Actors
  BY DEF CrawlStart, Actors, Workers, rows
<1> HIDE DEF l
<1>3. u.op = "import" /\ u.dirty = {} /\ u.job = "none" /\ u.setjob = "keep"
  BY <1>1 DEF Transactions
<1> HIDE DEF u
<1>4. MovesSafely(u)
  BY <1>3 DEF MovesSafely
<1>5. NonOriginal
  BY DEF CrawlStart, GateInv, RowsSafe
<1> QED
  BY <1>2, <1>4, <1>5, OneMoves

LEMMA MoveBackFields ==
    ASSUME NEW t \in Transactions
    PROVE  LET u == [t EXCEPT !.mem.current = "IMPORT", !.dirty = t.dirty \cup {"current"}]
           IN /\ u.op = t.op /\ u.mem.current = "IMPORT" /\ u.dirty = t.dirty \cup {"current"}
              /\ u.job = t.job /\ u.setjob = t.setjob
PROOF
  BY DEF Transactions, Problems

LEMMA CrawlDoneMoves ==
    ASSUME TypeOK, GateInv, NEW hasStd \in BOOLEAN, CrawlDone(hasStd)
    PROVE  GateInv'
PROOF
<1> DEFINE t == tx["crawler"]
           spec == [t.mem.spec EXCEPT !.imported = TRUE, !.confirmed = FALSE]
           u == IF hasStd \/ spec # t.mem.spec THEN SetSpec(t, spec) ELSE t
           back == t.mem.current # "IMPORT"
           b == [u EXCEPT !.mem.current = "IMPORT", !.dirty = u.dirty \cup {"current"}]
           v == IF back THEN b ELSE u
           enq == IF hasStd THEN {"import_check"} ELSE {}
           todo == IF v.dirty # {} THEN <<"problem">> ELSE << >>
           w == [v EXCEPT !.setjob = "done", !.pc = "commit", !.enq = enq, !.todo = todo]
<1>1. /\ "crawler" \in Actors /\ t \in Transactions /\ MovesSafely(t)
      /\ UNCHANGED rows /\ NonOriginal
  BY DEF TypeOK, Actors, Workers, GateInv, CrawlDone, rows, Idle
<1>2. t.op # "approve"
  BY <1>1 DEF CrawlDone, MovesSafely
<1>3. spec \in Specs
  BY <1>1 DEF Transactions, Problems, Specs
<1>4. tx' = [tx EXCEPT !["crawler"] = w]
  BY <1>1 DEF CrawlDone
<1> HIDE DEF spec
<1>5. u \in Transactions
  BY <1>1, <1>3, SetSpecType
<1>6. u.op = t.op /\ u.mem.current = t.mem.current
  BY <1>1, <1>3, SetSpecFields
<1> HIDE DEF u
<1>7. b \in Transactions /\ b.op = u.op /\ b.mem.current = "IMPORT"
  BY <1>5, MoveBackType, MoveBackFields
<1> HIDE DEF b
<1>8. v \in Transactions /\ v.op = t.op /\ v.mem.current = "IMPORT"
  BY <1>5, <1>6, <1>7
<1> HIDE DEF v, enq, todo
<1>9. w.op = v.op /\ w.mem = v.mem
  BY <1>8 DEF Transactions
<1> HIDE DEF w
<1>10. MovesSafely(w)
  BY <1>1, <1>2, <1>8, <1>9 DEF MovesSafely
<1> QED
  BY <1>1, <1>4, <1>10, OneMoves

LEMMA CrawlFailMoves ==
    ASSUME TypeOK, GateInv, CrawlFail
    PROVE  GateInv'
PROOF
<1> DEFINE t == tx["crawler"]
           u == [t EXCEPT !.pc = "commit", !.setjob = "failed"]
<1>1. /\ "crawler" \in Actors /\ t \in Transactions /\ MovesSafely(t)
      /\ UNCHANGED rows /\ NonOriginal
  BY DEF TypeOK, Actors, Workers, GateInv, CrawlFail, rows, Idle
<1>2. t.op # "approve"
  BY <1>1 DEF CrawlFail, MovesSafely
<1>3. tx' = [tx EXCEPT !["crawler"] = u]
  BY <1>1 DEF CrawlFail, TypeOK, Transactions
<1>4. u.op = t.op /\ u.mem = t.mem /\ u.dirty = t.dirty
  BY <1>1 DEF Transactions
<1> HIDE DEF u
<1>5. MovesSafely(u)
  BY <1>1, <1>2, <1>4 DEF MovesSafely
<1> QED
  BY <1>1, <1>3, <1>5, OneMoves

LEMMA RestartMoves ==
    ASSUME TypeOK, GateInv, Restart
    PROVE  GateInv'
PROOF
<1> DEFINE l == Loaded("boot", "none")
<1>1. l.op = "boot" /\ l.dirty = {} /\ l.job = "none" /\ l.setjob = "keep"
  BY LoadedType DEF StageOps, JobOps
<1>2. \A a \in Actors : tx'[a] \in {Idle, l, tx[a]}
  BY DEF Restart
<1> HIDE DEF l
<1>3. MovesSafely(l) /\ MovesSafely(Idle) /\ \A a \in Actors : MovesSafely(tx[a])
  BY <1>1, IdleMoves DEF MovesSafely, GateInv
<1>4. \A a \in Actors : MovesSafely(tx'[a])
  BY <1>2, <1>3
<1>5. UNCHANGED rows
  BY DEF Restart, rows
<1>6. \A a \in Actors : MovesSafely(tx[a])'
  BY <1>4, <1>5 DEF MovesSafely, Passed, AllGatesOpen, rows
<1>7. RowsSafe'
  BY <1>5 DEF GateInv, RowsSafe, Passed, AllGatesOpen, ImportEvidence, rows
<1>8. NonOriginal \/ tx'["crawler"] = Idle
  BY DEF GateInv, Restart, Actors, Workers
<1> QED
  BY <1>6, <1>7, <1>8 DEF GateInv

LEMMA BootstrapMoves ==
    ASSUME TypeOK, GateInv, Bootstrap
    PROVE  GateInv'
PROOF
<1> DEFINE t == tx["boot"]
           missing == {s \in StageIds : ~Exists(s)}
           back == t.mem.current = "SPEC"
           u == IF missing # {} THEN SetSpec(t, t.mem.spec) ELSE t
           b == [u EXCEPT !.mem.current = "IMPORT", !.dirty = u.dirty \cup {"current"}]
           v == IF back THEN b ELSE u
           reopen == back /\ Exists("IMPORT") /\ stages["IMPORT"] # "AWAITING_HUMAN"
           st == [s \in StageIds |->
                     IF s \in missing THEN "PENDING"
                     ELSE IF s = "IMPORT" /\ reopen THEN "AWAITING_HUMAN"
                     ELSE "keep"]
           lockProblem == IF v.dirty # {} THEN <<"problem">> ELSE << >>
           lockImport == IF reopen THEN <<"IMPORT">> ELSE << >>
           todo == lockProblem \o lockImport
           w == [v EXCEPT !.pc = "commit", !.st = st, !.todo = todo]
           x == [t EXCEPT !.pc = "commit"]
<1>1. "boot" \in Actors /\ t \in Transactions /\ MovesSafely(t) /\ t.op # "approve"
      /\ UNCHANGED rows
  BY DEF TypeOK, Actors, Workers, GateInv, Bootstrap, Checking, rows
<1>2. t.mem.spec \in Specs
  BY <1>1 DEF Transactions, Problems
<1>3. (NonOriginal /\ tx' = [tx EXCEPT !["boot"] = w]) \/ tx' = [tx EXCEPT !["boot"] = x]
  BY DEF Bootstrap
<1>4. u \in Transactions
  BY <1>1, <1>2, SetSpecType
<1>5. /\ u.op = t.op /\ u.mem.current = t.mem.current
      /\ u.dirty = t.dirty \/ u.dirty = t.dirty \cup {"spec"}
  BY <1>1, <1>2, SetSpecFields
<1> HIDE DEF u
<1>6. b \in Transactions /\ b.op = u.op /\ b.mem.current = "IMPORT"
  BY <1>4, MoveBackType, MoveBackFields
<1> HIDE DEF b
<1>7. v \in Transactions /\ v.op = t.op /\ ("current" \in v.dirty => v.mem.current = "IMPORT")
  BY <1>1, <1>4, <1>5, <1>6 DEF MovesSafely
<1> HIDE DEF v, todo, st
<1>8. /\ w.op = v.op /\ w.mem = v.mem /\ w.dirty = v.dirty
      /\ x.op = t.op /\ x.mem = t.mem /\ x.dirty = t.dirty
      /\ x.job = t.job /\ x.setjob = t.setjob
  BY <1>1, <1>7 DEF Transactions
<1> HIDE DEF w, x
<1>9. MovesSafely(x) /\ (NonOriginal => MovesSafely(w))
  BY <1>1, <1>7, <1>8 DEF MovesSafely
<1> QED
  BY <1>1, <1>3, <1>9, OneMoves

(* What a commit does to the abstract gate chain: an approval passes a gate *)
(* all of whose predecessors are passed, anything else returns or stutters. *)
PassesGate(s) ==
    /\ s \in Chain
    /\ Passed(s)
    /\ s = "IMPORT" => complete
    /\ problem.current' = NextStage(s)
    /\ gates' = gates \cup {s}

Returns ==
    /\ \/ problem.current' = problem.current
       \/ NonOriginal /\ problem.current' = "IMPORT"
    /\ gates' = gates

LEMMA CommitGate ==
    ASSUME TypeOK, GateInv, NEW a \in Actors, Commit(a)
    PROVE  Returns \/ \E s \in StageIds : PassesGate(s)
PROOF
<1> DEFINE t == tx[a]
<1>1. t \in Transactions /\ MovesSafely(t) /\ t.pc = "commit"
  BY DEF TypeOK, GateInv, Commit
<1>2. problem'.current = IF "current" \in t.dirty THEN t.mem.current ELSE problem.current
  BY DEF Commit, Committed
<1>3. CASE t.op = "approve"
  <2>1. gates' = gates \cup {t.stage} /\ t.stage \in StageIds
    BY <1>1, <1>3 DEF Commit, Transactions, StageOps
  <2>2. /\ t.stage \in Chain
        /\ Passed(t.stage)
        /\ t.stage = "IMPORT" => complete
        /\ t.mem.current = NextStage(t.stage) /\ t.dirty = {"current"}
    BY <1>1, <1>3 DEF MovesSafely
  <2>3. PassesGate(t.stage)
    BY <1>2, <2>1, <2>2 DEF PassesGate
  <2> QED
    BY <2>1, <2>3
<1>4. CASE t.op # "approve"
  <2>1. gates' = gates
    BY <1>4 DEF Commit
  <2> QED
    BY <1>1, <1>2, <1>4, <2>1 DEF Returns, MovesSafely
<1> QED
  BY <1>3, <1>4

(* Passing the gate of a stage passes those of the stage that follows. *)
LEMMA PassOne ==
    ASSUME NEW s \in StageIds, s \in Chain, Passed(s), gates' = gates \cup {s}
    PROVE  Passed(NextStage(s))'
PROOF
<1>1. Before(NextStage(s)) \subseteq Before(s) \cup {s}
  BY NextStageAddsOne DEF Chain
<1> QED
  BY <1>1 DEF Passed

LEMMA CommitMoves ==
    ASSUME TypeOK, GateInv, NEW a \in Actors, Commit(a)
    PROVE  GateInv'
PROOF
<1>1. gates \subseteq gates' /\ (complete => complete')
  BY CommitGate DEF Commit, TypeOK
<1>2. problem.current' \in Chain \cup {"DONE"} /\ Passed(problem.current)' /\ ImportEvidence'
      /\ \A s \in gates' : Passed(s)'
  <2>1. ASSUME NEW s \in StageIds, PassesGate(s)
        PROVE  problem.current' \in Chain \cup {"DONE"} /\ Passed(problem.current)'
               /\ ImportEvidence' /\ \A r \in gates' : Passed(r)'
    <3>1. Passed(problem.current)'
      BY <2>1, PassOne DEF PassesGate, Passed
    <3>2. ImportEvidence'
      BY <1>1, <2>1 DEF PassesGate, GateInv, RowsSafe, ImportEvidence
    <3>3. \A r \in gates' : Passed(r)'
      BY <1>1, <2>1 DEF PassesGate, GateInv, RowsSafe, Passed
    <3> QED
      BY <2>1, <3>1, <3>2, <3>3, ChainNext DEF PassesGate
  <2>2. CASE Returns
    BY <1>1, <2>2, HeadInChain, NothingBeforeHead
    DEF Returns, GateInv, RowsSafe, Passed, ImportEvidence
  <2> QED
    BY <2>1, <2>2, CommitGate
<1>3. AllGatesOpen(problem)' => complete'
  BY DEF Commit, AllGatesOpen, Committed
<1>4. crawl' # "none" => NonOriginal
  BY DEF Commit, GateInv, RowsSafe, MovesSafely
<1>5. \A b \in Actors : tx'[b] \in {Idle, tx[b]}
  BY DEF Commit, TypeOK
<1>6. \A b \in Actors : MovesSafely(tx'[b])
  BY <1>5, IdleMoves DEF GateInv
<1>7. \A b \in Actors : MovesSafely(tx[b])'
  BY <1>1, <1>6 DEF MovesSafely, Passed, AllGatesOpen
<1>8. NonOriginal \/ tx'["crawler"] = Idle
  BY <1>5 DEF GateInv, Actors, Workers
<1> QED
  BY <1>2, <1>3, <1>4, <1>7, <1>8 DEF GateInv, RowsSafe

LEMMA NextMoves ==
    ASSUME TypeOK, GateInv, [Next]_vars
    PROVE  GateInv'
PROOF
<1>1. CASE \E r \in Requests : Load(r)
  BY <1>1, LoadMoves
<1>2. ASSUME NEW r \in Requests, Step(r) PROVE GateInv'
  BY <1>2, ApproveStageMoves, ApproveNextMoves, RejectStageMoves, DispatchStageMoves,
     AgentDoneMoves, RewriteSpecMoves, JobRequestMoves DEF Step
<1>3. ASSUME NEW a \in Actors, Lock(a) \/ DeadlockVictim(a) \/ Commit(a) PROVE GateInv'
  <2>1. CASE DeadlockVictim(a)
    BY <2>1, RefuseMoves DEF DeadlockVictim, rows
  <2> QED
    BY <1>3, <2>1, LockMoves, CommitMoves
<1>4. CASE WorkerStep \/ \E m \in Modes : StressStart(m)
  BY <1>4, StressStartMoves, StressDoneMoves DEF WorkerStep
<1>5. CASE CrawlStart \/ CrawlerStep
  BY <1>5, CrawlStartMoves, CrawlDoneMoves, CrawlFailMoves DEF CrawlerStep
<1>6. ASSUME NEW w \in Workers, WorkerCrash(w) PROVE GateInv'
  BY <1>6, RefuseMoves DEF WorkerCrash, Actors, rows
<1>7. CASE Restart \/ Bootstrap
  BY <1>7, RestartMoves, BootstrapMoves
<1>8. CASE UNCHANGED vars
  BY <1>8 DEF GateInv, RowsSafe, ImportEvidence, MovesSafely, Passed, AllGatesOpen, vars
<1> QED
  BY <1>1, <1>2, <1>3, <1>4, <1>5, <1>6, <1>7, <1>8 DEF Next

(* The inductive invariant of the gates, for every kind of problem: what    *)
(* the committed rows say, and what each open transaction will commit.      *)
THEOREM GatesInvariant == Spec => []GateInv
PROOF
<1>1. Init => GateInv
  BY InitGate
<1>2. TypeOK /\ GateInv /\ [Next]_vars => GateInv'
  BY NextMoves
<1> QED
  BY <1>1, <1>2, TypeCorrect, PTL DEF Spec

(* A crawled or an original problem never stands behind a gate nobody       *)
(* passed, whatever requests, imports, retries, crashes and restarts        *)
(* interleave: every stage before the current one has been approved.        *)
THEOREM StagesInOrder ==
    ASSUME Origin # "post"
    PROVE  Spec => []NoStageSkipped
PROOF
<1>1. GateInv => NoStageSkipped
  BY DEF GateInv, RowsSafe, Passed, NoStageSkipped
<1> QED
  BY <1>1, GatesInvariant, PTL

(* A stage is approved only after all the stages before it, although nobody *)
(* locks the row an approval is judged by.                                  *)
THEOREM ApprovedInOrder ==
    ASSUME Origin # "post"
    PROVE  Spec => []ApprovalOrder
PROOF
<1>1. GateInv => ApprovalOrder
  BY DEF GateInv, RowsSafe, Passed, ApprovalOrder
<1> QED
  BY <1>1, GatesInvariant, PTL

(* However a problem was created: IMPORT is approved only if one committed  *)
(* row once satisfied its three conditions together. The approval judges a  *)
(* row that was committed as a whole, so no facts of different imports are  *)
(* combined by it.                                                          *)
THEOREM ImportOnEvidence == Spec => []ImportEvidence
PROOF
<1>1. GateInv => ImportEvidence
  BY DEF GateInv, RowsSafe
<1> QED
  BY <1>1, GatesInvariant, PTL

(* Steps other than commits do not touch what the gate chain is about. *)
LEMMA OtherSteps ==
    ASSUME [Next]_vars
    PROVE  UNCHANGED <<problem, gates>> \/ \E a \in Actors : Commit(a)
PROOF
<1>1. CASE Next
  BY <1>1 DEF Next, Load, Step, ApproveStage, ApproveNext, RejectStage, DispatchStage,
     AgentDone, RewriteSpec, JobRequest, Lock, DeadlockVictim, StressStart, WorkerStep,
     StressDone, CrawlStart, CrawlerStep, CrawlFail, CrawlDone, WorkerCrash, Restart,
     Bootstrap
<1>2. CASE UNCHANGED vars
  BY <1>2 DEF vars
<1> QED
  BY <1>1, <1>2

(* The pipeline of a crawled or an original problem, with its transactions, *)
(* stale copies, locks and crashes, implements the abstract gate chain.     *)
THEOREM GatesRefined ==
    ASSUME Origin # "post"
    PROVE  Spec => GateSpec
PROOF
<1>1. Init => Gates!Init
  BY HeadInChain, OriginAssumption DEF Init, Gates!Init, NonOriginal
<1>2. TypeOK /\ GateInv /\ [Next]_vars => [Gates!Next]_Gates!vars
  <2> SUFFICES ASSUME TypeOK, GateInv, [Next]_vars
               PROVE  [Gates!Next]_Gates!vars
    OBVIOUS
  <2>1. CASE UNCHANGED <<problem, gates>>
    BY <2>1 DEF Gates!vars
  <2>2. ASSUME NEW a \in Actors, Commit(a)
        PROVE  [Gates!Next]_Gates!vars
    <3>1. CASE \E s \in StageIds : PassesGate(s)
      BY <3>1 DEF PassesGate, Passed, Gates!Next, Gates!Approve
    <3>2. CASE Returns
      BY <3>2, HeadInChain DEF Returns, Gates!Next, Gates!Return, Gates!vars
    <3> QED
      BY <2>2, <3>1, <3>2, CommitGate
  <2> QED
    BY <2>1, <2>2, OtherSteps
<1> QED
  BY <1>1, <1>2, TypeCorrect, GatesInvariant, PTL DEF Spec, GateSpec, Gates!Spec

=============================================================================
