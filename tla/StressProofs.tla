---------------------------- MODULE StressProofs ----------------------------
(***************************************************************************)
(* Proofs about the jobs that run a problem's programs, and about what they *)
(* leave in spec_json.                                                      *)
(***************************************************************************)
EXTENDS Stress, SequenceTheorems, FiniteSetTheorems, WellFoundedInduction, TLAPS

-----------------------------------------------------------------------------
(* What the runner answers. *)

Verdicts == {"OK", "CE", "TLE", "OLE", "RTE"}
Failures == {"runtime_error", "spj_wa", "wa"}

(* A report names a round exactly if it is about a case.                    *)
ReportType == [reason : Results, round : {0}] \cup [reason : Failures, round : Inputs]

(* The rounds up to i, as a set: the loop's progress for the proof below.   *)
UpTo(T, i) == {j \in T : j <= i}

(* A nonempty set of rounds has a first one. The order is that of the finite *)
(* sets UpTo(T, i), which the library knows to be well-founded.             *)
LEMMA FirstRound ==
    ASSUME NEW T, T \subseteq Nat, T # {}
    PROVE  \E i \in T : \A j \in T : ~(j < i)
PROOF
<1> DEFINE R == StrictSubsetOrdering(Nat)
           U == {UpTo(T, i) : i \in T}
<1>1. ASSUME NEW i \in T PROVE UpTo(T, i) \in FiniteSubsetsOf(Nat)
  <2>1. UpTo(T, i) \subseteq 0..i
    <3>1. i \in Nat
      OBVIOUS
    <3>2. ASSUME NEW j \in UpTo(T, i) PROVE j \in Nat /\ j <= i
      BY DEF UpTo
    <3> QED
      BY <3>1, <3>2
  <2>2. IsFiniteSet(0..i)
    BY FS_Interval
  <2> QED
    BY <2>1, <2>2, FS_Subset DEF FiniteSubsetsOf
<1>2. PICK x \in U : \A y \in U : ~(<<y, x>> \in R)
  <2>1. U \subseteq FiniteSubsetsOf(Nat) /\ U # {}
    BY <1>1
  <2>2. IsWellFoundedOn(R, FiniteSubsetsOf(Nat))
    BY FS_StrictSubsetOrderingWellFounded
  <2> HIDE DEF R, U
  <2> QED
    BY <2>1, <2>2, WFMin
<1>3. PICK i \in T : x = UpTo(T, i)
  BY <1>2
<1>4. ASSUME NEW j \in T, j < i PROVE FALSE
  <2>1. UpTo(T, j) \subseteq x /\ i \in x /\ i \notin UpTo(T, j)
    <3>1. i \in Nat /\ j \in Nat
      OBVIOUS
    <3>2. ASSUME NEW k \in UpTo(T, j) PROVE k \in T /\ k \in Nat /\ k <= j
      BY DEF UpTo
    <3>3. x = {k \in T : k <= i} /\ UpTo(T, j) = {k \in T : k <= j}
      BY <1>3 DEF UpTo
    <3>4. ASSUME NEW k \in UpTo(T, j) PROVE k \in x
      BY <1>4, <3>1, <3>2, <3>3
    <3>5. i \in x /\ i \notin UpTo(T, j)
      BY <1>4, <3>1, <3>3
    <3> QED
      BY <3>4, <3>5
  <2>2. UpTo(T, j) \subseteq Nat /\ x \subseteq Nat
    BY <1>3 DEF UpTo
  <2>3. <<UpTo(T, j), x>> \in R
    BY <2>1, <2>2 DEF StrictSubsetOrdering
  <2> QED
    BY <1>2, <2>3
<1> QED
  BY <1>4

LEMMA RunVerdicts ==
    ASSUME NEW p, NEW i
    PROVE  /\ Ran(p, i) \in Verdicts \cup {"error"}
           /\ RunSource(p, i) \in Verdicts \cup {"error"}
           /\ CompileVerdict(p) \in {"OK", "CE", "error"}
PROOF
  BY DEF Ran, Verdict, RunSource, CompileVerdict, Verdicts

LEMMA CheckerVerdicts ==
    ASSUME NEW c, NEW out, NEW answer
    PROVE  Checked(c, out, answer) \in {"CE", "TLE", "AC", "WA", "error"}
PROOF
  BY DEF Checked

LEMMA BuildsReturns == ASSUME NEW p, Builds(p) PROVE ~CompilerRaises(p)
PROOF
  BY DEF Builds, CompilerRaises, Compiled

(* The loop stops at a round if one of them fails.                          *)
LEMMA LoopStops ==
    ASSUME NEW rounds, rounds \subseteq Inputs, NEW p, NEW q, NEW c
    PROVE  /\ Deciding(rounds, p, q, c) = {} => \A i \in rounds : Agree(p, q, c, i)
           /\ Deciding(rounds, p, q, c) # {} => ~\A i \in rounds : Agree(p, q, c, i)
PROOF
<1> DEFINE failing == {i \in rounds : ~Agree(p, q, c, i)}
<1>1. ASSUME failing # {} PROVE Deciding(rounds, p, q, c) # {}
  <2>1. failing \subseteq Nat
    BY InputsAssumption
  <2>2. PICK i \in failing : \A j \in failing : ~(j < i)
    BY <1>1, <2>1, FirstRound
  <2> QED
    BY <2>2 DEF Deciding
<1> QED
  BY <1>1 DEF Deciding

(* What a stress report says about the two programs.                        *)
LEMMA StressReports ==
    ASSUME NEW rounds, rounds \subseteq Inputs, NEW p, NEW q, NEW c,
           NEW report, report = StressReport(p, q, c, rounds)
    PROVE  /\ report \in ReportType
           /\ report.reason \in {"missing", "none"} => FALSE
           /\ report.reason \in Failures <=> report.round # 0
           /\ report.round # 0 =>
                 /\ Builds(p) /\ Builds(q) /\ ~Agree(p, q, c, report.round)
                 /\ Failure(p, q, c, report.round) = report.reason
           /\ report.reason = "ok" =>
                 Builds(p) /\ Builds(q) /\ \A i \in rounds : Agree(p, q, c, i)
           /\ report.reason \notin {"ok", "error"} =>
                 ~(Builds(p) /\ Builds(q) /\ \A i \in rounds : Agree(p, q, c, i))
PROOF
<1>1. CASE CompilerRaises(p) \/ CompilerRaises(q)
  <2>1. report = [reason |-> "error", round |-> 0]
    BY <1>1, BuildsReturns DEF StressReport, Raised
  <2> QED
    BY <2>1 DEF ReportType, Results, Failures
<1>2. CASE ~CompilerRaises(p) /\ ~CompilerRaises(q) /\ ~Builds(p)
  <2>1. report = [reason |-> "std_compile_error", round |-> 0]
    BY <1>2 DEF StressReport
  <2> QED
    BY <1>2, <2>1 DEF ReportType, Results, Failures
<1>3. CASE ~CompilerRaises(p) /\ ~CompilerRaises(q) /\ Builds(p) /\ ~Builds(q)
  <2>1. report = [reason |-> "brute_compile_error", round |-> 0]
    BY <1>3 DEF StressReport
  <2> QED
    BY <1>3, <2>1 DEF ReportType, Results, Failures
<1>4. CASE Builds(p) /\ Builds(q)
  <2>1. CASE Deciding(rounds, p, q, c) = {}
    <3>1. report = [reason |-> "ok", round |-> 0]
      BY <1>4, <2>1, BuildsReturns DEF StressReport
    <3> QED
      BY <1>4, <2>1, <3>1, LoopStops DEF ReportType, Results, Failures
  <2>2. CASE Deciding(rounds, p, q, c) # {}
    <3>1. PICK i \in Deciding(rounds, p, q, c) :
             report = IF Failure(p, q, c, i) = "error" THEN Raised
                      ELSE [reason |-> Failure(p, q, c, i), round |-> i]
      BY <1>4, <2>2, BuildsReturns DEF StressReport
    <3>2. i \in Inputs /\ i # 0 /\ ~Agree(p, q, c, i)
      BY <3>1, InputsAssumption DEF Deciding
    <3>3. Failure(p, q, c, i) \in Failures \cup {"error"}
      BY DEF Failure, Failures
    <3>4. CASE Failure(p, q, c, i) = "error"
      <4>1. report = [reason |-> "error", round |-> 0]
        BY <3>1, <3>4 DEF Raised
      <4> QED
        BY <4>1 DEF ReportType, Results, Failures
    <3>5. CASE Failure(p, q, c, i) \in Failures
      <4>1. report = [reason |-> Failure(p, q, c, i), round |-> i]
        BY <3>1, <3>5 DEF Failures
      <4>2. report \in ReportType /\ report.reason \in Failures /\ report.round = i
        BY <3>2, <3>5, <4>1 DEF ReportType
      <4> QED
        BY <1>4, <2>2, <3>2, <4>1, <4>2, LoopStops DEF Failures
    <3> QED
      BY <3>3, <3>4, <3>5
  <2> QED
    BY <2>1, <2>2
<1> QED
  BY <1>1, <1>2, <1>3, <1>4

(* stress_compare on programs that build, over any inputs: it says ok        *)
(* exactly when they agree on all of them, and ends in an exception exactly *)
(* when one is raised in a round before which all agree; otherwise the      *)
(* round it names fails, every earlier one agrees, and the reason is that   *)
(* of this round.                                                           *)
THEOREM FirstFailureReported ==
    ASSUME NEW rounds, rounds \subseteq Inputs, NEW p, NEW q, NEW c,
           Builds(p), Builds(q),
           NEW report, report = StressReport(p, q, c, rounds)
    PROVE  /\ report.reason = "ok" <=> \A i \in rounds : Agree(p, q, c, i)
           /\ report.reason = "error" <=>
                 \E i \in rounds : /\ ~Agree(p, q, c, i) /\ Failure(p, q, c, i) = "error"
                                   /\ \A j \in rounds : j < i => Agree(p, q, c, j)
           /\ report.reason \notin {"ok", "error"} =>
                 /\ report.round \in rounds /\ ~Agree(p, q, c, report.round)
                 /\ \A j \in rounds : j < report.round => Agree(p, q, c, j)
                 /\ report.reason = Failure(p, q, c, report.round)
PROOF
<1> USE DEF Deciding
<1>1. CASE Deciding(rounds, p, q, c) = {}
  <2>1. report = [reason |-> "ok", round |-> 0]
    BY <1>1, BuildsReturns DEF StressReport
  <2> QED
    BY <1>1, <2>1, LoopStops
<1>2. CASE Deciding(rounds, p, q, c) # {}
  <2>1. PICK i \in Deciding(rounds, p, q, c) :
           report = IF Failure(p, q, c, i) = "error" THEN Raised
                    ELSE [reason |-> Failure(p, q, c, i), round |-> i]
    BY <1>2, BuildsReturns DEF StressReport
  <2>2. Failure(p, q, c, i) # "ok" /\ ~\A k \in rounds : Agree(p, q, c, k)
    BY <1>2, LoopStops DEF Failure
  <2>3. report.reason = Failure(p, q, c, i) /\ (report.reason # "error" => report.round = i)
    BY <2>1 DEF Raised
  <2>4. ASSUME NEW k \in Deciding(rounds, p, q, c) PROVE k = i
    <3>1. i \in Nat /\ k \in Nat
      BY InputsAssumption
    <3>2. ~(i < k) /\ ~(k < i)
      BY <2>1
    <3> QED
      BY <3>1, <3>2
  <2> QED
    BY <2>1, <2>2, <2>3, <2>4
<1> QED
  BY <1>1, <1>2

(* The artifacts every kind of job reads.                                   *)
LEMMA KindsRead ==
    /\ \A kind \in JobKinds : ReadBy(kind) \subseteq Kinds /\ "std" \in Needs(kind)
    /\ \A kind \in StressKinds :
          ReadBy(kind) = {"std", "brute", "checker"} /\ Needs(kind) = {"std", "brute"}
    /\ "brute" \in Needs("compare")
PROOF
<1>1. ASSUME NEW kind \in StressKinds
      PROVE  ReadBy(kind) = {"std", "brute", "checker"} /\ Needs(kind) = {"std", "brute"}
  <2>1. Reads(kind) = <<"std", "brute", "checker">>
    BY DEF Reads, StressKinds
  <2> QED
    BY <2>1 DEF ReadBy, Needs, Kinds
<1>2. ReadBy("compare") = {"std", "brute"} /\ Needs("compare") = {"std", "brute"}
  BY DEF Reads, ReadBy, Needs, Kinds, StressKinds
<1>3. ReadBy("checked") = {"checker", "std"} /\ Needs("checked") = {"checker", "std"}
  BY DEF Reads, ReadBy, Needs, Kinds, StressKinds
<1>4. ReadBy("interactive") = {"interactor", "std"} /\ Needs("interactive") = {"interactor", "std"}
  BY DEF Reads, ReadBy, Needs, Kinds, StressKinds
<1>5. ASSUME NEW kind \in {"run", "expected", "compile"}
      PROVE  ReadBy(kind) = {"std"} /\ Needs(kind) = {"std"}
  <2>1. Reads(kind) = <<"std">>
    BY DEF Reads, StressKinds
  <2> QED
    BY <2>1 DEF ReadBy, Needs, Kinds, StressKinds
<1> QED
  BY <1>1, <1>2, <1>3, <1>4, <1>5 DEF JobKinds, Kinds

One(S) == CHOOSE p \in S : TRUE

(* The inputs of a run are inputs, and the samples are among them.          *)
LEMMA RoundsFacts == \A rounds \in Rounds : rounds \subseteq Inputs /\ Samples \subseteq rounds
PROOF
  BY InputsAssumption DEF Rounds

(* What a handler reports, about the artifacts it has read.                 *)
LEMMA ReportFacts ==
    ASSUME NEW kind \in JobKinds, NEW read, NEW report \in Reports(kind, read)
    PROVE  /\ report \in ReportType
           /\ report.reason \in Failures => kind \in StressKinds /\ report.round # 0
           /\ report.round # 0 =>
                 /\ read["std"] # {} /\ read["brute"] # {} /\ kind \in StressKinds
                 /\ Builds(One(read["std"])) /\ Builds(One(read["brute"]))
                 /\ ~Agree(One(read["std"]), One(read["brute"]), read["checker"], report.round)
                 /\ Failure(One(read["std"]), One(read["brute"]), read["checker"], report.round)
                       = report.reason
           /\ kind \in StressKinds /\ report.reason = "ok" =>
                 /\ Builds(One(read["std"])) /\ Builds(One(read["brute"]))
                 /\ \A i \in Samples :
                       Agree(One(read["std"]), One(read["brute"]), read["checker"], i)
           /\ kind \in StressKinds /\ report.reason \notin {"ok", "missing", "error"} =>
                 ~(/\ Builds(One(read["std"])) /\ Builds(One(read["brute"]))
                   /\ \A i \in Inputs :
                         Agree(One(read["std"]), One(read["brute"]), read["checker"], i))
PROOF
<1> DEFINE std == One(read["std"])
           brute == One(read["brute"])
           plain(result) == [reason |-> result, round |-> 0]
           Plain == report \in ReportType /\ report.round = 0 /\ report.reason \notin Failures
<1>1. CASE \E k \in Needs(kind) : read[k] = {}
  <2>1. report = plain("missing")
    BY <1>1 DEF Reports
  <2> QED
    BY <2>1 DEF ReportType, Results, Failures
<1>2. CASE ~(\E k \in Needs(kind) : read[k] = {}) /\ kind \in StressKinds
  <2>1. PICK rounds \in Rounds : report = StressReport(std, brute, read["checker"], rounds)
    BY <1>2 DEF Reports, One, StressKinds
  <2>2. rounds \subseteq Inputs /\ Samples \subseteq rounds
    BY RoundsFacts
  <2>3. read["std"] # {} /\ read["brute"] # {}
    BY <1>2, KindsRead
  <2> HIDE DEF std, brute
  <2> QED
    BY <1>2, <2>1, <2>2, <2>3, StressReports DEF std, brute
<1>3. ASSUME ~\E k \in Needs(kind) : read[k] = {}, kind = "compare" PROVE Plain
  <2>1. PICK i \in Inputs : report = plain(Compared(std, brute, i))
    BY <1>3 DEF Reports, One, StressKinds
  <2>2. Compared(std, brute, i) \in {"error", "match", "differ"}
    BY DEF Compared
  <2> QED
    BY <2>1, <2>2 DEF ReportType, Results, Failures
<1>4. ASSUME ~\E k \in Needs(kind) : read[k] = {}, kind = "run" PROVE Plain
  <2>1. PICK i \in Inputs : report = plain(RunSource(std, i))
    BY <1>4 DEF Reports, One, StressKinds
  <2> QED
    BY <2>1, RunVerdicts DEF ReportType, Results, Verdicts, Failures
<1>5. ASSUME ~\E k \in Needs(kind) : read[k] = {}, kind = "expected" PROVE Plain
  <2>1. PICK i \in Inputs : report = plain(WithExpected(std, i))
    BY <1>5 DEF Reports, One, StressKinds
  <2>2. WithExpected(std, i) \in Verdicts \cup {"error", "AC", "WA"}
    BY RunVerdicts DEF WithExpected, Equal
  <2> QED
    BY <2>1, <2>2 DEF ReportType, Results, Verdicts, Failures
<1>6. ASSUME ~\E k \in Needs(kind) : read[k] = {}, kind = "checked" PROVE Plain
  <2>1. PICK i \in Inputs : report = plain(WithChecker(One(read["checker"]), std, i))
    BY <1>6 DEF Reports, One, StressKinds
  <2>2. WithChecker(One(read["checker"]), std, i) \in Verdicts \cup {"error", "AC", "WA"}
    BY RunVerdicts, CheckerVerdicts DEF WithChecker, Verdicts
  <2> QED
    BY <2>1, <2>2 DEF ReportType, Results, Verdicts, Failures
<1>7. ASSUME ~\E k \in Needs(kind) : read[k] = {}, kind \in {"compile", "interactive"} PROVE Plain
  <2>1. report = plain(CompileVerdict(std))
        \/ report = plain(Interacted(One(read["interactor"]), std))
    BY <1>7 DEF Reports, One, StressKinds
  <2>2. /\ CompileVerdict(std) \in {"OK", "CE", "error"}
        /\ Interacted(One(read["interactor"]), std) \in {"CE", "TLE", "AC", "WA", "RTE", "error"}
    BY RunVerdicts DEF Interacted
  <2> QED
    BY <2>1, <2>2 DEF ReportType, Results, Failures
<1>8. ASSUME Plain, kind \notin StressKinds
      PROVE  /\ report \in ReportType
             /\ report.reason \in Failures => kind \in StressKinds /\ report.round # 0
             /\ report.round = 0
  BY <1>8
<1> HIDE DEF Plain
<1>9. kind \in StressKinds \/ kind \in {"compare", "run", "expected", "checked", "compile", "interactive"}
  BY DEF JobKinds
<1> QED
  BY <1>1, <1>2, <1>3, <1>4, <1>5, <1>6, <1>7, <1>8, <1>9

-----------------------------------------------------------------------------
(* Types. *)

(* Any version of the row of spec_json. *)
Rows == {s \in SpecType : Len(s.index) <= MaxIndex}

Artifacts == Programs \cup Checkers \cup Interactors
ReadType == UNION {[K -> SUBSET Artifacts] : K \in SUBSET Kinds}

Reading == [at : {"read"}, job : Jobs, spec : Rows, read : ReadType, overtaken : BOOLEAN]
Reported ==
    [at : {"ran", "archived"}, job : Jobs, spec : Rows, report : ReportType, version : Nat,
     overtaken : BOOLEAN]
Editing == [at : Ops, spec : Rows]
JobType ==
    [kind : JobKinds, status : {"queued", "done", "failed", "cancelled"}, result : Results,
     retried : BOOLEAN]

TypeInv ==
    /\ DOMAIN log = Kinds /\ \A k \in Kinds : log[k] \in Seq(Sources(k))
    /\ cases \in Seq(CaseType)
    /\ job \in Seq(JobType) /\ Len(job) <= MaxJobs
    /\ spec \in Rows
    /\ work \in [Workers -> {Idle} \cup Reading \cup Reported]
    /\ \A w \in Workers : work[w] # Idle =>
          work[w].job \in 1..Len(job) /\ (work[w].at = "archived" => work[w].report.round # 0)
    /\ edit \in [Requests -> {Idle} \cup Editing]
    /\ calls \in 0..MaxCalls /\ drift \in BOOLEAN /\ clash \in BOOLEAN

LEMMA InitType == Init => TypeInv
PROOF
<1> SUFFICES ASSUME Init PROVE TypeInv
  OBVIOUS
<1>1. spec \in Rows
  BY BoundsAssumption DEF Init, Rows, SpecType
<1>2. DOMAIN log = Kinds /\ \A k \in Kinds : log[k] \in Seq(Sources(k))
  BY InitialsAssumption DEF Init
<1>3. cases \in Seq(CaseType) /\ job \in Seq(JobType) /\ Len(job) <= MaxJobs
  BY BoundsAssumption, EmptySeq DEF Init
<1>4. work \in [Workers -> {Idle} \cup Reading \cup Reported] /\ \A w \in Workers : work[w] = Idle
  BY DEF Init
<1>5. edit \in [Requests -> {Idle} \cup Editing]
  BY DEF Init
<1>6. calls \in 0..MaxCalls
  BY BoundsAssumption DEF Init
<1>7. drift \in BOOLEAN /\ clash \in BOOLEAN
  BY Zenon DEF Init
<1> QED
  BY <1>1, <1>2, <1>3, <1>4, <1>5, <1>6, <1>7 DEF TypeInv

(* Appending keeps a log of artifacts typed.                                *)
LEMMA NewVersionType ==
    ASSUME TypeInv, NEW k \in Kinds, NEW p \in Sources(k), NewVersion(k, p)
    PROVE  /\ DOMAIN log' = Kinds /\ \A h \in Kinds : log'[h] \in Seq(Sources(h))
           /\ work' \in [Workers -> {Idle} \cup Reading \cup Reported]
           /\ \A w \in Workers : work'[w] # Idle =>
                 /\ work[w] # Idle /\ work'[w].job = work[w].job /\ work'[w].at = work[w].at
                 /\ work[w].at = "archived" => work'[w].report = work[w].report
           /\ drift' \in BOOLEAN
PROOF
<1>1. ASSUME NEW w \in Workers
      PROVE  /\ work'[w] \in {Idle} \cup Reading \cup Reported
             /\ work'[w] # Idle =>
                   /\ work[w] # Idle /\ work'[w].job = work[w].job /\ work'[w].at = work[w].at
                   /\ work[w].at = "archived" => work'[w].report = work[w].report
  <2>1. CASE work'[w] = work[w]
    BY <2>1 DEF TypeInv
  <2>2. CASE work[w] \in Reading /\ work'[w] = [work[w] EXCEPT !.overtaken = @ \/ Judged(k)]
    BY <2>2 DEF Reading, Idle, Judged
  <2>3. CASE work[w] \in Reported /\ work'[w] = [work[w] EXCEPT !.overtaken = @ \/ Judged(k)]
    BY <2>3 DEF Reported, Idle, Judged
  <2>4. work[w] \in {Idle} \cup Reading \cup Reported
    BY DEF TypeInv
  <2>5. work[w] = Idle => work'[w] = work[w]
    BY DEF NewVersion, Idle
  <2> QED
    BY <2>1, <2>2, <2>3, <2>4, <2>5 DEF NewVersion
<1>2. DOMAIN log' = Kinds /\ \A h \in Kinds : log'[h] \in Seq(Sources(h))
  BY AppendProperties DEF TypeInv, NewVersion
<1>3. drift' \in BOOLEAN
  BY DEF TypeInv, NewVersion, Judged
<1> QED
  BY <1>1, <1>2, <1>3 DEF NewVersion

LEMMA SaveType ==
    ASSUME TypeInv, NEW k \in Kinds, NEW p \in Stored[k], Save(k, p)
    PROVE  TypeInv'
PROOF
<1>1. p \in Sources(k)
  BY StoredAssumption
<1>2. calls' \in 0..MaxCalls
  BY BoundsAssumption DEF TypeInv, Save
<1> QED
  BY <1>1, <1>2, NewVersionType DEF TypeInv, Save

LEMMA SeedBruteType ==
    ASSUME TypeInv, NEW r \in Requests, SeedBrute(r)
    PROVE  TypeInv'
PROOF
<1>1. "brute" \in Kinds /\ SeededBrute \in Sources("brute")
  BY SeedAssumption DEF Kinds, Sources
<1> QED
  BY <1>1, NewVersionType DEF TypeInv, SeedBrute

(* A job is queued.                                                         *)
LEMMA QueuedType ==
    ASSUME TypeInv, NEW kind \in JobKinds, Len(job) < MaxJobs, job' = Append(job, Queued(kind))
    PROVE  /\ job' \in Seq(JobType) /\ Len(job') = Len(job) + 1 /\ Len(job') <= MaxJobs
           /\ \A j \in 1..Len(job) : job'[j] = job[j]
           /\ Len(job') \in Jobs
PROOF
<1>1. Queued(kind) \in JobType
  BY DEF Queued, JobType, Results
<1>2. job \in Seq(JobType) /\ Len(job) \in Nat
  BY LenProperties DEF TypeInv
<1> QED
  BY <1>1, <1>2, AppendProperties, BoundsAssumption DEF Jobs

LEMMA SubmitType ==
    ASSUME TypeInv, NEW kind \in Submitted, Submit(kind)
    PROVE  TypeInv'
PROOF
<1>1. kind \in JobKinds
  BY SubmittedAssumption
<1>2. Len(job) \in Nat
  BY LenProperties DEF TypeInv
<1> QED
  BY <1>1, <1>2, QueuedType DEF TypeInv, Submit

LEMMA CancelType ==
    ASSUME TypeInv, NEW j \in 1..Len(job), Cancel(j)
    PROVE  TypeInv' /\ Len(job') = Len(job)
PROOF
<1> DEFINE new == [[job[j] EXCEPT !.status = "cancelled"] EXCEPT !.result = "cancelled"]
<1>1. job[j] \in JobType
  BY ElementOfSeq DEF TypeInv
<1>2. new \in JobType
  BY <1>1 DEF JobType, Results
<1>3. job' = [job EXCEPT ![j] = new]
  BY LenProperties DEF TypeInv, Cancel
<1> HIDE DEF new
<1>4. job' \in Seq(JobType) /\ Len(job') = Len(job)
  BY <1>2, <1>3, ExceptSeq DEF TypeInv
<1>5. calls' \in 0..MaxCalls
  BY BoundsAssumption DEF TypeInv, Cancel
<1> QED
  BY <1>4, <1>5 DEF TypeInv, Cancel

LEMMA RetryType ==
    ASSUME TypeInv, NEW j \in 1..Len(job), Retry(j)
    PROVE  TypeInv' /\ Len(job') = Len(job)
PROOF
<1> DEFINE new == [Queued(job[j].kind) EXCEPT !.retried = TRUE]
<1>1. job[j] \in JobType
  BY ElementOfSeq DEF TypeInv
<1>2. new \in JobType
  BY <1>1 DEF JobType, Results, Queued
<1>3. job' = [job EXCEPT ![j] = new]
  BY DEF Retry
<1> HIDE DEF new
<1>4. job' \in Seq(JobType) /\ Len(job') = Len(job)
  BY <1>2, <1>3, ExceptSeq DEF TypeInv
<1>5. calls' \in 0..MaxCalls
  BY BoundsAssumption DEF TypeInv, Retry
<1> QED
  BY <1>4, <1>5 DEF TypeInv, Retry

LEMMA TakeType ==
    ASSUME TypeInv, NEW w \in Workers, NEW j \in 1..Len(job), Take(w, j)
    PROVE  TypeInv'
PROOF
<1> DEFINE new == [at |-> "read", job |-> j, spec |-> spec, read |-> <<>>, overtaken |-> FALSE]
<1>1. j \in Jobs
  BY LenProperties, BoundsAssumption DEF TypeInv, Jobs
<1>2. <<>> \in ReadType
  <2>1. <<>> \in [{} -> SUBSET Artifacts]
    OBVIOUS
  <2> QED
    BY <2>1 DEF ReadType
<1>3. new \in Reading /\ new.job = j /\ new.at # "archived"
  BY <1>1, <1>2 DEF Reading, TypeInv
<1> QED
  BY <1>3 DEF TypeInv, Take

LEMMA ReadWorks ==
    ASSUME TypeInv, NEW w \in Workers, Read(w)
    PROVE  \E k \in ReadBy(KindOf(w)) :
              /\ k \in Kinds /\ work[w] \in Reading /\ k \notin DOMAIN work[w].read
              /\ work' = [work EXCEPT ![w].read =
                             [x \in DOMAIN work[w].read \cup {k} |->
                                 IF x = k THEN Latest(k) ELSE work[w].read[x]]]
PROOF
<1>1. KindOf(w) \in JobKinds
  <2>1. work[w] # Idle
    BY DEF Read, Idle
  <2>2. job[work[w].job] \in JobType
    BY <2>1, ElementOfSeq DEF TypeInv
  <2> QED
    BY <2>2 DEF KindOf, JobType
<1>2. work[w] \in Reading
  BY DEF TypeInv, Read, Idle, Reported
<1>3. \A i \in DOMAIN Reads(KindOf(w)) : Reads(KindOf(w))[i] \in ReadBy(KindOf(w))
  BY DEF ReadBy
<1> QED
  BY <1>1, <1>2, <1>3, KindsRead DEF Read

LEMMA LatestTyped ==
    ASSUME TypeInv, NEW k \in Kinds
    PROVE  Latest(k) \subseteq Sources(k)
PROOF
<1>1. log[k] # <<>> => log[k][Len(log[k])] \in Sources(k)
  BY EmptySeq, ElementOfSeq, LenProperties DEF TypeInv
<1> QED
  BY <1>1 DEF Latest

LEMMA ReadTyped ==
    ASSUME TypeInv, NEW w \in Workers, Read(w)
    PROVE  TypeInv'
PROOF
<1>1. PICK k \in Kinds :
         /\ work[w] \in Reading
         /\ work' = [work EXCEPT ![w].read =
                        [x \in DOMAIN work[w].read \cup {k} |->
                            IF x = k THEN Latest(k) ELSE work[w].read[x]]]
  BY ReadWorks
<1> DEFINE read == [x \in DOMAIN work[w].read \cup {k} |->
                       IF x = k THEN Latest(k) ELSE work[w].read[x]]
<1>2. read \in ReadType
  <2>1. PICK K \in SUBSET Kinds : work[w].read \in [K -> SUBSET Artifacts]
    BY <1>1 DEF Reading, ReadType
  <2>2. Latest(k) \in SUBSET Artifacts
    BY LatestTyped DEF Sources, Artifacts
  <2>3. read \in [K \cup {k} -> SUBSET Artifacts]
    BY <2>1, <2>2
  <2>4. K \cup {k} \in SUBSET Kinds
    OBVIOUS
  <2> QED
    BY <2>3, <2>4 DEF ReadType
<1> HIDE DEF read
<1>3. work'[w] = [work[w] EXCEPT !.read = read]
  BY <1>1 DEF TypeInv, read
<1>4. work'[w] \in Reading /\ work'[w].job = work[w].job /\ work[w] # Idle /\ work'[w].at = "read"
  BY <1>1, <1>2, <1>3 DEF Reading, Idle
<1>5. \A u \in Workers \ {w} : work'[u] = work[u]
  BY <1>1 DEF TypeInv
<1>6. work' \in [Workers -> {Idle} \cup Reading \cup Reported]
  BY <1>1, <1>4, <1>5 DEF TypeInv
<1>7. UNCHANGED <<log, cases, job, spec, edit, calls, drift, clash>>
  BY DEF Read
<1> QED
  BY <1>4, <1>5, <1>6, <1>7 DEF TypeInv

LEMMA RunType ==
    ASSUME TypeInv, NEW w \in Workers, Run(w)
    PROVE  TypeInv'
PROOF
<1>1. work[w] \in Reading /\ work[w] # Idle
  BY DEF TypeInv, Run, Idle, Reported
<1>2. KindOf(w) \in JobKinds
  <2>1. job[work[w].job] \in JobType
    BY <1>1, ElementOfSeq DEF TypeInv
  <2> QED
    BY <2>1 DEF KindOf, JobType
<1>3. PICK report \in Reports(KindOf(w), work[w].read) :
         work' = [work EXCEPT ![w] =
                     [at |-> "ran", job |-> work[w].job, spec |-> work[w].spec, report |-> report,
                      version |-> 0, overtaken |-> work[w].overtaken]]
  BY DEF Run
<1>4. report \in ReportType
  BY <1>2, ReportFacts
<1>5. work'[w] \in Reported /\ work'[w].job = work[w].job /\ work'[w].at = "ran"
  BY <1>1, <1>3, <1>4 DEF TypeInv, Reading, Reported
<1> QED
  BY <1>1, <1>3, <1>5 DEF TypeInv, Run

LEMMA ArchiveType ==
    ASSUME TypeInv, NEW w \in Workers, Archive(w)
    PROVE  TypeInv'
PROOF
<1>1. work[w] \in Reported /\ work[w] # Idle
  BY DEF TypeInv, Archive, Idle, Reading
<1>2. work'[w] = [[work[w] EXCEPT !.at = "archived"] EXCEPT !.version = Len(cases) + 1]
  BY DEF TypeInv, Archive
<1>3. Len(cases) + 1 \in Nat
  BY LenProperties DEF TypeInv
<1>4. work'[w] \in Reported /\ work'[w].job = work[w].job /\ work'[w].report = work[w].report
  BY <1>1, <1>2, <1>3 DEF Reported
<1>5. work[w].report.round # 0
  BY DEF Archive, Archived
<1> QED
  BY <1>1, <1>4, <1>5 DEF TypeInv, Archive

LEMMA AbortType ==
    ASSUME TypeInv, NEW w \in Workers, Abort(w)
    PROVE  TypeInv'
PROOF
  BY DEF TypeInv, Abort

(* The rewrites of the row, and the row of a stress job.                    *)
LEMMA KeptLimit ==
    ASSUME NEW S, NEW index \in Seq(S), Len(index) <= MaxIndex, NEW entry \in S
    PROVE  Kept(Append(index, entry)) \in Seq(S) /\ Len(Kept(Append(index, entry))) <= MaxIndex
PROOF
<1> DEFINE longer == Append(index, entry)
<1>1. longer \in Seq(S) /\ longer # <<>> /\ Len(longer) = Len(index) + 1 /\ Len(index) \in Nat
  BY AppendProperties, LenProperties
<1> HIDE DEF longer
<1>2. Tail(longer) \in Seq(S) /\ Len(Tail(longer)) = Len(longer) - 1
  BY <1>1, HeadTailProperties
<1> QED
  BY <1>1, <1>2, BoundsAssumption DEF Kept, longer

Entries == [version : Nat \ {0}, case : CaseType]

LEMMA StressDoneType ==
    ASSUME TypeInv, NEW w \in Workers, work[w] \in Reported, StressDone(w),
           work[w].at = "archived" => work[w].report.round # 0,
           work[w].report.reason \notin {"missing", "error"}
    PROVE  spec' \in Rows /\ cases' \in Seq(CaseType) /\ drift' \in BOOLEAN /\ clash' \in BOOLEAN
PROOF
<1> DEFINE q == work[w]
           index == q.spec.index
           entry == [version |-> q.version, case |-> Case(w)]
<1>1. q.spec \in Rows /\ q.job \in Jobs /\ q.overtaken \in BOOLEAN /\ q.report \in ReportType
      /\ index \in Seq(Entries) /\ Len(index) <= MaxIndex
  BY DEF Reported, Rows, SpecType, Entries
<1>2. LastOf(q.job, q.spec.last) \in [job : 0..MaxJobs, about : 0..MaxJobs]
  BY <1>1, BoundsAssumption DEF LastOf, Jobs
<1>3. CASE q.at = "archived"
  <2>1. Case(w) \in CaseType
    BY <1>1, <1>3 DEF Case, CaseType, ReportType, Failures
  <2>2. q.version = Len(cases) + 1 /\ Len(cases) \in Nat /\ cases' = Append(cases, Case(w))
    BY <1>3, LenProperties DEF TypeInv, StressDone
  <2>3. entry \in Entries
    BY <2>1, <2>2 DEF Entries
  <2>4. Kept(Append(index, entry)) \in Seq(Entries) /\ Len(Kept(Append(index, entry))) <= MaxIndex
    BY <1>1, <2>3, KeptLimit
  <2>5. cases' \in Seq(CaseType)
    BY <2>1, <2>2, AppendProperties DEF TypeInv
  <2>6. spec'.index = Kept(Append(index, entry)) /\ spec'.last = LastOf(q.job, q.spec.last)
        /\ spec'.verdict \in {"ok", "failed", q.spec.verdict}
        /\ spec' = [verdict |-> spec'.verdict, last |-> spec'.last, index |-> spec'.index]
    BY <1>3 DEF StressDone, Rewritten
  <2>7. spec' \in Rows
    BY <1>1, <1>2, <2>4, <2>6 DEF Rows, SpecType, Entries
  <2> QED
    BY <1>1, <2>5, <2>7 DEF StressDone, Rewritten, TypeInv
<1>4. CASE q.at # "archived"
  <2>1. cases' = cases
    BY <1>4 DEF StressDone
  <2>2. spec'.index = index /\ spec'.last = LastOf(q.job, q.spec.last)
        /\ spec'.verdict \in {"ok", "failed", q.spec.verdict}
        /\ spec' = [verdict |-> spec'.verdict, last |-> spec'.last, index |-> spec'.index]
    BY <1>4 DEF StressDone, Rewritten
  <2>3. spec' \in Rows
    BY <1>1, <1>2, <2>2 DEF Rows, SpecType
  <2> QED
    BY <1>1, <2>1, <2>3 DEF StressDone, Rewritten, TypeInv
<1> QED
  BY <1>3, <1>4

LEMMA FinishType ==
    ASSUME TypeInv, NEW w \in Workers, Finish(w)
    PROVE  TypeInv'
PROOF
<1> DEFINE q == work[w]
<1>1. q \in Reported /\ q # Idle
  BY DEF TypeInv, Finish, Idle, Reading
<1>2. spec' \in Rows /\ cases' \in Seq(CaseType) /\ drift' \in BOOLEAN /\ clash' \in BOOLEAN
  <2>1. CASE UNCHANGED <<cases, spec, drift, clash>>
    BY <2>1 DEF TypeInv
  <2>2. CASE StressDone(w) /\ q.report.reason \notin {"missing", "error"}
    BY <1>1, <2>2, StressDoneType DEF TypeInv
  <2> QED
    BY <2>1, <2>2 DEF Finish
<1>3. job' \in Seq(JobType) /\ Len(job') = Len(job)
  <2>1. PICK s \in {"failed", "done"} :
           job' = [[job EXCEPT ![q.job].status = s] EXCEPT ![q.job].result = q.report.reason]
    BY DEF Finish
  <2>2. q.job \in 1..Len(job) /\ q.report.reason \in Results
    BY <1>1 DEF TypeInv, Reported, ReportType, Failures, Results
  <2>3. [[job[q.job] EXCEPT !.status = s] EXCEPT !.result = q.report.reason] \in JobType
    <3>1. job[q.job] \in JobType
      BY <2>2, ElementOfSeq DEF TypeInv
    <3> QED
      BY <2>2, <3>1 DEF JobType
  <2>4. job' = [job EXCEPT ![q.job] = [[job[q.job] EXCEPT !.status = s] EXCEPT !.result = q.report.reason]]
    BY <2>1, <2>2, LenProperties DEF TypeInv
  <2> QED
    BY <2>2, <2>3, <2>4, ExceptSeq DEF TypeInv
<1>4. work' = [work EXCEPT ![w] = Idle] /\ UNCHANGED <<log, edit, calls>>
  BY DEF Finish
<1> QED
  BY <1>2, <1>3, <1>4 DEF TypeInv

LEMMA LoadType ==
    ASSUME TypeInv, NEW r \in Requests, NEW op \in Ops, Load(r, op)
    PROVE  TypeInv'
PROOF
<1>1. [at |-> op, spec |-> spec] \in Editing
  BY DEF TypeInv, Editing
<1> QED
  BY <1>1 DEF TypeInv, Load

(* A request that writes has loaded the row.                                *)
LEMMA WriteType ==
    ASSUME TypeInv, NEW r \in Requests, NEW op \in Ops, NEW new \in Rows, Write(r, op, new)
    PROVE  /\ edit[r] \in Editing /\ spec' = new
           /\ edit' \in [Requests -> {Idle} \cup Editing]
           /\ drift' \in BOOLEAN /\ clash' \in BOOLEAN
PROOF
<1>1. edit[r] \in Editing
  BY DEF TypeInv, Write, Idle, Ops
<1> QED
  BY <1>1 DEF TypeInv, Write, Rewritten

LEMMA RequestType ==
    ASSUME TypeInv, NEW r \in Requests,
           ImportCheck(r) \/ Dispatch(r) \/ Interpret(r) \/ Other(r) \/ Refuse(r)
    PROVE  TypeInv'
PROOF
<1>1. Len(job) \in Nat
  BY LenProperties DEF TypeInv
<1>2. "import_check" \in JobKinds /\ StressKinds \subseteq JobKinds
      /\ Ops = {"import_check", "dispatch", "interpret", "other"}
  BY DEF JobKinds, StressKinds, Ops
<1>3. ASSUME edit[r].at \in Ops
      PROVE  /\ edit[r].spec \in Rows
             /\ Len(job) < MaxJobs =>
                   [edit[r].spec EXCEPT !.last = [job |-> Len(job) + 1, about |-> 0]] \in Rows
             /\ [edit[r].spec EXCEPT !.last.about = edit[r].spec.last.job] \in Rows
  <2>1. edit[r] \in Editing
    BY <1>3 DEF TypeInv, Idle, Ops
  <2>2. edit[r].spec \in Rows
    BY <2>1 DEF Editing
  <2>3. PICK s \in Rows : s = edit[r].spec
    BY <2>2
  <2>4. s.last \in [job : 0..MaxJobs, about : 0..MaxJobs]
    BY DEF Rows, SpecType
  <2>5. ASSUME NEW l \in [job : 0..MaxJobs, about : 0..MaxJobs]
        PROVE  [s EXCEPT !.last = l] \in Rows
    BY DEF Rows, SpecType
  <2>6. Len(job) < MaxJobs =>
           [job |-> Len(job) + 1, about |-> 0] \in [job : 0..MaxJobs, about : 0..MaxJobs]
    BY <1>1, BoundsAssumption
  <2>7. Len(job) < MaxJobs => [s EXCEPT !.last = [job |-> Len(job) + 1, about |-> 0]] \in Rows
    BY <2>5, <2>6
  <2>8. [s EXCEPT !.last.about = s.last.job] \in Rows
    BY <2>4 DEF Rows, SpecType
  <2> QED
    BY <2>3, <2>7, <2>8
<1>4. CASE ImportCheck(r)
  <2>1. Write(r, "import_check", edit[r].spec) /\ edit[r].spec \in Rows
    BY <1>2, <1>3, <1>4 DEF ImportCheck, Write
  <2>2. job' \in Seq(JobType) /\ Len(job') = Len(job) + 1 /\ Len(job') <= MaxJobs
    BY <1>2, <1>4, QueuedType DEF ImportCheck
  <2> QED
    BY <1>1, <1>2, <1>4, <2>1, <2>2, WriteType DEF ImportCheck, TypeInv
<1>5. CASE Dispatch(r)
  <2> DEFINE new == [edit[r].spec EXCEPT !.last = [job |-> Len(job) + 1, about |-> 0]]
  <2>1. Write(r, "dispatch", new) /\ new \in Rows
    BY <1>2, <1>3, <1>5 DEF Dispatch, Write
  <2>2. job' \in Seq(JobType) /\ Len(job') = Len(job) + 1 /\ Len(job') <= MaxJobs
    BY <1>2, <1>5, QueuedType DEF Dispatch
  <2> HIDE DEF new
  <2> QED
    BY <1>1, <1>2, <1>5, <2>1, <2>2, WriteType DEF Dispatch, TypeInv
<1>6. CASE Interpret(r)
  BY <1>2, <1>3, <1>6, WriteType DEF Interpret, Write, TypeInv
<1>7. CASE Other(r)
  BY <1>2, <1>3, <1>7, WriteType DEF Other, Write, TypeInv
<1>8. CASE Refuse(r)
  BY <1>8 DEF Refuse, TypeInv
<1> QED
  BY <1>4, <1>5, <1>6, <1>7, <1>8

LEMMA NextType == TypeInv /\ [Next]_vars => TypeInv'
PROOF
<1> SUFFICES ASSUME TypeInv, [Next]_vars PROVE TypeInv'
  OBVIOUS
<1>1. CASE UNCHANGED vars
  BY <1>1 DEF vars, TypeInv
<1>2. CASE Next
  BY <1>2, SaveType, SubmitType, CancelType, RetryType, TakeType, ReadTyped, RunType, ArchiveType, FinishType, AbortType,
     LoadType, SeedBruteType, RequestType DEF Next
<1> QED
  BY <1>1, <1>2

LEMMA Typed == Spec => []TypeInv
PROOF
<1> QED
  BY InitType, NextType, PTL DEF Spec

(* For any workers, requests, stored artifacts and bounds, rows, reports    *)
(* and transactions keep their types: only a failure of a round is archived, *)
(* and the index stays within MAX_COUNTEREXAMPLES.                          *)
THEOREM TypeCorrect == Spec => []TypeOK
PROOF
<1>1. TypeInv => TypeOK
  <2> SUFFICES ASSUME TypeInv PROVE TypeOK
    OBVIOUS
  <2>1. DOMAIN job = 1..Len(job)
    BY LenProperties DEF TypeInv
  <2>2. \A w \in Workers : work[w] # Idle => work[w].job \in DOMAIN job /\ work[w].spec \in SpecType
    BY <2>1 DEF TypeInv, Reading, Reported, Rows
  <2>3. \A r \in Requests : edit[r] # Idle => edit[r].at \in Ops /\ edit[r].spec \in SpecType
    BY DEF TypeInv, Editing, Rows
  <2> QED
    BY <2>2, <2>3 DEF TypeInv, TypeOK, JobType, Rows
<1> QED
  BY <1>1, Typed, PTL

-----------------------------------------------------------------------------
(* What a step does to the logs, to the jobs and to the transaction of a    *)
(* worker.                                                                  *)

LEMMA Appended ==
    ASSUME NEW S, NEW seq \in Seq(S), NEW e
    PROVE  /\ Len(seq) \in Nat /\ DOMAIN seq = 1..Len(seq)
           /\ Len(Append(seq, e)) = Len(seq) + 1
           /\ DOMAIN Append(seq, e) = 1..(Len(seq) + 1)
           /\ \A i \in 1..Len(seq) : Append(seq, e)[i] = seq[i]
           /\ Append(seq, e)[Len(seq) + 1] = e
           /\ Append(seq, e) \in Seq(S \cup {e})
PROOF
<1>1. seq \in Seq(S \cup {e})
  BY SeqMonotonic
<1> QED
  BY <1>1, AppendProperties, LenProperties

LEMMA NewVersionLog ==
    ASSUME TypeInv, NEW k \in Kinds, NEW p, NewVersion(k, p)
    PROVE  /\ \A h \in Kinds : \A v \in DOMAIN log[h] : v \in DOMAIN log'[h] /\ log'[h][v] = log[h][v]
           /\ \A h \in Kinds \ {k} : log'[h] = log[h]
PROOF
<1>1. log[k] \in Seq(Sources(k))
  BY DEF TypeInv
<1>2. \A v \in DOMAIN log[k] : v \in DOMAIN Append(log[k], p) /\ Append(log[k], p)[v] = log[k][v]
  BY <1>1, Appended
<1>3. log' = [log EXCEPT ![k] = Append(log[k], p)] /\ DOMAIN log = Kinds
  BY DEF NewVersion, TypeInv
<1> QED
  BY <1>2, <1>3

LEMMA LogSteps ==
    ASSUME Next
    PROVE  UNCHANGED log \/ \E k \in Kinds, p \in Artifacts : NewVersion(k, p)
PROOF
<1>1. \A k \in Kinds : Stored[k] \subseteq Artifacts
  BY StoredAssumption DEF Sources, Artifacts
<1>2. SeededBrute \in Artifacts /\ "brute" \in Kinds
  BY SeedAssumption DEF Artifacts, Kinds
<1> QED
  BY <1>1, <1>2 DEF Next, Save, SeedBrute, Submit, Cancel, Retry, Take, Read, Run, Archive, Finish, Abort, Load,
     ImportCheck, Dispatch, Interpret, Other, Refuse

LEMMA LogGrows ==
    ASSUME TypeInv, Next
    PROVE  \A k \in Kinds : \A v \in DOMAIN log[k] : v \in DOMAIN log'[k] /\ log'[k][v] = log[k][v]
PROOF
  BY LogSteps, NewVersionLog

(* A worker goes on with what it has, or makes one step of its job.         *)
Same(w) ==
    /\ work[w] # Idle /\ work'[w].at = work[w].at /\ work'[w].job = work[w].job
    /\ work'[w].spec = work[w].spec
    /\ ~work'[w].overtaken => ~work[w].overtaken
    /\ work[w].at = "read" => work'[w].read = work[w].read
    /\ work[w].at # "read" => work'[w].report = work[w].report /\ work'[w].version = work[w].version

LEMMA NewVersionSame ==
    ASSUME TypeInv, NEW k \in Kinds, NEW p, NewVersion(k, p), NEW w \in Workers
    PROVE  work'[w] = Idle \/ Same(w)
PROOF
<1>1. CASE work'[w] = work[w]
  BY <1>1 DEF Same
<1>2. CASE work[w] \in Reading /\ work'[w] = [work[w] EXCEPT !.overtaken = @ \/ Judged(k)]
  BY <1>2 DEF Reading, Idle, Same
<1>3. CASE work[w] \in Reported /\ work'[w] = [work[w] EXCEPT !.overtaken = @ \/ Judged(k)]
  BY <1>3 DEF Reported, Idle, Same
<1>4. work[w] \in {Idle} \cup Reading \cup Reported
  BY DEF TypeInv
<1>5. work[w] = Idle => work'[w] = work[w]
  BY DEF NewVersion, Idle
<1> QED
  BY <1>1, <1>2, <1>3, <1>4, <1>5 DEF NewVersion

LEMMA WorkerSteps ==
    ASSUME TypeInv, Next, NEW w \in Workers
    PROVE  \/ work'[w] = Idle
           \/ Same(w)
           \/ \E j \in 1..Len(job) : Take(w, j)
           \/ Read(w) \/ Run(w) \/ Archive(w)
PROOF
<1>1. CASE work'[w] = work[w]
  BY <1>1 DEF Same
<1>2. ASSUME NEW k \in Kinds, NEW p, NewVersion(k, p) PROVE work'[w] = Idle \/ Same(w)
  BY <1>2, NewVersionSame
<1>3. ASSUME NEW u \in Workers, NEW e, work' = [work EXCEPT ![u] = e] PROVE u = w \/ work'[w] = work[w]
  BY <1>3 DEF TypeInv
<1>4. ASSUME NEW u \in Workers,
             \/ \E j \in 1..Len(job) : Take(u, j)
             \/ Read(u) \/ Run(u) \/ Archive(u) \/ Finish(u) \/ Abort(u)
      PROVE  u = w \/ work'[w] = work[w]
  <2>1. \E e : work' = [work EXCEPT ![u] = e]
    <3>1. CASE \E j \in 1..Len(job) : Take(u, j)
      BY <3>1 DEF Take
    <3>2. CASE Read(u)
      BY <3>2 DEF Read
    <3>3. CASE Run(u)
      BY <3>3 DEF Run
    <3>4. CASE Archive(u)
      BY <3>4 DEF Archive
    <3>5. CASE Finish(u) \/ Abort(u)
      BY <3>5 DEF Finish, Abort
    <3> QED
      BY <1>4, <3>1, <3>2, <3>3, <3>4, <3>5
  <2> QED
    BY <2>1, <1>3
<1>5. Finish(w) \/ Abort(w) => work'[w] = Idle
  BY DEF Finish, Abort, TypeInv
<1>6. CASE UNCHANGED work
  BY <1>1, <1>6
<1>7. "brute" \in Kinds
  BY DEF Kinds
<1> QED
  BY <1>1, <1>2, <1>4, <1>5, <1>6, <1>7 DEF Next, Save, SeedBrute, Submit, Cancel, Retry, Load,
     ImportCheck, Dispatch, Interpret, Other, Refuse, Write

(* A job that has ended, or had before it was retried. *)
Past(row) == row.status # "queued" \/ row.retried

LEMMA JobSteps ==
    ASSUME TypeInv, Next
    PROVE  /\ DOMAIN job \subseteq DOMAIN job'
           /\ \A j \in DOMAIN job :
                 /\ job'[j].kind = job[j].kind
                 /\ Past(job[j]) => Past(job'[j])
                 /\ \/ job'[j] = job[j]
                    \/ \E w \in Workers : Finish(w) /\ work[w].job = j
                    \/ job'[j].status = "cancelled" /\ job'[j].result = "cancelled"
                    \/ job'[j].status = "queued" /\ job'[j].result = "none"
           /\ \A j \in DOMAIN job' \ DOMAIN job :
                 job'[j].status = "queued" /\ job'[j].result = "none"
           /\ \A w \in Workers :
                 Finish(w) => job'[work[w].job].status # "queued"
                              /\ job'[work[w].job].result = work[w].report.reason
PROOF
<1> DEFINE Goal ==
           /\ DOMAIN job \subseteq DOMAIN job'
           /\ \A j \in DOMAIN job :
                 /\ job'[j].kind = job[j].kind
                 /\ Past(job[j]) => Past(job'[j])
                 /\ \/ job'[j] = job[j]
                    \/ \E w \in Workers : Finish(w) /\ work[w].job = j
                    \/ job'[j].status = "cancelled" /\ job'[j].result = "cancelled"
                    \/ job'[j].status = "queued" /\ job'[j].result = "none"
           /\ \A j \in DOMAIN job' \ DOMAIN job :
                 job'[j].status = "queued" /\ job'[j].result = "none"
<1>1. DOMAIN job = 1..Len(job) /\ Len(job) \in Nat
  BY LenProperties DEF TypeInv
<1>2. ASSUME NEW w \in Workers, Finish(w)
      PROVE  Goal /\ job'[work[w].job].status # "queued"
             /\ job'[work[w].job].result = work[w].report.reason
  <2> DEFINE q == work[w]
  <2>1. q.job \in DOMAIN job
    BY <1>1, <1>2 DEF TypeInv, Finish, Idle
  <2>2. PICK s \in {"failed", "done"} :
           job' = [[job EXCEPT ![q.job].status = s] EXCEPT ![q.job].result = q.report.reason]
    BY <1>2 DEF Finish
  <2>3. job[q.job] \in JobType
    BY <1>1, <2>1, ElementOfSeq DEF TypeInv
  <2>4. job'[q.job] = [[job[q.job] EXCEPT !.status = s] EXCEPT !.result = q.report.reason]
        /\ DOMAIN job' = DOMAIN job /\ \A j \in DOMAIN job : j # q.job => job'[j] = job[j]
    BY <2>1, <2>2
  <2>5. job'[q.job].kind = job[q.job].kind /\ job'[q.job].status = s
        /\ job'[q.job].result = q.report.reason
    BY <2>3, <2>4 DEF JobType
  <2> QED
    BY <1>2, <2>1, <2>4, <2>5 DEF Past
<1>3. ASSUME NEW kind \in JobKinds, Len(job) < MaxJobs, job' = Append(job, Queued(kind)) PROVE Goal
  <2>1. /\ job' \in Seq(JobType) /\ Len(job') = Len(job) + 1
        /\ \A j \in 1..Len(job) : job'[j] = job[j]
    BY <1>3, QueuedType
  <2>2. DOMAIN job' = 1..(Len(job) + 1)
    BY <2>1, LenProperties
  <2>3. job'[Len(job) + 1] = Queued(kind)
    <3>1. Queued(kind) \in JobType
      BY DEF Queued, JobType, Results
    <3> QED
      BY <1>3, <3>1, AppendProperties DEF TypeInv
  <2> QED
    BY <1>1, <2>1, <2>2, <2>3 DEF Queued
<1>4. ASSUME UNCHANGED job PROVE Goal
  BY <1>4
<1>5. ASSUME NEW j \in 1..Len(job), Cancel(j) PROVE Goal
  <2>1. job[j] \in JobType
    BY ElementOfSeq DEF TypeInv
  <2>2. /\ DOMAIN job' = DOMAIN job /\ \A i \in DOMAIN job : i # j => job'[i] = job[i]
        /\ job'[j] = [[job[j] EXCEPT !.status = "cancelled"] EXCEPT !.result = "cancelled"]
    BY <1>1, <1>5 DEF Cancel
  <2>3. job'[j].kind = job[j].kind /\ job'[j].status = "cancelled" /\ job'[j].result = "cancelled"
    BY <2>1, <2>2 DEF JobType
  <2> QED
    BY <2>2, <2>3 DEF Past
<1>6. ASSUME NEW j \in 1..Len(job), Retry(j) PROVE Goal
  <2>1. /\ DOMAIN job' = DOMAIN job /\ \A i \in DOMAIN job : i # j => job'[i] = job[i]
        /\ job'[j] = [Queued(job[j].kind) EXCEPT !.retried = TRUE]
    BY <1>1, <1>6 DEF Retry
  <2>2. job'[j].kind = job[j].kind /\ job'[j].status = "queued" /\ job'[j].result = "none"
        /\ job'[j].retried
    BY <2>1 DEF Queued
  <2> QED
    BY <2>1, <2>2 DEF Past
<1>7. \/ UNCHANGED job \/ \E w \in Workers : Finish(w)
      \/ \E j \in 1..Len(job) : Cancel(j) \/ Retry(j)
      \/ \E kind \in JobKinds : Len(job) < MaxJobs /\ job' = Append(job, Queued(kind))
  <2>1. Submitted \subseteq JobKinds /\ StressKinds \subseteq JobKinds /\ "import_check" \in JobKinds
    BY SubmittedAssumption DEF JobKinds, StressKinds
  <2> QED
    BY <2>1 DEF Next, Save, SeedBrute, Submit, Take, Read, Run, Archive, Abort, Load,
       ImportCheck, Dispatch, Interpret, Other, Refuse
<1> QED
  BY <1>2, <1>3, <1>4, <1>5, <1>6, <1>7

-----------------------------------------------------------------------------
(* The row of spec_json and the copies of it.                               *)

LEMMA CopiesKept ==
    ASSUME TypeInv, Next
    PROVE  /\ \A w \in Workers : work'[w] # Idle =>
                 work'[w].spec = spec \/ (work[w] # Idle /\ work'[w].spec = work[w].spec)
           /\ \A r \in Requests : edit'[r] # Idle =>
                 edit'[r] = edit[r] \/ (\E op \in Ops : Load(r, op) /\ edit'[r] = [at |-> op, spec |-> spec])
PROOF
<1>1. ASSUME NEW w \in Workers, work'[w] # Idle
      PROVE  work'[w].spec = spec \/ (work[w] # Idle /\ work'[w].spec = work[w].spec)
  <2>1. CASE Same(w)
    BY <2>1 DEF Same
  <2>2. CASE \E j \in 1..Len(job) : Take(w, j)
    BY <2>2 DEF Take, TypeInv
  <2>3. CASE Read(w)
    <3>1. PICK e : work[w] \in Reading /\ work' = [work EXCEPT ![w].read = e]
      BY <2>3, ReadWorks
    <3> QED
      BY <3>1 DEF TypeInv, Reading, Idle
  <2>4. CASE Run(w)
    BY <2>4 DEF Run, TypeInv, Idle
  <2>5. CASE Archive(w)
    <3>1. work[w] \in Reported /\ work[w] # Idle
      BY <2>5 DEF Archive, TypeInv, Idle, Reading
    <3> QED
      BY <2>5, <3>1 DEF Archive, TypeInv, Reported
  <2> QED
    BY <1>1, <2>1, <2>2, <2>3, <2>4, <2>5, WorkerSteps
<1>2. ASSUME NEW r \in Requests, edit'[r] # Idle
      PROVE  edit'[r] = edit[r] \/ (\E op \in Ops : Load(r, op) /\ edit'[r] = [at |-> op, spec |-> spec])
  <2>1. ASSUME NEW s \in Requests, edit' = [edit EXCEPT ![s] = Idle] PROVE edit'[r] = edit[r]
    BY <1>2, <2>1 DEF TypeInv
  <2>2. ASSUME NEW s \in Requests, NEW op \in Ops, Load(s, op)
        PROVE  edit'[r] = edit[r] \/ (Load(r, op) /\ edit'[r] = [at |-> op, spec |-> spec])
    BY <2>2 DEF TypeInv, Load
  <2>3. CASE UNCHANGED edit
    BY <2>3
  <2> QED
    BY <2>1, <2>2, <2>3 DEF Next, Save, SeedBrute, Submit, Cancel, Retry, Take, Read, Run, Archive, Finish, Abort,
       ImportCheck, Dispatch, Interpret, Other, Refuse, Write
<1> QED
  BY <1>1, <1>2

LEMMA RowWritten ==
    ASSUME TypeInv, Next
    PROVE  \/ UNCHANGED <<spec, cases, clash>>
           \/ \E w \in Workers : Finish(w) /\ StressDone(w) /\ work[w] \in Reported /\ work[w] # Idle
           \/ /\ UNCHANGED cases
              /\ \E r \in Requests : ImportCheck(r) \/ Dispatch(r) \/ Interpret(r) \/ Other(r)
PROOF
<1>1. ASSUME NEW w \in Workers, Finish(w)
      PROVE  \/ UNCHANGED <<spec, cases, clash>>
             \/ StressDone(w) /\ work[w] \in Reported /\ work[w] # Idle
  <2>1. work[w] \in Reported /\ work[w] # Idle
    BY <1>1 DEF TypeInv, Finish, Idle, Reading
  <2> QED
    BY <1>1, <2>1 DEF Finish
<1> QED
  BY <1>1 DEF Next, Save, SeedBrute, Submit, Cancel, Retry, Take, Read, Run, Archive, Abort, Load,
     ImportCheck, Dispatch, Interpret, Other, Refuse

(* What a request writes.                                                   *)
LEMMA RequestWrites ==
    ASSUME TypeInv, NEW r \in Requests,
           ImportCheck(r) \/ Dispatch(r) \/ Interpret(r) \/ Other(r)
    PROVE  /\ edit[r] \in Editing /\ edit[r] # Idle
           /\ spec'.verdict = edit[r].spec.verdict /\ spec'.index = edit[r].spec.index
           /\ clash' = (clash \/ spec.index # edit[r].spec.index)
           /\ drift' = (drift \/ spec.verdict # edit[r].spec.verdict)
           /\ \/ spec'.last = edit[r].spec.last
              \/ spec'.last = [job |-> Len(job) + 1, about |-> 0] /\ Len(job') = Len(job) + 1
              \/ /\ edit[r].at = "interpret"
                 /\ spec'.last = [job |-> edit[r].spec.last.job, about |-> edit[r].spec.last.job]
PROOF
<1>1. edit[r] \in Editing /\ edit[r] # Idle
  BY DEF TypeInv, ImportCheck, Dispatch, Interpret, Other, Write, Idle
<1>2. edit[r].spec \in Rows
  BY <1>1 DEF Editing
<1>3. CASE ImportCheck(r) \/ Other(r)
  BY <1>1, <1>3 DEF ImportCheck, Other, Write, Rewritten
<1>4. CASE Dispatch(r)
  <2>1. spec' = [edit[r].spec EXCEPT !.last = [job |-> Len(job) + 1, about |-> 0]]
        /\ clash' = (clash \/ spec.index # edit[r].spec.index)
        /\ drift' = (drift \/ spec.verdict # edit[r].spec.verdict)
    BY <1>4 DEF Dispatch, Write, Rewritten
  <2>2. Len(job') = Len(job) + 1
    <3>1. StressKinds \subseteq JobKinds
      BY DEF JobKinds
    <3> QED
      BY <1>4, <3>1, QueuedType DEF Dispatch
  <2> QED
    BY <1>1, <1>2, <2>1, <2>2 DEF Rows, SpecType
<1>5. CASE Interpret(r)
  <2>1. spec' = [edit[r].spec EXCEPT !.last.about = edit[r].spec.last.job]
        /\ clash' = (clash \/ spec.index # edit[r].spec.index)
        /\ drift' = (drift \/ spec.verdict # edit[r].spec.verdict)
        /\ edit[r].at = "interpret"
    BY <1>5 DEF Interpret, Write, Rewritten
  <2>2. spec'.last = [edit[r].spec.last EXCEPT !.about = edit[r].spec.last.job]
        /\ spec'.verdict = edit[r].spec.verdict /\ spec'.index = edit[r].spec.index
    BY <1>2, <2>1 DEF Rows, SpecType
  <2>3. spec'.last = [job |-> edit[r].spec.last.job, about |-> edit[r].spec.last.job]
    BY <1>2, <2>2 DEF Rows, SpecType
  <2> QED
    BY <1>1, <2>1, <2>2, <2>3
<1> QED
  BY <1>3, <1>4, <1>5

(* What a stress job writes.                                                *)
LEMMA JobWrites ==
    ASSUME TypeInv, NEW w \in Workers, StressDone(w), work[w] \in Reported
    PROVE  /\ spec'.verdict = IF KindOf(w) = "import_check"
                              THEN IF work[w].report.reason = "ok" THEN "ok" ELSE "failed"
                              ELSE work[w].spec.verdict
           /\ spec'.last = [job |-> work[w].job, about |-> work[w].job]
           /\ clash' = (clash \/ spec.index # work[w].spec.index)
           /\ \/ work[w].at # "archived" /\ cases' = cases /\ spec'.index = work[w].spec.index
              \/ /\ work[w].at = "archived" /\ cases' = Append(cases, Case(w))
                 /\ spec'.index = Kept(Append(work[w].spec.index,
                                              [version |-> Len(cases) + 1, case |-> Case(w)]))
PROOF
<1>1. CASE work[w].at = "archived"
  BY <1>1 DEF StressDone, Rewritten, LastOf
<1>2. CASE work[w].at # "archived"
  BY <1>2 DEF StressDone, Rewritten, LastOf
<1> QED
  BY <1>1, <1>2

-----------------------------------------------------------------------------
(* Interpretations. *)

Ended(j) == j \in DOMAIN job /\ Past(job[j])

(* A version of the row speaks about the last job, when that has ended.     *)
Interprets(s) ==
    /\ s.last.job \in 0..Len(job)
    /\ s.last.about # 0 => s.last.about = s.last.job /\ Ended(s.last.job)

InterpretationInv ==
    /\ Interprets(spec)
    /\ \A w \in Workers : work[w] # Idle => Interprets(work[w].spec)
    /\ \A r \in Requests : edit[r] # Idle =>
          Interprets(edit[r].spec) /\ (edit[r].at = "interpret" => Ended(edit[r].spec.last.job))
    /\ \A j \in DOMAIN job : job[j].result # "none" => job[j].status # "queued"

LEMMA InterpretsStays ==
    ASSUME TypeInv, Next, NEW s \in Rows
    PROVE  /\ Interprets(s) => Interprets(s)'
           /\ \A j \in Nat : Ended(j) => Ended(j)'
           /\ Len(job) \in Nat /\ Len(job') \in Nat /\ Len(job) <= Len(job')
PROOF
<1>1. DOMAIN job = 1..Len(job) /\ Len(job) \in Nat
  BY LenProperties DEF TypeInv
<1>2. DOMAIN job' = 1..Len(job') /\ Len(job') \in Nat
  BY NextType, LenProperties DEF TypeInv
<1>3. \A j \in Nat : Ended(j) => Ended(j)'
  BY JobSteps DEF Ended
<1>4. Len(job) <= Len(job')
  BY <1>1, <1>2, JobSteps
<1>5. s.last.job \in Nat
  BY DEF Rows, SpecType
<1> QED
  BY <1>1, <1>2, <1>3, <1>4, <1>5 DEF Interprets

LEMMA NextInterpretation ==
    ASSUME TypeInv, InterpretationInv, Next
    PROVE  InterpretationInv'
PROOF
<1>0. DOMAIN job = 1..Len(job) /\ Len(job) \in Nat /\ spec \in Rows
      /\ DOMAIN job' = 1..Len(job') /\ Len(job') \in Nat
  BY NextType, LenProperties DEF TypeInv
<1>1. Interprets(spec)'
  <2>1. CASE UNCHANGED spec
    BY <2>1, <1>0, InterpretsStays DEF InterpretationInv, Interprets, Ended
  <2>2. ASSUME NEW w \in Workers, Finish(w), StressDone(w), work[w] \in Reported, work[w] # Idle
        PROVE  Interprets(spec)'
    <3>1. work[w].job \in DOMAIN job /\ work[w].job \in Nat
      BY <1>0, <2>2 DEF TypeInv
    <3>2. work[w].job \in DOMAIN job' /\ job'[work[w].job].status # "queued"
      BY <2>2, <3>1, JobSteps
    <3>3. spec'.last = [job |-> work[w].job, about |-> work[w].job]
      BY <2>2, JobWrites
    <3> QED
      BY <1>0, <3>1, <3>2, <3>3 DEF Interprets, Ended, Past
  <2>3. ASSUME NEW r \in Requests, ImportCheck(r) \/ Dispatch(r) \/ Interpret(r) \/ Other(r)
        PROVE  Interprets(spec)'
    <3>1. PICK old \in Rows :
             old = edit[r].spec /\ Interprets(old) /\ (edit[r].at = "interpret" => Ended(old.last.job))
      BY <2>3, RequestWrites DEF InterpretationInv, Editing
    <3>2. old.last.job \in Nat
      BY <3>1 DEF Rows, SpecType
    <3>3. Interprets(old)' /\ (edit[r].at = "interpret" => Ended(old.last.job)')
      BY <3>1, <3>2, InterpretsStays
    <3>4. CASE spec'.last = old.last
      BY <3>3, <3>4 DEF Interprets, Ended
    <3>5. CASE spec'.last = [job |-> Len(job) + 1, about |-> 0] /\ Len(job') = Len(job) + 1
      BY <1>0, <3>5 DEF Interprets
    <3>6. CASE /\ edit[r].at = "interpret"
               /\ spec'.last = [job |-> old.last.job, about |-> old.last.job]
      BY <1>0, <3>3, <3>6 DEF Interprets, Ended
    <3> QED
      BY <2>3, <3>1, <3>4, <3>5, <3>6, RequestWrites
  <2> QED
    BY <2>1, <2>2, <2>3, RowWritten
<1>2. ASSUME NEW w \in Workers, work'[w] # Idle PROVE Interprets(work[w].spec)'
  <2>1. PICK s \in Rows : work'[w].spec = s /\ Interprets(s)
    <3>1. work'[w].spec = spec \/ (work[w] # Idle /\ work'[w].spec = work[w].spec)
      BY <1>2, CopiesKept
    <3>2. work[w] # Idle => work[w].spec \in Rows
      BY DEF TypeInv, Reading, Reported
    <3> QED
      BY <1>0, <3>1, <3>2 DEF InterpretationInv
  <2>2. Interprets(s)'
    BY <2>1, InterpretsStays
  <2> QED
    BY <2>1, <2>2 DEF Interprets, Ended
<1>3. ASSUME NEW r \in Requests, edit'[r] # Idle
      PROVE  Interprets(edit[r].spec)' /\ (edit'[r].at = "interpret" => Ended(edit[r].spec.last.job)')
  <2>1. PICK s \in Rows : /\ edit'[r].spec = s /\ Interprets(s)
                          /\ edit'[r].at = "interpret" => Ended(s.last.job)
    <3>1. CASE edit'[r] = edit[r]
      <4>1. edit[r].spec \in Rows
        BY <1>3, <3>1 DEF TypeInv, Editing
      <4> QED
        BY <1>3, <3>1, <4>1 DEF InterpretationInv
    <3>2. ASSUME NEW op \in Ops, Load(r, op), edit'[r] = [at |-> op, spec |-> spec]
          PROVE  Interprets(spec) /\ (op = "interpret" => Ended(spec.last.job))
      <4>1. Interprets(spec)
        BY DEF InterpretationInv
      <4>2. ASSUME op = "interpret" PROVE Ended(spec.last.job)
        <5>1. spec.last.job # 0 /\ job[spec.last.job].result # "none"
          BY <3>2, <4>2 DEF Load
        <5>2. spec.last.job \in DOMAIN job
          BY <1>0, <4>1, <5>1 DEF Interprets
        <5> QED
          BY <5>1, <5>2 DEF InterpretationInv, Ended, Past
      <4> QED
        BY <4>1, <4>2
    <3>3. CASE edit'[r] # edit[r]
      <4>1. PICK op \in Ops : Load(r, op) /\ edit'[r] = [at |-> op, spec |-> spec]
        BY <1>3, <3>3, CopiesKept
      <4>2. edit'[r].spec = spec /\ edit'[r].at = op
        BY <4>1
      <4> QED
        BY <1>0, <3>2, <4>1, <4>2
    <3> QED
      BY <3>1, <3>3
  <2>2. s.last.job \in Nat
    BY DEF Rows, SpecType
  <2>3. Interprets(s)' /\ (edit'[r].at = "interpret" => Ended(s.last.job)')
    BY <2>1, <2>2, InterpretsStays
  <2> QED
    BY <2>1, <2>3 DEF Interprets, Ended
<1>4. ASSUME NEW j \in DOMAIN job', job'[j].result # "none" PROVE job'[j].status # "queued"
  BY <1>4, JobSteps DEF InterpretationInv
<1> QED
  BY <1>1, <1>2, <1>3, <1>4 DEF InterpretationInv

(* With any number of workers and requests that rewrite spec_json from the  *)
(* rows they loaded, an interpretation is stored with the job it is about,  *)
(* and only when that job has ended, though it may have been retried since.  *)
THEOREM InterpretationsMatch == Spec => []InterpretationOfJob
PROOF
<1>1. Init => InterpretationInv
  BY DEF Init, InterpretationInv, Interprets
<1>2. TypeInv /\ InterpretationInv /\ [Next]_vars => InterpretationInv'
  <2> SUFFICES ASSUME TypeInv, InterpretationInv, [Next]_vars PROVE InterpretationInv'
    OBVIOUS
  <2>1. CASE UNCHANGED vars
    BY <2>1 DEF vars, InterpretationInv, Interprets, Ended, Past
  <2> QED
    BY <2>1, NextInterpretation
<1>3. InterpretationInv => InterpretationOfJob
  BY DEF InterpretationInv, Interprets, Ended, Past, InterpretationOfJob
<1> QED
  BY <1>1, <1>2, <1>3, Typed, PTL DEF Spec

-----------------------------------------------------------------------------
(* The index of counterexamples. *)

(* The limit drops at most the first entry, and only from a full index.     *)
LEMMA KeptEntries ==
    ASSUME NEW S, NEW index \in Seq(S), Len(index) <= MaxIndex, NEW e
    PROVE  \E d \in {0, 1} :
              /\ DOMAIN Kept(Append(index, e)) = 1..(Len(index) + 1 - d)
              /\ Len(Kept(Append(index, e))) = Len(index) + 1 - d
              /\ \A n \in 1..(Len(index) + 1 - d) : Kept(Append(index, e))[n] = Append(index, e)[n + d]
              /\ d = 1 => Len(index) = MaxIndex
PROOF
<1> DEFINE longer == Append(index, e)
<1>1. longer \in Seq(S \cup {e}) /\ Len(longer) = Len(index) + 1 /\ Len(index) \in Nat
      /\ DOMAIN longer = 1..(Len(index) + 1)
  BY Appended
<1> HIDE DEF longer
<1>2. CASE Len(longer) > MaxIndex
  <2>1. longer # <<>>
    BY <1>1
  <2>2. Tail(longer) \in Seq(S \cup {e}) /\ Len(Tail(longer)) = Len(longer) - 1
        /\ \A n \in 1..Len(Tail(longer)) : Tail(longer)[n] = longer[n + 1]
    BY <1>1, <2>1, HeadTailProperties
  <2>3. DOMAIN Tail(longer) = 1..Len(Tail(longer))
    BY <2>2, LenProperties
  <2>4. Kept(longer) = Tail(longer)
    BY <1>2 DEF Kept
  <2>5. Len(index) = MaxIndex
    BY <1>1, <1>2, BoundsAssumption
  <2> QED
    BY <1>1, <2>2, <2>3, <2>4, <2>5 DEF longer
<1>3. CASE ~(Len(longer) > MaxIndex)
  BY <1>1, <1>3 DEF Kept, longer
<1> QED
  BY <1>2, <1>3

(* The index of a version of the row: it leads to the cases, in their order, *)
(* and no entry is further from the newest case than from the index's end.  *)
Indexes(s) ==
    \A n \in DOMAIN s.index :
        /\ s.index[n].version \in DOMAIN cases /\ cases[s.index[n].version] = s.index[n].case
        /\ \A m \in 1..(n - 1) : s.index[m].version < s.index[n].version
        /\ s.index[n].version + (Len(s.index) - n) <= Len(cases)

(* The latest cases are in the index. *)
Covers(s) ==
    \A v \in DOMAIN cases :
        v > Len(cases) - MaxIndex => \E n \in DOMAIN s.index : s.index[n].version = v

IndexInv ==
    /\ Indexes(spec)
    /\ \A w \in Workers : work[w] # Idle => Indexes(work[w].spec)
    /\ \A r \in Requests : edit[r] # Idle => Indexes(edit[r].spec)
    /\ ~clash => Covers(spec)

LEMMA RowFacts ==
    ASSUME NEW s \in Rows
    PROVE  /\ s.index \in Seq(Entries) /\ Len(s.index) <= MaxIndex /\ Len(s.index) \in Nat
           /\ DOMAIN s.index = 1..Len(s.index)
           /\ \A n \in DOMAIN s.index : s.index[n].version \in Nat
PROOF
<1>1. s.index \in Seq(Entries) /\ Len(s.index) <= MaxIndex
  BY DEF Rows, SpecType, Entries
<1>2. DOMAIN s.index = 1..Len(s.index) /\ Len(s.index) \in Nat
  BY <1>1, LenProperties
<1>3. \A n \in DOMAIN s.index : s.index[n] \in Entries
  BY <1>1, <1>2, ElementOfSeq
<1> QED
  BY <1>1, <1>2, <1>3 DEF Entries

LEMMA CasesGrow ==
    ASSUME TypeInv, Next
    PROVE  cases' = cases \/ \E e : cases' = Append(cases, e)
PROOF
  BY RowWritten, JobWrites

(* More cases do no harm to an old index. *)
LEMMA IndexesStays ==
    ASSUME TypeInv, Next, NEW s \in Rows, Indexes(s)
    PROVE  Indexes(s)'
PROOF
<1>1. CASE cases' = cases
  BY <1>1 DEF Indexes
<1>2. ASSUME NEW e, cases' = Append(cases, e) PROVE Indexes(s)'
  <2>1. /\ Len(cases) \in Nat /\ DOMAIN cases = 1..Len(cases)
        /\ Len(cases') = Len(cases) + 1 /\ DOMAIN cases' = 1..(Len(cases) + 1)
        /\ \A v \in 1..Len(cases) : cases'[v] = cases[v]
    BY <1>2, Appended DEF TypeInv
  <2> QED
    BY <2>1, RowFacts DEF Indexes
<1> QED
  BY <1>1, <1>2, CasesGrow

(* A case and its entry are added together. *)
LEMMA EntryAdded ==
    ASSUME TypeInv, NEW old \in Rows, Indexes(old), NEW case, cases' = Append(cases, case),
           spec'.index = Kept(Append(old.index, [version |-> Len(cases) + 1, case |-> case]))
    PROVE  Indexes(spec)' /\ (Covers(old) => Covers(spec)')
PROOF
<1> DEFINE entry == [version |-> Len(cases) + 1, case |-> case]
           longer == Append(old.index, entry)
           L == Len(old.index)
           C == Len(cases)
           new == spec'.index
<1>1. /\ C \in Nat /\ DOMAIN cases = 1..C
      /\ Len(cases') = C + 1 /\ DOMAIN cases' = 1..(C + 1)
      /\ \A v \in 1..C : cases'[v] = cases[v]
      /\ cases'[C + 1] = case
  BY Appended DEF TypeInv
<1>2. /\ L \in Nat /\ L <= MaxIndex /\ DOMAIN old.index = 1..L
      /\ \A n \in 1..L : longer[n] = old.index[n] /\ old.index[n].version \in Nat
      /\ longer[L + 1] = entry
  BY RowFacts, Appended
<1>3. PICK d \in {0, 1} :
         /\ DOMAIN new = 1..(L + 1 - d) /\ Len(new) = L + 1 - d
         /\ \A n \in 1..(L + 1 - d) : new[n] = longer[n + d]
         /\ d = 1 => L = MaxIndex
  BY <1>2, RowFacts, KeptEntries
<1>4. /\ \A n \in 1..(L - d) : new[n] = old.index[n + d] /\ n + d \in 1..L
      /\ L + 1 - d \in 1..(L + 1 - d) /\ new[L + 1 - d] = entry
  <2> HIDE DEF longer, new, L, entry
  <2>1. L + 1 - d \in 1..(L + 1 - d) /\ (L + 1 - d) + d = L + 1
    BY <1>2, <1>3, BoundsAssumption
  <2>2. new[L + 1 - d] = entry
    BY <1>2, <1>3, <2>1
  <2>3. ASSUME NEW n \in 1..(L - d)
        PROVE  n \in 1..(L + 1 - d) /\ n + d \in 1..L
    BY <1>2
  <2> QED
    BY <1>2, <1>3, <2>1, <2>2, <2>3
<1>5. entry.version = C + 1 /\ entry.case = case
  OBVIOUS
<1> HIDE DEF entry, longer, new, L, C
<1>6. ASSUME NEW n \in 1..(L + 1 - d)
      PROVE  /\ new[n].version \in DOMAIN cases' /\ cases'[new[n].version] = new[n].case
             /\ \A m \in 1..(n - 1) : new[m].version < new[n].version
             /\ new[n].version + (Len(new) - n) <= Len(cases')
  <2>1. CASE n = L + 1 - d
    <3>1. new[n].version = C + 1 /\ new[n].case = case
      BY <2>1, <1>4, <1>5
    <3>2. ASSUME NEW m \in 1..(n - 1) PROVE new[m].version < C + 1
      <4>1. m \in 1..(L - d)
        BY <1>2, <1>3, <2>1
      <4>2. new[m] = old.index[m + d] /\ m + d \in DOMAIN old.index
        BY <1>2, <1>4, <4>1
      <4>3. new[m].version \in 1..C
        BY <1>1, <4>2 DEF Indexes
      <4> QED
        BY <1>1, <4>3
    <3> QED
      BY <1>1, <1>2, <1>3, <2>1, <3>1, <3>2
  <2>2. CASE n # L + 1 - d
    <3>1. n \in 1..(L - d) /\ n + d \in 1..L /\ new[n] = old.index[n + d]
      <4>1. n \in 1..(L - d)
        BY <1>2, <2>2
      <4> QED
        BY <1>4, <4>1
    <3>2. /\ new[n].version \in 1..C /\ cases[new[n].version] = new[n].case
          /\ new[n].version + (L - (n + d)) <= C
      BY <1>1, <1>2, <3>1 DEF Indexes, L, C
    <3>3. ASSUME NEW m \in 1..(n - 1) PROVE new[m].version < new[n].version
      <4>1. m \in 1..(L - d) /\ new[m] = old.index[m + d] /\ m + d \in 1..((n + d) - 1)
        BY <1>2, <1>3, <1>4, <3>1
      <4>2. n + d \in DOMAIN old.index
        BY <1>2, <3>1
      <4>3. old.index[m + d].version < old.index[n + d].version
        BY <4>1, <4>2 DEF Indexes
      <4> QED
        BY <3>1, <4>1, <4>3
    <3>4. new[n].version \in DOMAIN cases' /\ cases'[new[n].version] = new[n].case
      BY <1>1, <3>2
    <3>5. new[n].version + (Len(new) - n) <= Len(cases')
      <4>1. PICK v \in Nat : v = new[n].version /\ v + (L - (n + d)) <= C
        BY <3>2
      <4>2. v + ((L + 1 - d) - n) <= C + 1
        BY <1>1, <1>2, <4>1
      <4> QED
        BY <1>1, <1>3, <4>1, <4>2
    <3> QED
      BY <3>3, <3>4, <3>5
  <2> QED
    BY <2>1, <2>2
<1>7. ASSUME Covers(old), NEW v \in DOMAIN cases', v > Len(cases') - MaxIndex
      PROVE  \E n \in DOMAIN new : new[n].version = v
  <2>1. CASE v = C + 1
    <3>1. L + 1 - d \in DOMAIN new
      BY <1>2, <1>3, BoundsAssumption
    <3> QED
      BY <2>1, <3>1, <1>4, <1>5
  <2>2. CASE v # C + 1
    <3>1. v \in 1..C /\ v > C - MaxIndex
      BY <1>1, <1>7, <2>2, BoundsAssumption
    <3>2. PICK n \in 1..L : old.index[n].version = v
      BY <1>1, <1>2, <1>7, <3>1 DEF Covers, C
    <3>3. v + (L - n) <= C
      BY <1>2, <3>2 DEF Indexes, L, C
    <3>4. n > d
      BY <1>1, <1>2, <1>3, <1>7, <3>1, <3>2, <3>3, BoundsAssumption
    <3>5. n - d \in 1..(L - d) /\ (n - d) + d = n
      BY <1>2, <1>3, <3>2, <3>4
    <3>6. new[n - d] = old.index[n] /\ n - d \in DOMAIN new
      BY <1>2, <1>3, <1>4, <3>5
    <3> QED
      BY <3>2, <3>6
  <2> QED
    BY <2>1, <2>2
<1> QED
  BY <1>1, <1>3, <1>6, <1>7 DEF Indexes, Covers, new

LEMMA NextIndex ==
    ASSUME TypeInv, IndexInv, Next
    PROVE  IndexInv'
PROOF
<1>1. spec \in Rows
  BY DEF TypeInv
<1>2. Indexes(spec)' /\ (~clash' => Covers(spec)')
  <2>1. CASE UNCHANGED <<spec, cases, clash>>
    BY <2>1 DEF IndexInv, Indexes, Covers
  <2>2. ASSUME NEW w \in Workers, StressDone(w), work[w] \in Reported, work[w] # Idle
        PROVE  Indexes(spec)' /\ (~clash' => Covers(spec)')
    <3>1. PICK old \in Rows : old = work[w].spec /\ Indexes(old)
      BY <2>2 DEF IndexInv, Reported
    <3>2. ~clash' => ~clash /\ spec.index = old.index
      BY <2>2, <3>1, JobWrites
    <3>3. ~clash' => Covers(old)
      BY <3>2 DEF IndexInv, Covers
    <3>4. CASE work[w].at # "archived"
      <4>1. cases' = cases /\ spec'.index = old.index
        BY <2>2, <3>1, <3>4, JobWrites
      <4> QED
        BY <3>1, <3>3, <4>1 DEF Indexes, Covers
    <3>5. CASE work[w].at = "archived"
      <4>1. /\ cases' = Append(cases, Case(w))
            /\ spec'.index = Kept(Append(old.index, [version |-> Len(cases) + 1, case |-> Case(w)]))
        BY <2>2, <3>1, <3>5, JobWrites
      <4> QED
        BY <3>1, <3>3, <4>1, EntryAdded
    <3> QED
      BY <3>4, <3>5
  <2>3. ASSUME NEW r \in Requests, ImportCheck(r) \/ Dispatch(r) \/ Interpret(r) \/ Other(r),
               UNCHANGED cases
        PROVE  Indexes(spec)' /\ (~clash' => Covers(spec)')
    <3>1. PICK old : old = edit[r].spec /\ Indexes(old) /\ spec'.index = old.index
      BY <2>3, RequestWrites DEF IndexInv
    <3>2. ~clash' => ~clash /\ spec.index = old.index
      BY <2>3, <3>1, RequestWrites
    <3>3. Indexes(spec)'
      BY <2>3, <3>1 DEF Indexes
    <3>4. ASSUME ~clash' PROVE Covers(spec)'
      <4>1. Covers(spec) /\ spec'.index = spec.index
        BY <3>1, <3>2, <3>4 DEF IndexInv
      <4> QED
        BY <2>3, <4>1 DEF Covers
    <3> QED
      BY <3>3, <3>4
  <2> QED
    BY <2>1, <2>2, <2>3, RowWritten
<1>3. ASSUME NEW w \in Workers, work'[w] # Idle PROVE Indexes(work[w].spec)'
  <2>1. PICK s \in Rows : work'[w].spec = s /\ Indexes(s)
    <3>1. work'[w].spec = spec \/ (work[w] # Idle /\ work'[w].spec = work[w].spec)
      BY <1>3, CopiesKept
    <3>2. work[w] # Idle => work[w].spec \in Rows
      BY DEF TypeInv, Reading, Reported
    <3> QED
      BY <1>1, <3>1, <3>2 DEF IndexInv
  <2>2. Indexes(s)'
    BY <2>1, IndexesStays
  <2> QED
    BY <2>1, <2>2 DEF Indexes
<1>4. ASSUME NEW r \in Requests, edit'[r] # Idle PROVE Indexes(edit[r].spec)'
  <2>1. PICK s \in Rows : edit'[r].spec = s /\ Indexes(s)
    <3>1. CASE edit'[r] = edit[r]
      <4>1. edit[r].spec \in Rows
        BY <1>4, <3>1 DEF TypeInv, Editing
      <4> QED
        BY <1>4, <3>1, <4>1 DEF IndexInv
    <3>2. CASE edit'[r] # edit[r]
      <4>1. PICK op \in Ops : edit'[r] = [at |-> op, spec |-> spec]
        BY <1>4, <3>2, CopiesKept
      <4>2. edit'[r].spec = spec
        BY <4>1
      <4> QED
        BY <1>1, <4>2 DEF IndexInv
    <3> QED
      BY <3>1, <3>2
  <2>2. Indexes(s)'
    BY <2>1, IndexesStays
  <2> QED
    BY <2>1, <2>2 DEF Indexes
<1> QED
  BY <1>2, <1>3, <1>4 DEF IndexInv

(* With any number of workers and requests, any limit of the index, and     *)
(* copies of it as old as one likes, every entry leads to its case, and the *)
(* latest cases are all there unless a rewrite came from a stale row.       *)
THEOREM IndexLeadsToCases == Spec => []IndexOfCases
PROOF
<1>1. Init => IndexInv
  BY DEF Init, IndexInv, Indexes, Covers
<1>2. TypeInv /\ IndexInv /\ [Next]_vars => IndexInv'
  <2> SUFFICES ASSUME TypeInv, IndexInv, [Next]_vars PROVE IndexInv'
    OBVIOUS
  <2>1. CASE UNCHANGED vars
    <3>1. cases' = cases /\ spec' = spec /\ work' = work /\ edit' = edit /\ clash' = clash
      BY <2>1 DEF vars
    <3>2. Indexes(spec)'
      BY <3>1 DEF IndexInv, Indexes
    <3>3. ASSUME NEW w \in Workers, work'[w] # Idle PROVE Indexes(work[w].spec)'
      BY <3>1, <3>3 DEF IndexInv, Indexes
    <3>4. ASSUME NEW r \in Requests, edit'[r] # Idle PROVE Indexes(edit[r].spec)'
      BY <3>1, <3>4 DEF IndexInv, Indexes
    <3>5. ~clash' => Covers(spec)'
      BY <3>1 DEF IndexInv, Covers
    <3> QED
      BY <3>2, <3>3, <3>4, <3>5 DEF IndexInv
  <2> QED
    BY <2>1, NextIndex
<1>3. IndexInv => IndexOfCases
  BY DEF IndexInv, Indexes, Covers, IndexOfCases
<1> QED
  BY <1>1, <1>2, <1>3, Typed, PTL DEF Spec

-----------------------------------------------------------------------------
(* The verdict. *)

(* What a verdict says of the latest programs. *)
Holds(verdict) ==
    \A p \in Latest("std"), q \in Latest("brute") :
        LET agree(inputs) ==
                /\ Builds(p) /\ Builds(q)
                /\ \A i \in inputs : Agree(p, q, Latest("checker"), i) IN
        IF verdict = "ok" THEN agree(Samples) ELSE ~agree(Inputs)

Conclusion(report) == IF report.reason = "ok" THEN "ok" ELSE "failed"

(* A report that becomes a verdict if the job is an import_check.           *)
Concludes(w) == KindOf(w) \in StressKinds /\ work[w].report.reason \notin {"missing", "error"}

(* A job that is not overtaken has read what is still the latest, and its   *)
(* report is about that.                                                    *)
VerdictInv ==
    /\ ~drift /\ spec.verdict # "none" => Holds(spec.verdict)
    /\ \A w \in Workers : work[w] # Idle /\ ~work[w].overtaken =>
          /\ work[w].at = "read" =>
                \A k \in DOMAIN work[w].read : Judged(k) => work[w].read[k] = Latest(k)
          /\ work[w].at # "read" /\ Concludes(w) => Holds(Conclusion(work[w].report))

LEMMA HoldsStays ==
    ASSUME \A k \in {"std", "brute", "checker"} : Latest(k)' = Latest(k), NEW verdict
    PROVE  Holds(verdict) => Holds(verdict)'
PROOF
  BY DEF Holds

(* Only a save of a judged kind changes what a verdict says; it is noticed  *)
(* by whoever has read that kind.                                           *)
LEMMA NewVersionJudged ==
    ASSUME TypeInv, NEW k \in Kinds, NEW p, NewVersion(k, p)
    PROVE  /\ \A h \in Kinds \ {k} : Latest(h)' = Latest(h)
           /\ ~drift' => ~drift /\ ~Judged(k)
           /\ \A w \in Workers : work[w] # Idle /\ ~work'[w].overtaken /\ Judged(k) =>
                 work[w].at = "read" /\ k \notin DOMAIN work[w].read
PROOF
<1>1. \A h \in Kinds \ {k} : log'[h] = log[h]
  BY NewVersionLog
<1>2. ASSUME NEW w \in Workers, work[w] # Idle, ~work'[w].overtaken, Judged(k)
      PROVE  work[w].at = "read" /\ k \notin DOMAIN work[w].read
  <2>1. work[w] \in Reading \cup Reported
    BY <1>2 DEF TypeInv
  <2>2. work[w].at \in {"ran", "archived"} \/ (work[w].at = "read" /\ k \in DOMAIN work[w].read)
           => work'[w] = [work[w] EXCEPT !.overtaken = @ \/ Judged(k)]
    BY DEF NewVersion
  <2>3. work'[w] = [work[w] EXCEPT !.overtaken = @ \/ Judged(k)] => work'[w].overtaken
    BY <1>2, <2>1 DEF Reading, Reported
  <2> QED
    BY <1>2, <2>1, <2>2, <2>3 DEF Reading, Reported
<1> QED
  BY <1>1, <1>2 DEF Latest, NewVersion

LEMMA KindStays ==
    ASSUME TypeInv, Next, NEW w \in Workers, work[w] # Idle, work'[w] # Idle,
           work'[w].job = work[w].job
    PROVE  KindOf(w)' = KindOf(w) /\ KindOf(w) \in JobKinds
PROOF
<1>1. work[w].job \in DOMAIN job /\ job[work[w].job] \in JobType
  BY LenProperties, ElementOfSeq DEF TypeInv
<1> QED
  BY <1>1, JobSteps DEF KindOf, JobType

(* A report is about the latest programs if what was read is the latest.    *)
LEMMA ReportHolds ==
    ASSUME TypeInv, NEW kind \in StressKinds, NEW read, NEW report \in Reports(kind, read),
           report.reason \notin {"missing", "error"},
           \A k \in {"std", "brute", "checker"} : read[k] = Latest(k)
    PROVE  Holds(Conclusion(report))
PROOF
<1>1. kind \in JobKinds
  BY DEF JobKinds
<1>2. SUFFICES ASSUME NEW p \in Latest("std"), NEW q \in Latest("brute")
               PROVE  LET agree(inputs) ==
                              /\ Builds(p) /\ Builds(q)
                              /\ \A i \in inputs : Agree(p, q, Latest("checker"), i) IN
                      IF Conclusion(report) = "ok" THEN agree(Samples) ELSE ~agree(Inputs)
  BY DEF Holds
<1>3. One(read["std"]) = p /\ One(read["brute"]) = q /\ read["checker"] = Latest("checker")
  <2>1. \A k \in {"std", "brute"} : \A x \in Latest(k) : Latest(k) = {x}
    BY DEF Latest
  <2>2. read["std"] = {p} /\ read["brute"] = {q}
    BY <2>1
  <2> QED
    BY <2>2 DEF One
<1>4. CASE report.reason = "ok"
  BY <1>1, <1>3, <1>4, ReportFacts DEF Conclusion
<1>5. CASE report.reason # "ok"
  BY <1>1, <1>3, <1>5, ReportFacts DEF Conclusion
<1> QED
  BY <1>4, <1>5

(* What a worker knows stays true, or it is overtaken.                      *)
LEMMA WorkerVerdict ==
    ASSUME TypeInv, VerdictInv, Next, NEW w \in Workers, work'[w] # Idle, ~work'[w].overtaken
    PROVE  /\ work'[w].at = "read" =>
                 \A k \in DOMAIN work'[w].read : Judged(k) => work'[w].read[k] = Latest(k)'
           /\ work'[w].at # "read" /\ Concludes(w)' => Holds(Conclusion(work[w].report))'
PROOF
<1>1. CASE Same(w)
  <2>1. work[w] # Idle /\ ~work[w].overtaken /\ work'[w].at = work[w].at
        /\ (work[w].at = "read" => work'[w].read = work[w].read)
        /\ (work[w].at # "read" => work'[w].report = work[w].report)
        /\ KindOf(w)' = KindOf(w)
    BY <1>1, KindStays DEF Same
  <2>2. CASE work[w].at = "read"
    <3>1. DOMAIN work[w].read \subseteq Kinds
      BY <2>1, <2>2 DEF TypeInv, Reading, Reported, ReadType
    <3>2. ASSUME NEW k \in DOMAIN work[w].read, Judged(k) PROVE Latest(k)' = Latest(k)
      <4>1. ASSUME NEW h \in Kinds, NEW p, NewVersion(h, p) PROVE Latest(k)' = Latest(k)
        BY <2>1, <3>1, <3>2, <4>1, NewVersionJudged
      <4>2. CASE UNCHANGED log
        BY <4>2 DEF Latest
      <4> QED
        BY <4>1, <4>2, LogSteps
    <3> QED
      BY <2>1, <2>2, <3>2 DEF VerdictInv
  <2>3. CASE work[w].at # "read"
    <3>1. \A k \in {"std", "brute", "checker"} : Latest(k)' = Latest(k)
      <4>1. ASSUME NEW h \in Kinds, NEW p, NewVersion(h, p)
            PROVE  \A k \in {"std", "brute", "checker"} : Latest(k)' = Latest(k)
        <5>1. ~Judged(h)
          BY <2>1, <2>3, <4>1, NewVersionJudged
        <5> QED
          BY <4>1, <5>1, NewVersionJudged DEF Judged, Kinds
      <4>2. CASE UNCHANGED log
        BY <4>2 DEF Latest
      <4> QED
        BY <4>1, <4>2, LogSteps
    <3>2. Concludes(w)' => Concludes(w)
      BY <2>1, <2>3 DEF Concludes
    <3>3. PICK verdict : verdict = Conclusion(work[w].report)
      OBVIOUS
    <3>4. Conclusion(work[w].report)' = verdict
      BY <2>1, <2>3, <3>3 DEF Conclusion
    <3>5. Concludes(w) => Holds(verdict)
      BY <2>1, <2>3, <3>3 DEF VerdictInv
    <3>6. Concludes(w) => Holds(verdict)'
      BY <3>1, <3>5, HoldsStays
    <3>7. Holds(verdict)' => Holds(Conclusion(work[w].report))'
      BY <3>4 DEF Holds
    <3> QED
      BY <2>1, <2>3, <3>2, <3>6, <3>7
  <2> QED
    BY <2>2, <2>3
<1>2. CASE \E j \in 1..Len(job) : Take(w, j)
  <2>1. work'[w].at = "read" /\ work'[w].read = <<>>
    BY <1>2 DEF Take, TypeInv
  <2> QED
    BY <2>1
<1>3. CASE Read(w)
  <2>1. PICK k \in Kinds :
           /\ work[w] \in Reading
           /\ work' = [work EXCEPT ![w].read =
                          [x \in DOMAIN work[w].read \cup {k} |->
                              IF x = k THEN Latest(k) ELSE work[w].read[x]]]
    BY <1>3, ReadWorks
  <2>2. work'[w].at = "read" /\ work[w] # Idle /\ work'[w].overtaken = work[w].overtaken
        /\ work'[w].read = [x \in DOMAIN work[w].read \cup {k} |->
                               IF x = k THEN Latest(k) ELSE work[w].read[x]]
    BY <2>1 DEF TypeInv, Reading, Idle
  <2>3. \A x \in DOMAIN work[w].read : Judged(x) => work[w].read[x] = Latest(x)
    BY <1>3, <2>2 DEF VerdictInv, Read
  <2>4. \A x : Latest(x)' = Latest(x)
    BY <1>3 DEF Read, Latest
  <2> QED
    BY <2>2, <2>3, <2>4
<1>4. CASE Run(w)
  <2>1. work[w] \in Reading /\ work[w] # Idle /\ DOMAIN work[w].read = ReadBy(KindOf(w))
    BY <1>4 DEF Run, TypeInv, Idle, Reported
  <2>2. work'[w].at = "ran" /\ work'[w].job = work[w].job /\ work'[w].overtaken = work[w].overtaken
        /\ work'[w].report \in Reports(KindOf(w), work[w].read) /\ log' = log /\ job' = job
    BY <1>4 DEF Run, TypeInv
  <2>3. KindOf(w)' = KindOf(w)
    BY <2>2 DEF KindOf
  <2>4. PICK report : report = work'[w].report
    OBVIOUS
  <2>5. ASSUME KindOf(w) \in StressKinds, report.reason \notin {"missing", "error"}
        PROVE  Holds(Conclusion(report))
    <3>1. \A k \in {"std", "brute", "checker"} : work[w].read[k] = Latest(k)
      <4>1. DOMAIN work[w].read = {"std", "brute", "checker"}
        BY <2>1, <2>5, KindsRead
      <4>2. ~work[w].overtaken /\ work[w].at = "read"
        BY <1>4, <2>2 DEF Run
      <4> QED
        BY <2>1, <4>1, <4>2 DEF VerdictInv, Judged
    <3> QED
      BY <2>2, <2>4, <2>5, <3>1, ReportHolds
  <2>6. Concludes(w)' => Holds(Conclusion(report))
    BY <2>3, <2>4, <2>5 DEF Concludes
  <2>7. Holds(Conclusion(report)) => Holds(Conclusion(work[w].report))'
    BY <2>2, <2>4 DEF Holds, Conclusion, Latest
  <2> QED
    BY <2>2, <2>6, <2>7
<1>5. CASE Archive(w)
  <2>1. work[w] \in Reported /\ work[w] # Idle /\ work[w].at = "ran"
    BY <1>5 DEF Archive, TypeInv, Idle, Reading
  <2>2. work'[w].at = "archived" /\ work'[w].report = work[w].report
        /\ work'[w].job = work[w].job /\ work'[w].overtaken = work[w].overtaken
        /\ log' = log /\ job' = job
    BY <1>5, <2>1 DEF Archive, TypeInv, Reported
  <2>3. Concludes(w)' => Concludes(w)
    BY <2>2 DEF Concludes, KindOf
  <2>4. Concludes(w) => Holds(Conclusion(work[w].report))
    BY <2>1, <2>2 DEF VerdictInv
  <2>5. Holds(Conclusion(work[w].report)) => Holds(Conclusion(work[w].report))'
    BY <2>2 DEF Holds, Conclusion, Latest
  <2> QED
    BY <2>2, <2>3, <2>4, <2>5
<1> QED
  BY <1>1, <1>2, <1>3, <1>4, <1>5, WorkerSteps

(* The verdict is copied from a row that had the same, or is the conclusion *)
(* of an import_check; otherwise the step is recorded as drift.             *)
LEMMA VerdictWritten ==
    ASSUME TypeInv, Next, ~drift'
    PROVE  \/ spec'.verdict = spec.verdict /\ ~drift
              /\ \A k \in {"std", "brute", "checker"} : Latest(k)' = Latest(k)
           \/ \E w \in Workers :
                 /\ work[w] # Idle /\ work[w].at # "read" /\ ~work[w].overtaken /\ Concludes(w)
                 /\ spec'.verdict = Conclusion(work[w].report) /\ log' = log
PROOF
<1>1. ASSUME NEW w \in Workers, Finish(w), StressDone(w), work[w] \in Reported, work[w] # Idle,
             Concludes(w)
      PROVE  \/ spec'.verdict = spec.verdict /\ ~drift
             \/ /\ work[w].at # "read" /\ ~work[w].overtaken
                /\ spec'.verdict = Conclusion(work[w].report)
  <2>1. CASE KindOf(w) = "import_check"
    <3>1. drift' = work[w].overtaken
      BY <1>1, <2>1 DEF StressDone
    <3>2. spec'.verdict = Conclusion(work[w].report)
      BY <1>1, <2>1, JobWrites DEF Conclusion
    <3>3. work[w].at # "read"
      BY <1>1 DEF Reported
    <3> QED
      BY <3>1, <3>2, <3>3
  <2>2. CASE KindOf(w) # "import_check"
    <3>1. spec'.verdict = work[w].spec.verdict
      BY <1>1, <2>2, JobWrites
    <3>2. ~drift /\ spec.verdict = work[w].spec.verdict
      BY <1>1, <2>2 DEF StressDone
    <3> QED
      BY <3>1, <3>2
  <2> QED
    BY <2>1, <2>2
<1>2. ASSUME NEW k \in Kinds, NEW p, NewVersion(k, p), UNCHANGED spec
      PROVE  spec'.verdict = spec.verdict /\ ~drift
             /\ \A h \in {"std", "brute", "checker"} : Latest(h)' = Latest(h)
  <2>1. ~drift /\ ~Judged(k) /\ \A h \in Kinds \ {k} : Latest(h)' = Latest(h)
    BY <1>2, NewVersionJudged
  <2> QED
    BY <1>2, <2>1 DEF Judged, Kinds
<1>3. UNCHANGED log => \A k : Latest(k)' = Latest(k)
  BY DEF Latest
<1>4. ASSUME NEW r \in Requests, ImportCheck(r) \/ Dispatch(r) \/ Interpret(r) \/ Other(r)
      PROVE  spec'.verdict = spec.verdict /\ ~drift /\ log' = log
  <2>1. spec'.verdict = spec.verdict /\ ~drift
    BY <1>4, RequestWrites
  <2> QED
    BY <1>4, <2>1 DEF ImportCheck, Dispatch, Interpret, Other
<1>5. ASSUME NEW w \in Workers, Finish(w)
      PROVE  /\ log' = log
             /\ \/ UNCHANGED <<spec, drift>>
                \/ StressDone(w) /\ work[w] \in Reported /\ work[w] # Idle /\ Concludes(w)
  <2>1. work[w] \in Reported /\ work[w] # Idle
    BY <1>5 DEF TypeInv, Finish, Idle, Reading
  <2> QED
    BY <1>5, <2>1 DEF Finish, Concludes
<1>6. \/ UNCHANGED <<spec, drift, log>>
      \/ \E k \in Kinds : \E p : NewVersion(k, p) /\ UNCHANGED spec
      \/ \E w \in Workers : Finish(w)
      \/ \E r \in Requests : ImportCheck(r) \/ Dispatch(r) \/ Interpret(r) \/ Other(r)
  <2>1. "brute" \in Kinds
    BY DEF Kinds
  <2> QED
    BY <2>1 DEF Next, Save, SeedBrute, Submit, Cancel, Retry, Take, Read, Run, Archive, Abort, Load, Refuse
<1> QED
  BY <1>1, <1>2, <1>3, <1>4, <1>5, <1>6

LEMMA NextVerdict ==
    ASSUME TypeInv, VerdictInv, Next
    PROVE  VerdictInv'
PROOF
<1>1. ASSUME ~drift', spec'.verdict # "none" PROVE Holds(spec.verdict)'
  <2>1. CASE spec'.verdict = spec.verdict /\ ~drift
             /\ \A k \in {"std", "brute", "checker"} : Latest(k)' = Latest(k)
    <3>1. PICK verdict : verdict = spec.verdict
      OBVIOUS
    <3>2. Holds(verdict)'
      BY <1>1, <2>1, <3>1, HoldsStays DEF VerdictInv
    <3> QED
      BY <2>1, <3>1, <3>2 DEF Holds
  <2>2. ASSUME NEW w \in Workers,
               work[w] # Idle, work[w].at # "read", ~work[w].overtaken, Concludes(w),
               spec'.verdict = Conclusion(work[w].report), log' = log
        PROVE  Holds(spec.verdict)'
    <3>1. Holds(Conclusion(work[w].report))
      BY <2>2 DEF VerdictInv
    <3> QED
      BY <2>2, <3>1 DEF Holds, Latest
  <2> QED
    BY <1>1, <2>1, <2>2, VerdictWritten
<1> QED
  BY <1>1, WorkerVerdict DEF VerdictInv

(* For any programs, checkers, workers, requests and histories of saves,    *)
(* the verdict that opens the IMPORT gate is about the latest programs, or  *)
(* a save after the read or a rewrite from a stale row has been recorded.   *)
THEOREM VerdictsHold == Spec => []VerdictOfPrograms
PROOF
<1>1. Init => VerdictInv
  BY DEF Init, VerdictInv
<1>2. TypeInv /\ VerdictInv /\ [Next]_vars => VerdictInv'
  <2> SUFFICES ASSUME TypeInv, VerdictInv, [Next]_vars PROVE VerdictInv'
    OBVIOUS
  <2>1. CASE UNCHANGED vars
    <3>1. \A k : Latest(k)' = Latest(k)
      BY <2>1 DEF vars, Latest
    <3>2. \A verdict : Holds(verdict) => Holds(verdict)'
      BY <3>1, HoldsStays
    <3>3. ASSUME ~drift', spec'.verdict # "none" PROVE Holds(spec.verdict)'
      <4>1. Holds(spec.verdict)
        BY <2>1, <3>3 DEF vars, VerdictInv
      <4> QED
        BY <2>1, <3>1, <4>1 DEF vars, Holds
    <3>4. ASSUME NEW w \in Workers, work'[w] # Idle, ~work'[w].overtaken
          PROVE  /\ work'[w].at = "read" =>
                       \A k \in DOMAIN work'[w].read : Judged(k) => work'[w].read[k] = Latest(k)'
                 /\ work'[w].at # "read" /\ Concludes(w)' => Holds(Conclusion(work[w].report))'
      <4>1. work' = work /\ job' = job /\ (Concludes(w)' => Concludes(w))
        BY <2>1 DEF vars, Concludes, KindOf
      <4>2. Holds(Conclusion(work[w].report)) => Holds(Conclusion(work[w].report))'
        BY <3>1, <4>1 DEF Holds, Conclusion
      <4> QED
        BY <3>1, <3>4, <4>1, <4>2 DEF VerdictInv
    <3> QED
      BY <3>3, <3>4 DEF VerdictInv
  <2> QED
    BY <2>1, NextVerdict
<1>3. TypeInv /\ VerdictInv => VerdictOfPrograms
  <2> SUFFICES ASSUME TypeInv, VerdictInv, ~drift, spec.verdict # "none"
               PROVE  VerdictOfPrograms
    BY DEF VerdictOfPrograms
  <2>1. \A k \in Kinds : Current(k) = Latest(k)
    <3>1. ASSUME NEW k \in Kinds, log[k] # <<>> PROVE Len(log[k]) \in DOMAIN log[k]
      BY <3>1, EmptySeq, LenProperties DEF TypeInv
    <3> QED
      BY <3>1 DEF Latest, Current
  <2>2. {"std", "brute", "checker"} \subseteq Kinds
    BY DEF Kinds
  <2>3. Holds(spec.verdict)
    BY DEF VerdictInv
  <2> QED
    BY <2>1, <2>2, <2>3 DEF VerdictOfPrograms, Holds
<1> QED
  BY <1>1, <1>2, <1>3, Typed, PTL DEF Spec

-----------------------------------------------------------------------------
(* Failures of a round. *)

Checks == {{}} \cup {{k} : k \in Versions("checker")}

(* The rounds, with reasons, in which programs that there were disagree.    *)
Disagreements ==
    {d \in Inputs \X Failures :
        \E p \in Versions("std"), q \in Versions("brute"), c \in Checks :
            /\ Builds(p) /\ Builds(q)
            /\ ~Agree(p, q, c, d[1])
            /\ Failure(p, q, c, d[1]) = d[2]}

(* What a worker has read is in the log, so a report of a failure is about  *)
(* programs that are there.                                                 *)
ReadFromLog(w) ==
    \A k \in DOMAIN work[w].read :
        work[w].read[k] = {} \/ \E v \in DOMAIN log[k] : work[w].read[k] = {log[k][v]}

FailureOf(w) ==
    /\ work[w].report.reason \in Failures =>
          KindOf(w) \in StressKinds /\ work[w].report.round # 0
    /\ work[w].report.round # 0 =>
          <<work[w].report.round, work[w].report.reason>> \in Disagreements

HasCase(j) ==
    job[j].result \in Failures =>
        \E v \in DOMAIN cases : cases[v].job = j /\ cases[v].reason = job[j].result

CaseInv ==
    /\ \A w \in Workers : work[w] # Idle =>
          /\ work[w].at = "read" => ReadFromLog(w)
          /\ work[w].at # "read" => FailureOf(w)
    /\ \A j \in DOMAIN job : HasCase(j)
    /\ \A v \in DOMAIN cases : <<cases[v].round, cases[v].reason>> \in Disagreements

LEMMA DisagreementsStay ==
    ASSUME TypeInv, Next
    PROVE  Disagreements \subseteq Disagreements'
PROOF
<1>1. \A k \in {"std", "brute", "checker"} : Versions(k) \subseteq Versions(k)'
  <2>1. {"std", "brute", "checker"} \subseteq Kinds
    BY DEF Kinds
  <2> QED
    BY <2>1, LogGrows DEF Versions
<1>2. Checks \subseteq Checks'
  BY <1>1 DEF Checks
<1> QED
  BY <1>1, <1>2 DEF Disagreements

LEMMA LatestInLog ==
    ASSUME TypeInv, NEW k \in Kinds
    PROVE  Latest(k) = {} \/ \E v \in DOMAIN log[k] : Latest(k) = {log[k][v]}
PROOF
<1>1. log[k] # <<>> => Len(log[k]) \in DOMAIN log[k]
  BY EmptySeq, LenProperties DEF TypeInv
<1> QED
  BY <1>1 DEF Latest

(* A report of a failure is about programs that the worker has read.        *)
LEMMA RunDisagrees ==
    ASSUME TypeInv, NEW w \in Workers, Run(w), ReadFromLog(w),
           NEW report \in Reports(KindOf(w), work[w].read), report.round # 0
    PROVE  <<report.round, report.reason>> \in Disagreements
PROOF
<1> DEFINE read == work[w].read
<1>1. KindOf(w) \in JobKinds
  <2>1. work[w] # Idle
    BY DEF Run, Idle
  <2>2. job[work[w].job] \in JobType
    BY <2>1, ElementOfSeq DEF TypeInv
  <2> QED
    BY <2>2 DEF KindOf, JobType
<1>2. /\ read["std"] # {} /\ read["brute"] # {} /\ KindOf(w) \in StressKinds
      /\ Builds(One(read["std"])) /\ Builds(One(read["brute"]))
      /\ ~Agree(One(read["std"]), One(read["brute"]), read["checker"], report.round)
      /\ Failure(One(read["std"]), One(read["brute"]), read["checker"], report.round) = report.reason
      /\ report \in ReportType
  BY <1>1, ReportFacts
<1>3. DOMAIN read = {"std", "brute", "checker"}
  BY <1>1, <1>2, KindsRead DEF Run
<1>4. \A k \in {"std", "brute", "checker"} :
         read[k] = {} \/ \E v \in DOMAIN log[k] : read[k] = {log[k][v]}
  BY <1>3 DEF ReadFromLog
<1>5. \A k \in {"std", "brute"} : read[k] # {} => One(read[k]) \in Versions(k)
  BY <1>4 DEF One, Versions
<1>6. read["checker"] \in Checks
  BY <1>4 DEF Checks, Versions
<1>7. report.round \in Inputs /\ report.reason \in Failures
  BY <1>2 DEF ReportType
<1> HIDE DEF read
<1> QED
  BY <1>2, <1>5, <1>6, <1>7 DEF Disagreements

LEMMA WorkerFailure ==
    ASSUME TypeInv, CaseInv, Next, NEW w \in Workers, work'[w] # Idle
    PROVE  /\ work'[w].at = "read" => ReadFromLog(w)'
           /\ work'[w].at # "read" => FailureOf(w)'
PROOF
<1>1. CASE Same(w)
  <2>1. KindOf(w)' = KindOf(w)
    BY <1>1, KindStays DEF Same
  <2>2. CASE work[w].at = "read"
    <3>1. DOMAIN work[w].read \subseteq Kinds
      BY <1>1, <2>2 DEF TypeInv, Same, Reading, Reported, ReadType
    <3> QED
      BY <1>1, <2>2, <3>1, LogGrows DEF CaseInv, ReadFromLog, Same
  <2>3. CASE work[w].at # "read"
    BY <1>1, <2>1, <2>3, DisagreementsStay DEF CaseInv, FailureOf, Same
  <2> QED
    BY <2>2, <2>3
<1>2. CASE \E j \in 1..Len(job) : Take(w, j)
  <2>1. work'[w].at = "read" /\ work'[w].read = <<>>
    BY <1>2 DEF Take, TypeInv
  <2> QED
    BY <2>1 DEF ReadFromLog
<1>3. CASE Read(w)
  <2>1. PICK k \in Kinds :
           /\ work[w] \in Reading
           /\ work' = [work EXCEPT ![w].read =
                          [x \in DOMAIN work[w].read \cup {k} |->
                              IF x = k THEN Latest(k) ELSE work[w].read[x]]]
    BY <1>3, ReadWorks
  <2>2. work'[w].at = "read"
        /\ work'[w].read = [x \in DOMAIN work[w].read \cup {k} |->
                               IF x = k THEN Latest(k) ELSE work[w].read[x]]
    BY <2>1 DEF TypeInv, Reading
  <2>3. ReadFromLog(w)
    BY <1>3 DEF CaseInv, Read, Idle
  <2>4. log' = log
    BY <1>3 DEF Read
  <2> QED
    BY <2>2, <2>3, <2>4, LatestInLog DEF ReadFromLog
<1>4. CASE Run(w)
  <2>1. work[w] \in Reading /\ work[w] # Idle /\ ReadFromLog(w)
    <3>1. work[w] \in Reading /\ work[w] # Idle /\ work[w].at = "read"
      BY <1>4 DEF Run, TypeInv, Idle, Reported
    <3> QED
      BY <3>1 DEF CaseInv
  <2>2. KindOf(w) \in JobKinds
    <3>1. job[work[w].job] \in JobType
      BY <2>1, ElementOfSeq DEF TypeInv
    <3> QED
      BY <3>1 DEF KindOf, JobType
  <2>3. work'[w].at = "ran" /\ work'[w].job = work[w].job /\ job' = job
        /\ work'[w].report \in Reports(KindOf(w), work[w].read)
    BY <1>4 DEF Run, TypeInv
  <2>4. KindOf(w)' = KindOf(w)
    BY <2>3 DEF KindOf
  <2>5. work'[w].report.reason \in Failures =>
           KindOf(w) \in StressKinds /\ work'[w].report.round # 0
    BY <2>2, <2>3, ReportFacts
  <2>6. work'[w].report.round # 0 =>
           <<work'[w].report.round, work'[w].report.reason>> \in Disagreements
    BY <1>4, <2>1, <2>3, RunDisagrees
  <2> QED
    BY <2>3, <2>4, <2>5, <2>6, DisagreementsStay DEF FailureOf
<1>5. CASE Archive(w)
  <2>1. work[w] \in Reported /\ work[w] # Idle /\ work[w].at = "ran"
    BY <1>5 DEF Archive, TypeInv, Idle, Reading
  <2>2. work'[w].at = "archived" /\ work'[w].report = work[w].report
        /\ work'[w].job = work[w].job /\ job' = job
    BY <1>5, <2>1 DEF Archive, TypeInv, Reported
  <2> QED
    BY <2>1, <2>2, DisagreementsStay DEF CaseInv, FailureOf, KindOf
<1> QED
  BY <1>1, <1>2, <1>3, <1>4, <1>5, WorkerSteps

(* The end of a job that names a failure adds its case.                     *)
LEMMA FailureLeavesCase ==
    ASSUME TypeInv, CaseInv, Next, NEW w \in Workers, Finish(w),
           work[w].report.reason \in Failures, NEW j, j = work[w].job
    PROVE  HasCase(j)'
PROOF
<1>1. work[w] # Idle /\ work[w] \in Reported
  BY DEF TypeInv, Finish, Idle, Reading
<1>2. KindOf(w) \in StressKinds /\ work[w].report.round # 0
  BY <1>1 DEF CaseInv, FailureOf, Finish
<1>3. work[w].at = "archived" /\ StressDone(w)
  BY <1>2 DEF Finish, Archived, Failures
<1>4. cases' = Append(cases, Case(w))
  BY <1>1, <1>3, JobWrites
<1>5. Len(cases) + 1 \in DOMAIN cases' /\ cases'[Len(cases) + 1] = Case(w)
  BY <1>4, Appended DEF TypeInv
<1>6. job'[work[w].job].result = work[w].report.reason
  BY JobSteps
<1> QED
  BY <1>5, <1>6 DEF HasCase, Case

LEMMA NextCases ==
    ASSUME TypeInv, CaseInv, Next
    PROVE  CaseInv'
PROOF
<1>1. \A v \in DOMAIN cases : v \in DOMAIN cases' /\ cases'[v] = cases[v]
  <2>1. ASSUME NEW e, cases' = Append(cases, e)
        PROVE  \A v \in DOMAIN cases : v \in DOMAIN cases' /\ cases'[v] = cases[v]
    <3>1. cases \in Seq(CaseType)
      BY DEF TypeInv
    <3>2. Len(cases) \in Nat /\ DOMAIN cases = 1..Len(cases)
      BY <3>1
    <3>3. /\ DOMAIN cases' = 1..(Len(cases) + 1)
          /\ \A v \in 1..Len(cases) : cases'[v] = cases[v]
      BY <2>1, <3>1, Appended
    <3> QED
      BY <3>2, <3>3
  <2> QED
    BY <2>1, CasesGrow
<1>2. ASSUME NEW j \in DOMAIN job' PROVE HasCase(j)'
  <2>1. CASE j \in DOMAIN job /\ job'[j] = job[j]
    BY <1>1, <2>1 DEF CaseInv, HasCase
  <2>2. CASE job'[j].result \in {"none", "cancelled"}
    BY <2>2 DEF HasCase, Failures
  <2>3. ASSUME NEW w \in Workers, Finish(w), work[w].job = j PROVE HasCase(j)'
    <3>1. work[w].report.reason = job'[j].result
      BY <2>3, JobSteps
    <3> QED
      BY <2>3, <3>1, FailureLeavesCase DEF HasCase
  <2> QED
    BY <2>1, <2>2, <2>3, JobSteps
<1>3. ASSUME NEW v \in DOMAIN cases'
      PROVE  <<cases'[v].round, cases'[v].reason>> \in Disagreements
  <2>1. CASE v \in DOMAIN cases
    BY <1>1, <2>1 DEF CaseInv
  <2>2. ASSUME NEW w \in Workers, work[w] # Idle, work[w].at = "archived",
               cases' = Append(cases, Case(w)), v \notin DOMAIN cases
        PROVE  <<cases'[v].round, cases'[v].reason>> \in Disagreements
    <3>1. cases'[v] = Case(w)
      BY <1>3, <2>2, Appended DEF TypeInv
    <3>2. <<work[w].report.round, work[w].report.reason>> \in Disagreements
      BY <2>2 DEF TypeInv, CaseInv, FailureOf
    <3> QED
      BY <3>1, <3>2 DEF Case
  <2> QED
    BY <1>3, <2>1, <2>2, RowWritten, JobWrites
<1> QED
  BY <1>2, <1>3, WorkerFailure, DisagreementsStay DEF CaseInv

(* For any programs, checkers, workers, cancels, retries and crashes, with   *)
(* output that is not text and compilers that do not answer: a job whose    *)
(* result names a failed round has archived it, and every archived case is  *)
(* a real disagreement of programs that there were.                         *)
THEOREM CasesAreReal == Spec => []FailuresArchived
PROOF
<1>1. Init => CaseInv
  BY DEF Init, CaseInv
<1>2. TypeInv /\ CaseInv /\ [Next]_vars => CaseInv'
  <2> SUFFICES ASSUME TypeInv, CaseInv, [Next]_vars PROVE CaseInv'
    OBVIOUS
  <2>1. CASE UNCHANGED vars
    <3>1. Disagreements' = Disagreements
      BY <2>1 DEF vars, Disagreements, Checks, Versions
    <3> QED
      BY <2>1, <3>1 DEF vars, CaseInv, ReadFromLog, FailureOf, KindOf, HasCase
  <2> QED
    BY <2>1, NextCases
<1>3. CaseInv => FailuresArchived
  <2> SUFFICES ASSUME CaseInv PROVE FailuresArchived
    OBVIOUS
  <2>1. ASSUME NEW v \in DOMAIN cases
        PROVE  \E p \in Versions("std"), q \in Versions("brute"), c \in Checks :
                  /\ Builds(p) /\ Builds(q)
                  /\ ~Agree(p, q, c, cases[v].round)
                  /\ Failure(p, q, c, cases[v].round) = cases[v].reason
    BY DEF CaseInv, Disagreements
  <2> QED
    BY <2>1 DEF CaseInv, HasCase, Failures, FailuresArchived, Checks
<1> QED
  BY <1>1, <1>2, <1>3, Typed, PTL DEF Spec

=============================================================================
