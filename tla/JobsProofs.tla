----------------------------- MODULE JobsProofs -----------------------------
(***************************************************************************)
(* Proofs about the job queue, for every set of jobs and clients, every    *)
(* size of a batch and every bound.                                        *)
(***************************************************************************)
EXTENDS Jobs, FiniteSetTheorems, SequenceTheorems, TLAPS

-----------------------------------------------------------------------------
(* Types, as far as the proofs need them. *)

(* The rows of jobs, by their status: each has the result that goes with it. *)
Waiting == [status : {"queued"}, result : {"none"}, log : Nat]
Stopped == [status : {"cancelled"}, result : {"cancelled"}, log : Nat]
Finished == [status : {"done"}, result : {"report"}, log : Nat]
              \cup [status : {"failed"}, result : {"error"}, log : Nat]

JobRows == {Absent} \cup Waiting \cup Stopped \cup Finished

Copies == UNION {[D -> Waiting] : D \in SUBSET Jobs}
Helds == UNION {[D -> Waiting \cup Finished] : D \in SUBSET Jobs}

BatchRecords ==
    [pc : {"polling", "batch", "down"}, todo : Seq(Jobs), read : Copies, out : Helds,
     running : BOOLEAN]

(* The jobs a batch has selected or run. *)
Chosen(b) == DOMAIN b.out \cup {b.todo[i] : i \in 1..Len(b.todo)}

(* A batch: jobs still to do, the rows it has read, and the rows it will    *)
(* commit. One is still as it was read only while its job is running, which *)
(* is the first one of todo.                                                *)
BatchOK(b) ==
    /\ b \in BatchRecords
    /\ DOMAIN b.out \subseteq Jobs /\ DOMAIN b.read \subseteq Jobs
    /\ Chosen(b) \subseteq DOMAIN b.read
    /\ \A j \in DOMAIN b.out :
          \/ b.out[j] \in Finished
          \/ b.running /\ b.out[j] \in Waiting /\ j = Head(b.todo)
    /\ b.running => b.todo # << >> /\ Head(b.todo) \in DOMAIN b.out

RequestOK(r) ==
    \/ r = NoRequest
    \/ r.job \in Jobs /\ r.op \in {"cancel", "retry"} /\ r.loaded \in JobRows \ {Absent}

JobsType ==
    /\ job \in [Jobs -> JobRows]
    /\ submits \in [Jobs -> Nat]
    /\ runs \in [Jobs -> Nat]
    /\ DOMAIN req = Clients
    /\ \A c \in Clients : RequestOK(req[c])
    /\ DOMAIN batch = Workers
    /\ \A w \in Workers : BatchOK(batch[w])
    /\ keptLog \in [Jobs -> BOOLEAN]

(* A row of one kind is of no other kind, and its status tells its kind.    *)
LEMMA RowKinds ==
    /\ \A r \in JobRows : r # Absent =>
          r.status \in {"queued", "cancelled", "done", "failed"} /\ r.log \in Nat
    /\ \A r \in JobRows : r.status = "queued" <=> r \in Waiting
    /\ \A r \in JobRows : r.status \in {"done", "failed"} <=> r \in Finished
    /\ \A r \in JobRows : r.log \in Nat
    /\ Absent \notin Waiting \cup Stopped \cup Finished
    /\ Queued \in Waiting /\ Queued.log = 0 /\ Absent.log = 0
PROOF
  BY DEF JobRows, Absent, Waiting, Stopped, Finished, Queued

LEMMA HeldType ==
    /\ << >> \in Helds /\ << >> \in Copies
    /\ DOMAIN << >> = {}
    /\ \A D \in SUBSET Jobs : [D -> Waiting \cup Finished] \subseteq Helds
    /\ \A D \in SUBSET Jobs : [D -> Waiting] \subseteq Copies
    /\ \A f \in Helds : f \in [DOMAIN f -> Waiting \cup Finished]
    /\ \A f \in Copies : f \in [DOMAIN f -> Waiting]
PROOF
<1>1. /\ \A D \in SUBSET Jobs : [D -> Waiting \cup Finished] \subseteq Helds
      /\ \A D \in SUBSET Jobs : [D -> Waiting] \subseteq Copies
  BY DEF Helds, Copies
<1>2. /\ DOMAIN << >> = {}
      /\ << >> \in [{} -> Waiting \cup Finished] /\ << >> \in [{} -> Waiting]
  OBVIOUS
<1>3. /\ \A f \in Helds : f \in [DOMAIN f -> Waiting \cup Finished]
      /\ \A f \in Copies : f \in [DOMAIN f -> Waiting]
  BY DEF Helds, Copies
<1>4. {} \in SUBSET Jobs
  OBVIOUS
<1> QED
  BY <1>1, <1>2, <1>3, <1>4

LEMMA NoBatchOK ==
    /\ BatchOK(NoBatch) /\ Chosen(NoBatch) = {}
    /\ BatchOK(Down) /\ Chosen(Down) = {}
    /\ DOMAIN NoBatch.read = {} /\ DOMAIN NoBatch.out = {}
    /\ DOMAIN Down.read = {} /\ DOMAIN Down.out = {}
PROOF
<1>1. << >> \in Seq(Jobs) /\ Len(<< >>) = 0
  BY EmptySeq
<1>2. /\ NoBatch.todo = << >> /\ NoBatch.out = << >> /\ ~NoBatch.running
      /\ Down.todo = << >> /\ Down.out = << >> /\ ~Down.running
      /\ NoBatch.read = << >> /\ Down.read = << >>
  BY DEF NoBatch, Down
<1>3. NoBatch \in BatchRecords /\ Down \in BatchRecords
  <2>1. NoBatch \in BatchRecords
    BY <1>1, HeldType DEF NoBatch, BatchRecords
  <2>2. Down \in BatchRecords
    BY <2>1 DEF Down, BatchRecords
  <2> QED
    BY <2>1, <2>2
<1>4. \A i \in 1..0 : FALSE
  OBVIOUS
<1>5. Chosen(NoBatch) = {} /\ Chosen(Down) = {}
  BY <1>1, <1>2, <1>4, HeldType DEF Chosen
<1>6. BatchOK(NoBatch) /\ BatchOK(Down)
  BY <1>2, <1>3, <1>5, HeldType DEF BatchOK
<1> QED
  BY <1>2, <1>5, <1>6, HeldType

LEMMA InitJobs == Init => JobsType
PROOF
  BY NoBatchOK DEF Init, JobsType, RequestOK, JobRows

-----------------------------------------------------------------------------
(* What a worker's step other than a commit does: its batch takes up jobs   *)
(* that are queued, or none that it has not chosen already; it reads rows   *)
(* as they are, and keeps what it has read; and what it will commit of a    *)
(* job has the log it has read, or the log of the run, of a row it locks.   *)
ReadsOf(w, b) ==
    \A j \in DOMAIN b.read :
        \/ j \in DOMAIN batch[w].read /\ b.read[j] = batch[w].read[j]
        \/ j \in QueuedJobs /\ b.read[j] = job[j]

HoldsOf(w, b) ==
    \A j \in DOMAIN b.out :
        /\ j \in DOMAIN batch[w].out \/ ~LockedByOther(w, j)
        /\ \/ b.out[j].log \in {b.read[j].log, runs[j] + 1}
           \/ /\ j \in DOMAIN batch[w].out
              /\ b.out[j] = batch[w].out[j] /\ b.read[j] = batch[w].read[j]

BatchStep(w) ==
    /\ UNCHANGED <<job, submits, runs, req, keptLog>>
    /\ \E b : /\ BatchOK(b)
              /\ batch' = [batch EXCEPT ![w] = b]
              /\ \/ Chosen(b) \subseteq QueuedJobs
                 \/ Chosen(b) \subseteq Chosen(batch[w])
              /\ ReadsOf(w, b) /\ HoldsOf(w, b)

LEMMA PollStep ==
    ASSUME JobsType, NEW w \in Workers, Poll(w)
    PROVE  BatchStep(w)
PROOF
<1>1. PICK S \in Batches : \E order \in Listings(S) :
         batch' = [batch EXCEPT ![w] =
            [NoBatch EXCEPT !.pc = "batch", !.todo = order, !.read = [j \in S |-> job[j]]]]
  BY DEF Poll
<1>0. PICK order \in Listings(S) :
         batch' = [batch EXCEPT ![w] =
            [NoBatch EXCEPT !.pc = "batch", !.todo = order, !.read = [j \in S |-> job[j]]]]
  BY <1>1
<1> DEFINE read == [j \in S |-> job[j]]
           b == [NoBatch EXCEPT !.pc = "batch", !.todo = order, !.read = read]
<1>2. S \subseteq QueuedJobs /\ S \subseteq Jobs
  BY DEF Batches, QueuedJobs
<1>3. Cardinality(S) \in Nat
  BY <1>2, JobsAssumption, FS_Subset, FS_CardinalityType
<1>4. order \in [1..Cardinality(S) -> S]
  BY DEF Listings
<1>5. order \in Seq(S)
  BY <1>3, <1>4
<1>6. order \in Seq(Jobs) /\ \A i \in 1..Len(order) : order[i] \in S
  BY <1>2, <1>5, SeqMonotonic, ElementOfSeq
<1>7. DOMAIN read = S /\ read \in Copies
  <2>1. \A j \in S : job[j] \in Waiting
    BY <1>2, RowKinds DEF QueuedJobs, JobsType
  <2>2. read \in [S -> Waiting]
    BY <2>1
  <2> QED
    BY <1>2, <2>2, HeldType
<1> HIDE DEF read
<1>8. /\ b.todo = order /\ b.out = << >> /\ ~b.running /\ b.read = read
      /\ b \in BatchRecords
  <2>1. NoBatch \in BatchRecords
    BY NoBatchOK DEF BatchOK
  <2>2. b \in BatchRecords
    BY <1>6, <1>7, <2>1 DEF BatchRecords
  <2> QED
    BY <2>2 DEF NoBatch
<1> HIDE DEF b
<1>9. Chosen(b) \subseteq S
  BY <1>6, <1>8, HeldType DEF Chosen
<1>10. BatchOK(b)
  BY <1>2, <1>6, <1>7, <1>8, <1>9, HeldType DEF BatchOK
<1>11. batch' = [batch EXCEPT ![w] = b]
  BY <1>0 DEF b, read
<1>12. ReadsOf(w, b) /\ HoldsOf(w, b)
  BY <1>2, <1>7, <1>8, HeldType DEF ReadsOf, HoldsOf, read
<1> QED
  BY <1>2, <1>9, <1>10, <1>11, <1>12 DEF Poll, BatchStep

(* The head of a list is one of its members, the tail has no others. *)
LEMMA HeadAndTail ==
    ASSUME NEW s \in Seq(Jobs), s # << >>
    PROVE  /\ Head(s) \in Jobs
           /\ Head(s) \in {s[i] : i \in 1..Len(s)}
           /\ Tail(s) \in Seq(Jobs)
           /\ {Tail(s)[i] : i \in 1..Len(Tail(s))} \subseteq {s[i] : i \in 1..Len(s)}
PROOF
<1>1. Len(s) \in Nat \ {0} /\ Head(s) = s[1] /\ Head(s) \in Jobs
  BY EmptySeq, ElementOfSeq
<1>2. /\ Tail(s) \in Seq(Jobs) /\ Len(Tail(s)) = Len(s) - 1
      /\ \A i \in 1..Len(Tail(s)) : Tail(s)[i] = s[i + 1]
  BY <1>1
<1>3. \A i \in 1..Len(Tail(s)) : i + 1 \in 1..Len(s)
  BY <1>1, <1>2
<1> QED
  BY <1>1, <1>2, <1>3

LEMMA StartStep ==
    ASSUME JobsType, NEW w \in Workers, Start(w)
    PROVE  BatchStep(w)
PROOF
<1> DEFINE t == batch[w]
           h == Head(t.todo)
           out == [j \in DOMAIN t.out \cup {h} |->
                     IF j \in DOMAIN t.out THEN t.out[j] ELSE t.read[j]]
           b == [t EXCEPT !.running = TRUE, !.out = out]
<1>1. BatchOK(t) /\ ~t.running /\ t.todo # << >>
  BY DEF JobsType, Start
<1>2. batch' = [batch EXCEPT ![w] = b]
  BY DEF JobsType, Start, Next1
<1>3. h \in Jobs /\ h \in {t.todo[i] : i \in 1..Len(t.todo)}
  BY <1>1, HeadAndTail DEF BatchOK, BatchRecords
<1>4. h \in DOMAIN t.read /\ t.read[h] \in Waiting
  <2>1. h \in DOMAIN t.read
    BY <1>1, <1>3 DEF BatchOK, Chosen
  <2>2. t.read \in Copies
    BY <1>1 DEF BatchOK, BatchRecords
  <2> QED
    BY <2>1, <2>2, HeldType
<1>5. \A j \in DOMAIN out : out[j] \in Finished \/ (out[j] \in Waiting /\ j = h)
  BY <1>1, <1>4 DEF BatchOK
<1>6. DOMAIN out = DOMAIN t.out \cup {h} /\ out \in Helds
  <2>1. DOMAIN out \in SUBSET Jobs
    BY <1>1, <1>3 DEF BatchOK
  <2>2. out \in [DOMAIN out -> Waiting \cup Finished]
    BY <1>5
  <2> QED
    BY <2>1, <2>2, HeldType
<1>7. \A j \in DOMAIN out : out[j] = IF j \in DOMAIN t.out THEN t.out[j] ELSE t.read[j]
  BY <1>6
<1> HIDE DEF out
<1>8. /\ b.todo = t.todo /\ b.out = out /\ b.running /\ b.read = t.read
      /\ b \in BatchRecords
  BY <1>1, <1>6 DEF BatchOK, BatchRecords
<1> HIDE DEF b
<1>9. Chosen(b) \subseteq Chosen(t)
  BY <1>3, <1>6, <1>8 DEF Chosen
<1>10. BatchOK(b)
  BY <1>1, <1>3, <1>5, <1>6, <1>8, <1>9 DEF BatchOK
<1>11. ReadsOf(w, b)
  BY <1>8 DEF ReadsOf
<1>12. HoldsOf(w, b)
  <2>1. ~LockedByOther(w, h)
    BY DEF Start, Next1
  <2> QED
    BY <1>6, <1>7, <1>8, <2>1 DEF HoldsOf
<1> QED
  BY <1>2, <1>9, <1>10, <1>11, <1>12 DEF Start, BatchStep

LEMMA FinishStep ==
    ASSUME JobsType, NEW w \in Workers, NEW outcome \in {Done, Failed}, NEW logs \in BOOLEAN,
           Finish(w, outcome, logs)
    PROVE  BatchStep(w)
PROOF
<1> DEFINE t == batch[w]
           h == Head(t.todo)
           log == IF logs THEN runs[h] + 1 ELSE t.read[h].log
           row == [status |-> outcome.status, result |-> outcome.result, log |-> log]
           out == [t.out EXCEPT ![h] = row]
           tail == Tail(t.todo)
           b == [t EXCEPT !.running = FALSE, !.out = out, !.todo = tail]
<1>1. BatchOK(t) /\ t.running /\ t.todo # << >> /\ t.todo \in Seq(Jobs)
  BY DEF JobsType, Finish, BatchOK, BatchRecords
<1>2. batch' = [batch EXCEPT ![w] = b]
  BY DEF JobsType, Finish, Next1
<1>3. /\ tail \in Seq(Jobs)
      /\ {tail[i] : i \in 1..Len(tail)} \subseteq {t.todo[i] : i \in 1..Len(t.todo)}
      /\ h \in Jobs /\ h \in DOMAIN t.read
  <2>1. h \in Jobs /\ h \in Chosen(t)
    BY <1>1, HeadAndTail DEF Chosen
  <2> QED
    BY <1>1, <2>1, HeadAndTail DEF BatchOK
<1>4. row \in Finished /\ row.log \in {t.read[h].log, runs[h] + 1}
  <2>1. t.read[h] \in Waiting
    BY <1>1, <1>3, HeldType DEF BatchOK, BatchRecords
  <2>2. log \in Nat
    BY <1>3, <2>1 DEF JobsType, Waiting
  <2> HIDE DEF log
  <2>3. row \in Finished
    BY <2>2 DEF Finished, Done, Failed
  <2> QED
    BY <2>3 DEF log
<1> HIDE DEF row
<1>5. /\ DOMAIN out = DOMAIN t.out
      /\ \A j \in DOMAIN out : out[j] \in Finished
      /\ \A j \in DOMAIN out : out[j] = IF j = h THEN row ELSE t.out[j]
      /\ out \in Helds
  <2>1. DOMAIN out = DOMAIN t.out /\ \A j \in DOMAIN out : out[j] \in Finished
    BY <1>1, <1>4 DEF BatchOK
  <2>2. out \in [DOMAIN out -> Waiting \cup Finished] /\ DOMAIN out \in SUBSET Jobs
    BY <1>1, <2>1 DEF BatchOK
  <2> QED
    BY <2>1, <2>2, HeldType
<1> HIDE DEF out, tail
<1>6. /\ b.todo = tail /\ b.out = out /\ ~b.running /\ b.read = t.read
      /\ b \in BatchRecords
  BY <1>1, <1>3, <1>5 DEF BatchOK, BatchRecords
<1> HIDE DEF b
<1>7. Chosen(b) \subseteq Chosen(t)
  BY <1>3, <1>5, <1>6 DEF Chosen
<1>8. BatchOK(b)
  BY <1>1, <1>5, <1>6, <1>7 DEF BatchOK
<1>9. ReadsOf(w, b) /\ HoldsOf(w, b)
  BY <1>4, <1>5, <1>6 DEF ReadsOf, HoldsOf
<1> QED
  BY <1>2, <1>7, <1>8, <1>9 DEF Finish, BatchStep

LEMMA DropStep ==
    ASSUME NEW w \in Workers,
           FinishPoison(w) \/ BatchDeadlock(w) \/ Crash(w) \/ StartWorker(w)
    PROVE  BatchStep(w)
PROOF
<1>1. \A b \in {NoBatch, Down} : ReadsOf(w, b) /\ HoldsOf(w, b) /\ BatchOK(b) /\ Chosen(b) = {}
  BY NoBatchOK DEF ReadsOf, HoldsOf
<1> QED
  BY <1>1 DEF FinishPoison, BatchDeadlock, Crash, StartWorker, BatchStep

(* A request loads a row as it is, or is closed; or no request is involved. *)
RequestStep ==
    /\ UNCHANGED <<job, submits, runs, batch, keptLog>>
    /\ DOMAIN req' = Clients
    /\ \A c \in Clients :
          /\ RequestOK(req'[c])
          /\ req'[c] \in {req[c], NoRequest} \/ req'[c].loaded = job[req'[c].job]

(* Every step is one of these: a job is created, a request writes a row or  *)
(* not, a worker goes on with its batch, a batch is committed.              *)
LEMMA StepKinds ==
    ASSUME JobsType, [Next]_vars
    PROVE  \/ RequestStep
           \/ \E j \in Jobs : Enqueue(j)
           \/ \E c \in Clients : Write(c)
           \/ \E w \in Workers : BatchStep(w) \/ CommitBatch(w)
PROOF
<1>1. CASE \E j \in Jobs : Enqueue(j) \/ OpenWatch(j) \/ CloseWatch(j)
  BY <1>1 DEF OpenWatch, CloseWatch, JobsType, RequestStep
<1>2. ASSUME NEW c \in Clients, NEW j \in Jobs, NEW op \in {"cancel", "retry"},
             Load(c, op, j)
      PROVE  RequestStep
  <2> DEFINE q == [op |-> op, job |-> j, loaded |-> job[j]]
  <2>1. req' = [req EXCEPT ![c] = q] /\ job[j] # Absent
    BY <1>2 DEF Load
  <2>2. RequestOK(q) /\ q.loaded = job[q.job]
    BY <2>1 DEF RequestOK, JobsType
  <2> HIDE DEF q
  <2>3. \A k \in Clients : req'[k] = IF k = c THEN q ELSE req[k]
    BY <2>1 DEF JobsType
  <2> QED
    BY <1>2, <2>1, <2>2, <2>3 DEF Load, JobsType, RequestStep
<1>3. ASSUME NEW c \in Clients, RefuseRequest(c)
      PROVE  RequestStep
  BY <1>3 DEF RefuseRequest, JobsType, RequestOK, RequestStep
<1>4. ASSUME NEW w \in Workers, WorkerStep(w) \/ Crash(w) \/ StartWorker(w)
      PROVE  BatchStep(w) \/ CommitBatch(w)
  BY <1>4, PollStep, StartStep, FinishStep, DropStep DEF WorkerStep
<1>5. CASE UNCHANGED vars
  BY <1>5 DEF vars, JobsType, RequestStep
<1> QED
  BY <1>1, <1>2, <1>3, <1>4, <1>5 DEF Next

(* What a request makes of the row: the status and the result always differ *)
(* from the ones it has read.                                               *)
LEMMA WriteRow ==
    ASSUME JobsType, NEW c \in Clients, Write(c),
           NEW k, k = req[c].job,
           NEW row, row = Written(req[c].loaded, HeldRow(req[c]), job[k])
    PROVE  /\ k \in Jobs /\ job' = [job EXCEPT ![k] = row]
           /\ req[c].op \in {"cancel", "retry"} /\ req[c].loaded \in JobRows \ {Absent}
           /\ req[c].op = "cancel" =>
                 /\ row \in Stopped /\ row.log = job[k].log
                 /\ req[c].loaded.status = "queued"
                 /\ HeldRow(req[c]).log = req[c].loaded.log
           /\ req[c].op = "retry" =>
                 /\ row \in Waiting
                 /\ row.log = IF req[c].loaded.log = 0 THEN job[k].log ELSE 0
                 /\ HeldRow(req[c]).log = 0
           /\ row \in JobRows \ {Absent} /\ (row.status = "queued" <=> req[c].op = "retry")
           /\ UNCHANGED <<runs, batch>>
PROOF
<1> DEFINE read == req[c].loaded
<1>1. /\ k \in Jobs /\ req[c].op \in {"cancel", "retry"} /\ read \in JobRows \ {Absent}
      /\ Allowed(req[c].op, read.status)
  BY DEF Write, JobsType, RequestOK
<1>2. job' = [job EXCEPT ![k] = row] /\ UNCHANGED <<runs, batch>>
  BY DEF Write
<1>3. job[k].log \in Nat
  BY <1>1, RowKinds DEF JobsType
<1>4. CASE req[c].op = "cancel"
  <2>1. read \in Waiting /\ read.status = "queued"
    BY <1>1, <1>4, RowKinds DEF Allowed
  <2>2. HeldRow(req[c]) = [read EXCEPT !.status = "cancelled", !.result = "cancelled"]
    BY <1>4 DEF HeldRow, CancelRow
  <2>3. /\ HeldRow(req[c]).status = "cancelled" /\ HeldRow(req[c]).result = "cancelled"
        /\ HeldRow(req[c]).log = read.log /\ read.result = "none"
    BY <2>1, <2>2 DEF Waiting
  <2>4. row = [status |-> "cancelled", result |-> "cancelled", log |-> job[k].log]
    BY <2>1, <2>3 DEF Written
  <2>5. row \in Stopped /\ row.status = "cancelled" /\ row.log = job[k].log
    BY <1>3, <2>4 DEF Stopped
  <2> QED
    BY <1>1, <1>2, <1>4, <2>1, <2>3, <2>5, RowKinds DEF JobRows
<1>5. CASE req[c].op = "retry"
  <2>1. read.status \in {"cancelled", "failed"} /\ read.result \in {"cancelled", "error"}
    BY <1>1, <1>5 DEF Allowed, JobRows, Waiting, Stopped, Finished
  <2>2. HeldRow(req[c]) = [status |-> "queued", result |-> "none", log |-> 0]
    BY <1>5 DEF HeldRow, RetryRow, Queued
  <2>3. row = [status |-> "queued", result |-> "none",
               log |-> IF read.log = 0 THEN job[k].log ELSE 0]
    BY <2>1, <2>2 DEF Written
  <2>4. row \in Waiting /\ row.status = "queued"
        /\ row.log = IF read.log = 0 THEN job[k].log ELSE 0
    BY <1>3, <2>3 DEF Waiting
  <2> QED
    BY <1>1, <1>2, <1>5, <2>2, <2>4, RowKinds DEF JobRows
<1> QED
  BY <1>1, <1>4, <1>5

(* What a commit makes of a row. *)
LEMMA CommitRow ==
    ASSUME NEW read \in Waiting, NEW held \in Finished, NEW row \in JobRows
    PROVE  /\ Written(read, held, row) \in Finished
           /\ Written(read, held, row).log = IF held.log = read.log THEN row.log ELSE held.log
PROOF
<1>1. row.log \in Nat /\ held.log \in Nat
  BY RowKinds DEF JobRows
<1>2. held.status # read.status /\ held.result # read.result
  BY DEF Waiting, Finished
<1>3. Written(read, held, row) =
         [status |-> held.status, result |-> held.result,
          log |-> IF held.log = read.log THEN row.log ELSE held.log]
  BY <1>2 DEF Written
<1> QED
  BY <1>1, <1>3 DEF Finished

LEMMA CommitRows ==
    ASSUME JobsType, NEW w \in Workers, CommitBatch(w)
    PROVE  /\ DOMAIN batch[w].out \subseteq Jobs
           /\ DOMAIN batch[w].out \subseteq DOMAIN batch[w].read
           /\ \A j \in DOMAIN batch[w].out :
                 /\ batch[w].read[j] \in Waiting /\ batch[w].out[j] \in Finished
                 /\ job'[j] \in Finished
                 /\ job'[j] = Written(batch[w].read[j], batch[w].out[j], job[j])
                 /\ job'[j].log = IF batch[w].out[j].log = batch[w].read[j].log
                                  THEN job[j].log ELSE batch[w].out[j].log
           /\ \A j \in Jobs :
                 /\ j \notin DOMAIN batch[w].out => job'[j] = job[j]
                 /\ runs'[j] = IF j \in DOMAIN batch[w].out THEN runs[j] + 1 ELSE runs[j]
           /\ DOMAIN job' = Jobs /\ DOMAIN runs' = Jobs
PROOF
<1> DEFINE t == batch[w]
<1>1. BatchOK(t) /\ t.todo = << >>
  BY DEF JobsType, CommitBatch
<1>2. DOMAIN t.out \subseteq Jobs /\ DOMAIN t.out \subseteq DOMAIN t.read
  BY <1>1 DEF BatchOK, Chosen
<1>3. ASSUME NEW j \in DOMAIN t.out
      PROVE  t.read[j] \in Waiting /\ t.out[j] \in Finished /\ job[j] \in JobRows
  BY <1>1, <1>2, HeldType DEF BatchOK, BatchRecords, JobsType
<1>4. \A j \in Jobs :
         /\ job'[j] = IF j \in DOMAIN t.out THEN Written(t.read[j], t.out[j], job[j]) ELSE job[j]
         /\ runs'[j] = IF j \in DOMAIN t.out THEN runs[j] + 1 ELSE runs[j]
  BY DEF CommitBatch
<1>5. DOMAIN job' = Jobs /\ DOMAIN runs' = Jobs
  BY DEF CommitBatch
<1> HIDE DEF t
<1>6. ASSUME NEW j \in DOMAIN t.out
      PROVE  /\ job'[j] \in Finished
             /\ job'[j] = Written(t.read[j], t.out[j], job[j])
             /\ job'[j].log = IF t.out[j].log = t.read[j].log
                              THEN job[j].log ELSE t.out[j].log
  <2>1. job'[j] = Written(t.read[j], t.out[j], job[j])
    BY <1>2, <1>4
  <2> QED
    BY <1>3, <2>1, CommitRow
<1> QED
  BY <1>2, <1>3, <1>4, <1>5, <1>6 DEF t

LEMMA KeptBoolean ==
    ASSUME NEW j, NEW read, NEW held
    PROVE  LogKept(j, read, held) \in BOOLEAN
PROOF
  BY Zenon DEF LogKept

LEMMA StepJobs ==
    ASSUME JobsType, [Next]_vars
    PROVE  JobsType'
PROOF
<1>1. ASSUME NEW j \in Jobs, Enqueue(j) PROVE JobsType'
  BY <1>1, RowKinds DEF JobsType, Enqueue, JobRows
<1>2. ASSUME NEW c \in Clients, Write(c) PROVE JobsType'
  <2>1. job' \in [Jobs -> JobRows]
    BY <1>2, WriteRow DEF JobsType
  <2>2. keptLog' \in [Jobs -> BOOLEAN]
    BY <1>2, KeptBoolean DEF JobsType, Write
  <2>3. submits' \in [Jobs -> Nat]
    <3>1. req[c].job \in Jobs
      BY <1>2 DEF JobsType, RequestOK, Write
    <3>2. submits' = IF req[c].op = "retry"
                     THEN [submits EXCEPT ![req[c].job] = submits[req[c].job] + 1]
                     ELSE submits
      BY <1>2 DEF Write
    <3> QED
      BY <3>1, <3>2 DEF JobsType
  <2>4. DOMAIN req' = Clients /\ \A k \in Clients : RequestOK(req'[k])
    BY <1>2 DEF JobsType, Write, RequestOK
  <2> QED
    BY <1>2, <2>1, <2>2, <2>3, <2>4 DEF JobsType, Write
<1>3. ASSUME NEW w \in Workers, BatchStep(w) PROVE JobsType'
  BY <1>3 DEF JobsType, BatchStep
<1>4. ASSUME NEW w \in Workers, CommitBatch(w) PROVE JobsType'
  <2>1. job' \in [Jobs -> JobRows] /\ runs' \in [Jobs -> Nat]
    <3>1. \A j \in Jobs : job'[j] \in JobRows /\ runs'[j] \in Nat
      BY <1>4, CommitRows DEF JobsType, JobRows
    <3>2. job' = [j \in Jobs |-> job'[j]] /\ runs' = [j \in Jobs |-> runs'[j]]
      BY <1>4 DEF CommitBatch
    <3> QED
      BY <3>1, <3>2
  <2>2. keptLog' \in [Jobs -> BOOLEAN]
    BY <1>4, KeptBoolean DEF CommitBatch, JobsType
  <2> QED
    BY <1>4, <2>1, <2>2, NoBatchOK DEF JobsType, CommitBatch
<1>5. CASE RequestStep
  BY <1>5 DEF JobsType, RequestStep
<1> QED
  BY <1>1, <1>2, <1>3, <1>4, <1>5, StepKinds

(* Rows, requests and batches keep their types.                             *)
THEOREM JobsTypeCorrect == Spec => []JobsType
PROOF
  BY InitJobs, StepJobs, PTL DEF Spec

-----------------------------------------------------------------------------
(* The outcome of one run. A log that is in a row which has not ended, or   *)
(* is not of the run whose result the row has, was kept by a writer that    *)
(* had not read it. What is read of a queued row is never the log of a run  *)
(* that ends later: a writer that keeps the log it has read keeps no log.   *)

LogOf(j) ==
    /\ job[j].log <= runs[j]
    /\ job[j].log # 0 /\ ~keptLog[j] => job[j] \in Finished /\ job[j].log = runs[j]

ReadLog(row, j) ==
    /\ row.log <= runs[j]
    /\ row.log # 0 /\ job[j].log = row.log => keptLog[j]

(* Two batches never hold the same row; what one holds has the log it read, *)
(* or the log of the run in progress.                                       *)
HeldLogs ==
    \A w \in Workers : \A j \in DOMAIN batch[w].out :
        /\ batch[w].out[j].log \in {batch[w].read[j].log, runs[j] + 1}
        /\ \A v \in Workers \ {w} : j \notin DOMAIN batch[v].out

LogInv ==
    /\ \A j \in Jobs : LogOf(j)
    /\ \A w \in Workers : \A j \in DOMAIN batch[w].read : ReadLog(batch[w].read[j], j)
    /\ \A c \in Clients : req[c] # NoRequest /\ req[c].loaded.status = "queued" =>
          ReadLog(req[c].loaded, req[c].job)
    /\ HeldLogs

LEMMA InitLog == Init => LogInv
PROOF
<1> SUFFICES ASSUME Init PROVE LogInv
  OBVIOUS
<1>1. \A w \in Workers : DOMAIN batch[w].read = {} /\ DOMAIN batch[w].out = {}
  BY NoBatchOK DEF Init
<1>2. \A c \in Clients : req[c] = NoRequest
  BY DEF Init
<1>3. \A j \in Jobs : LogOf(j)
  BY RowKinds DEF Init, LogOf
<1> QED
  BY <1>1, <1>2, <1>3 DEF LogInv, HeldLogs

(* A queued row that is read now. *)
LEMMA QueuedRead ==
    ASSUME JobsType, LogInv, NEW j \in Jobs, job[j].status = "queued"
    PROVE  ReadLog(job[j], j)
PROOF
<1>1. job[j] \notin Finished
  BY DEF Finished
<1> QED
  BY <1>1 DEF LogInv, LogOf, ReadLog

LEMMA RequestLog ==
    ASSUME JobsType, LogInv, RequestStep
    PROVE  LogInv'
PROOF
<1>1. UNCHANGED <<job, runs, batch, keptLog>>
  BY DEF RequestStep
<1>2. (\A j \in Jobs : LogOf(j))' /\ HeldLogs'
      /\ (\A w \in Workers : \A j \in DOMAIN batch[w].read : ReadLog(batch[w].read[j], j))'
  BY <1>1 DEF LogInv, LogOf, HeldLogs, ReadLog
<1>3. ASSUME NEW c \in Clients, req'[c] # NoRequest, req'[c].loaded.status = "queued"
      PROVE  ReadLog(req[c].loaded, req[c].job)'
  <2>1. ReadLog(req'[c].loaded, req'[c].job)
    <3>1. CASE req'[c] = req[c]
      BY <1>3, <3>1 DEF LogInv
    <3>2. CASE req'[c] # req[c]
      <4>1. req'[c].loaded = job[req'[c].job] /\ req'[c].job \in Jobs
        BY <1>3, <3>2 DEF RequestStep, RequestOK
      <4> QED
        BY <1>3, <4>1, QueuedRead
    <3> QED
      BY <3>1, <3>2
  <2> QED
    BY <1>1, <2>1 DEF ReadLog
<1> QED
  BY <1>2, <1>3 DEF LogInv

LEMMA BatchLog ==
    ASSUME JobsType, LogInv, NEW w \in Workers, BatchStep(w)
    PROVE  LogInv'
PROOF
<1>1. PICK b : batch' = [batch EXCEPT ![w] = b] /\ ReadsOf(w, b) /\ HoldsOf(w, b)
  BY DEF BatchStep
<1>2. UNCHANGED <<job, runs, req, keptLog>>
  BY DEF BatchStep
<1>3. batch'[w] = b /\ \A v \in Workers \ {w} : batch'[v] = batch[v]
  BY <1>1 DEF JobsType
<1>4. (\A j \in Jobs : LogOf(j))'
      /\ (\A c \in Clients : req[c] # NoRequest /\ req[c].loaded.status = "queued" =>
            ReadLog(req[c].loaded, req[c].job))'
  BY <1>2 DEF LogInv, LogOf, ReadLog
<1>5. ASSUME NEW v \in Workers, NEW j \in DOMAIN batch'[v].read
      PROVE  ReadLog(batch'[v].read[j], j)
  <2>1. CASE v # w
    BY <1>3, <1>5, <2>1 DEF LogInv
  <2>2. CASE v = w
    BY <1>1, <1>3, <1>5, <2>2, QueuedRead DEF LogInv, ReadsOf, QueuedJobs
  <2> QED
    BY <2>1, <2>2
<1>6. \A v \in Workers : \A j \in DOMAIN batch'[v].read : ReadLog(batch[v].read[j], j)'
  BY <1>2, <1>5 DEF ReadLog
<1>7. HeldLogs'
  <2> SUFFICES ASSUME NEW v \in Workers, NEW j \in DOMAIN batch'[v].out
               PROVE  /\ batch'[v].out[j].log \in {batch'[v].read[j].log, runs[j] + 1}
                      /\ \A u \in Workers \ {v} : j \notin DOMAIN batch'[u].out
    BY <1>2 DEF HeldLogs
  <2>1. batch'[v].out[j].log \in {batch'[v].read[j].log, runs[j] + 1}
    BY <1>1, <1>3 DEF LogInv, HeldLogs, HoldsOf
  <2>2. \A i \in DOMAIN b.out : i \in DOMAIN batch[w].out
                                 \/ \A u \in Workers \ {w} : i \notin DOMAIN batch[u].out
    BY <1>1 DEF HoldsOf, LockedByOther
  <2>3. \A i \in DOMAIN b.out : \A u \in Workers \ {w} : i \notin DOMAIN batch[u].out
    BY <2>2 DEF LogInv, HeldLogs
  <2>4. \A u \in Workers \ {v} : j \notin DOMAIN batch'[u].out
    BY <1>3, <2>3 DEF LogInv, HeldLogs
  <2> QED
    BY <2>1, <2>4
<1> QED
  BY <1>4, <1>6, <1>7 DEF LogInv

(* A step that writes one row, which no batch holds, and runs nothing.      *)
LEMMA RowLog ==
    ASSUME JobsType, LogInv, NEW k \in Jobs, NEW row, NEW kept \in BOOLEAN,
           job' = [job EXCEPT ![k] = row], keptLog' = [keptLog EXCEPT ![k] = kept],
           UNCHANGED <<runs, batch>>,
           \A c \in Clients : req'[c] \in {req[c], NoRequest},
           row.log \in {0, job[k].log},
           row.log # 0 => kept
    PROVE  LogInv'
PROOF
<1>1. job'[k] = row /\ keptLog'[k] = kept
      /\ \A j \in Jobs \ {k} : job'[j] = job[j] /\ keptLog'[j] = keptLog[j]
  BY DEF JobsType
<1>2. 0 <= runs[k]
  BY DEF JobsType
<1>3. ASSUME NEW j \in Jobs PROVE LogOf(j)'
  BY <1>1, <1>2 DEF LogInv, LogOf
<1>4. ASSUME NEW copy, NEW j \in Jobs, ReadLog(copy, j)
      PROVE  /\ copy.log <= runs'[j]
             /\ copy.log # 0 /\ job'[j].log = copy.log => keptLog'[j]
  BY <1>1, <1>4 DEF ReadLog
<1>5. ASSUME NEW w \in Workers, NEW j \in DOMAIN batch'[w].read
      PROVE  ReadLog(batch[w].read[j], j)'
  <2>1. j \in Jobs /\ ReadLog(batch[w].read[j], j)
    BY <1>5 DEF JobsType, BatchOK, LogInv
  <2> QED
    BY <1>4, <2>1 DEF ReadLog
<1>6. ASSUME NEW c \in Clients, req'[c] # NoRequest, req'[c].loaded.status = "queued"
      PROVE  ReadLog(req[c].loaded, req[c].job)'
  <2>1. req'[c] = req[c] /\ req[c].job \in Jobs /\ ReadLog(req[c].loaded, req[c].job)
    BY <1>6 DEF JobsType, RequestOK, LogInv
  <2> QED
    BY <1>4, <2>1 DEF ReadLog
<1>7. HeldLogs'
  BY DEF LogInv, HeldLogs
<1> QED
  BY <1>3, <1>5, <1>6, <1>7 DEF LogInv

LEMMA WriteLog ==
    ASSUME JobsType, LogInv, NEW c \in Clients, Write(c)
    PROVE  LogInv'
PROOF
<1> DEFINE k == req[c].job
           read == req[c].loaded
           held == HeldRow(req[c])
           row == Written(read, held, job[k])
           kept == LogKept(k, read, held)
<1>1. /\ k \in Jobs /\ job' = [job EXCEPT ![k] = row] /\ UNCHANGED <<runs, batch>>
      /\ req[c].op = "cancel" =>
            /\ row.log = job[k].log /\ read.status = "queued" /\ held.log = read.log
      /\ req[c].op = "retry" =>
            row.log = (IF read.log = 0 THEN job[k].log ELSE 0) /\ held.log = 0
      /\ req[c].op \in {"cancel", "retry"}
  <2>1. row = Written(req[c].loaded, HeldRow(req[c]), job[k]) /\ k = req[c].job
    OBVIOUS
  <2> HIDE DEF row, k
  <2> QED
    BY <2>1, WriteRow
<1>2. keptLog' = [keptLog EXCEPT ![k] = kept] /\ kept \in BOOLEAN /\ req[c] # NoRequest
  BY KeptBoolean DEF Write
<1>3. \A u \in Clients : req'[u] \in {req[u], NoRequest}
  BY DEF Write, JobsType
<1>4. row.log \in {0, job[k].log}
  BY <1>1
<1>5. row.log # 0 => kept
  <2>1. CASE req[c].op = "cancel"
    <3>1. ReadLog(read, k)
      BY <1>1, <1>2, <2>1 DEF LogInv
    <3> QED
      BY <1>1, <2>1, <3>1 DEF LogKept, ReadLog
  <2>2. CASE req[c].op = "retry"
    BY <1>1, <2>2 DEF LogKept
  <2> QED
    BY <1>1, <2>1, <2>2
<1> HIDE DEF k, row, kept
<1> QED
  BY <1>1, <1>2, <1>3, <1>4, <1>5, RowLog

LEMMA EnqueueLog ==
    ASSUME JobsType, LogInv, NEW j \in Jobs, Enqueue(j)
    PROVE  LogInv'
PROOF
<1>1. keptLog' = [keptLog EXCEPT ![j] = keptLog[j]] /\ keptLog[j] \in BOOLEAN
  BY DEF Enqueue, JobsType
<1>2. job' = [job EXCEPT ![j] = Queued] /\ UNCHANGED <<runs, batch, req>> /\ Queued.log = 0
  BY RowKinds DEF Enqueue
<1> QED
  BY <1>1, <1>2, RowLog

LEMMA CommitLog ==
    ASSUME JobsType, LogInv, NEW w \in Workers, CommitBatch(w)
    PROVE  LogInv'
PROOF
<1> DEFINE out == batch[w].out
           read == batch[w].read
<1>1. /\ DOMAIN out \subseteq Jobs /\ DOMAIN out \subseteq DOMAIN read
      /\ \A j \in DOMAIN out :
            /\ job'[j] \in Finished
            /\ job'[j].log = IF out[j].log = read[j].log THEN job[j].log ELSE out[j].log
            /\ runs'[j] = runs[j] + 1
      /\ \A j \in Jobs \ DOMAIN out : job'[j] = job[j] /\ runs'[j] = runs[j]
  BY CommitRows
<1>2. \A j \in Jobs : keptLog'[j] = IF j \in DOMAIN out THEN LogKept(j, read[j], out[j])
                                     ELSE keptLog[j]
  BY DEF CommitBatch
<1>3. \A j \in DOMAIN out :
         ReadLog(read[j], j) /\ out[j].log \in {read[j].log, runs[j] + 1}
  BY <1>1 DEF LogInv, HeldLogs
<1>4. /\ batch'[w] = NoBatch /\ \A v \in Workers \ {w} : batch'[v] = batch[v]
      /\ req' = req
  BY DEF CommitBatch, JobsType
<1>5. \A j \in Jobs : runs[j] \in Nat /\ job[j].log \in Nat
  BY RowKinds DEF JobsType
<1> HIDE DEF out, read
<1>6. ASSUME NEW j \in Jobs PROVE LogOf(j)'
  <2>1. LogOf(j)
    BY DEF LogInv
  <2>2. CASE j \notin DOMAIN out
    BY <1>1, <1>2, <2>1, <2>2 DEF LogOf
  <2>3. CASE j \in DOMAIN out /\ out[j].log = read[j].log
    <3>1. job'[j].log = job[j].log /\ job'[j].log <= runs'[j]
      BY <1>1, <1>5, <2>1, <2>3 DEF LogOf
    <3>2. keptLog'[j] <=> (keptLog[j] \/ read[j].log # job[j].log)
      BY <1>2, <2>3 DEF LogKept
    <3>3. job[j].log # 0 => keptLog'[j]
      BY <1>3, <2>3, <3>2 DEF ReadLog
    <3> QED
      BY <3>1, <3>3 DEF LogOf
  <2>4. CASE j \in DOMAIN out /\ out[j].log # read[j].log
    BY <1>1, <1>3, <1>5, <2>4 DEF LogOf
  <2> QED
    BY <2>2, <2>3, <2>4
<1>7. ASSUME NEW copy, NEW j \in Jobs, ReadLog(copy, j), copy.log \in Nat
      PROVE  /\ copy.log <= runs'[j]
             /\ copy.log # 0 /\ job'[j].log = copy.log => keptLog'[j]
  <2>1. CASE j \notin DOMAIN out
    BY <1>1, <1>2, <1>7, <2>1 DEF ReadLog
  <2>2. CASE j \in DOMAIN out /\ out[j].log = read[j].log
    <3>1. job'[j].log = job[j].log /\ copy.log <= runs'[j]
      BY <1>1, <1>5, <1>7, <2>2 DEF ReadLog
    <3>2. keptLog[j] => keptLog'[j]
      BY <1>2, <2>2 DEF LogKept
    <3> QED
      BY <1>7, <3>1, <3>2 DEF ReadLog
  <2>3. CASE j \in DOMAIN out /\ out[j].log # read[j].log
    BY <1>1, <1>3, <1>5, <1>7, <2>3 DEF ReadLog
  <2> QED
    BY <2>1, <2>2, <2>3
<1>8. ASSUME NEW v \in Workers, NEW j \in DOMAIN batch'[v].read
      PROVE  ReadLog(batch[v].read[j], j)'
  <2>1. v # w
    BY <1>4, <1>8, NoBatchOK
  <2>2. j \in DOMAIN batch[v].read /\ batch'[v] = batch[v] /\ BatchOK(batch[v])
    BY <1>4, <1>8, <2>1 DEF JobsType
  <2>3. j \in Jobs /\ ReadLog(batch[v].read[j], j) /\ batch[v].read[j] \in Waiting
    BY <2>2, HeldType DEF BatchOK, BatchRecords, LogInv
  <2>4. batch[v].read[j].log \in Nat
    BY <2>3 DEF Waiting
  <2> QED
    BY <1>7, <2>2, <2>3, <2>4 DEF ReadLog
<1>9. ASSUME NEW c \in Clients, req'[c] # NoRequest, req'[c].loaded.status = "queued"
      PROVE  ReadLog(req[c].loaded, req[c].job)'
  <2>1. /\ req[c].job \in Jobs /\ ReadLog(req[c].loaded, req[c].job)
        /\ req[c].loaded.log \in Nat
    BY <1>4, <1>9, RowKinds DEF JobsType, RequestOK, LogInv
  <2> QED
    BY <1>4, <1>7, <2>1 DEF ReadLog
<1>10. HeldLogs'
  <2> SUFFICES ASSUME NEW v \in Workers, NEW j \in DOMAIN batch'[v].out
               PROVE  /\ batch'[v].out[j].log \in {batch'[v].read[j].log, runs'[j] + 1}
                      /\ \A u \in Workers \ {v} : j \notin DOMAIN batch'[u].out
    BY DEF HeldLogs
  <2>1. v # w
    BY <1>4, NoBatchOK
  <2>2. /\ batch'[v] = batch[v] /\ j \in Jobs
        /\ batch[v].out[j].log \in {batch[v].read[j].log, runs[j] + 1}
        /\ \A u \in Workers \ {v} : j \notin DOMAIN batch[u].out
    BY <1>4, <2>1 DEF JobsType, BatchOK, LogInv, HeldLogs
  <2>3. runs'[j] = runs[j]
    BY <1>1, <2>1, <2>2 DEF out
  <2> QED
    BY <1>4, <2>2, <2>3, NoBatchOK
<1> QED
  BY <1>6, <1>8, <1>9, <1>10 DEF LogInv

(* Whatever requests and batches write over each other, column by column,   *)
(* from rows they have read long before, with any number of workers: status *)
(* and result are of one commit, and a log is the log of the run whose      *)
(* result is there, or was kept by a writer that had not read it.           *)
THEOREM OutcomesOfOneRun == Spec => []OutcomeOfOneRun
PROOF
<1>1. JobsType /\ LogInv /\ [Next]_vars => LogInv'
  BY StepKinds, RequestLog, BatchLog, WriteLog, EnqueueLog, CommitLog
<1>2. JobsType /\ LogInv => OutcomeOfOneRun
  <2> SUFFICES ASSUME JobsType, LogInv, NEW j \in Jobs
               PROVE  /\ <<job[j].status, job[j].result>> \in Outcomes
                      /\ job[j].log # 0 /\ ~keptLog[j] =>
                            job[j].status \in {"done", "failed"} /\ job[j].log = runs[j]
    BY DEF OutcomeOfOneRun
  <2>1. <<job[j].status, job[j].result>> \in Outcomes
    BY DEF JobsType, JobRows, Absent, Waiting, Stopped, Finished, Outcomes
  <2>2. LogOf(j) /\ job[j] \in JobRows
    BY DEF LogInv, JobsType
  <2> QED
    BY <2>1, <2>2, RowKinds DEF LogOf
<1> QED
  BY <1>1, <1>2, InitLog, JobsTypeCorrect, PTL DEF Spec
-----------------------------------------------------------------------------
(* At most once. A job that is queued, or chosen by the worker's batch, has *)
(* entered the queue once more often than its effects have been committed.  *)

Owed(j) ==
    /\ job[j] = Absent => submits[j] = 0
    /\ runs[j] <= submits[j]
    /\ job[j].status = "queued" \/ (\E w \in Workers : j \in Chosen(batch[w])) =>
          runs[j] < submits[j]

OnceInv == \A j \in Jobs : Owed(j)

LEMMA InitOnce == Init => OnceInv
PROOF
  BY NoBatchOK DEF Init, OnceInv, Owed, Absent

LEMMA StepOnce ==
    ASSUME NEW theWorker, Workers = {theWorker}, JobsType, OnceInv, [Next]_vars
    PROVE  OnceInv'
PROOF
<1>1. ASSUME NEW j \in Jobs, Enqueue(j) PROVE OnceInv'
  BY <1>1 DEF Enqueue, JobsType, OnceInv, Owed, Absent, Queued
<1>2. ASSUME NEW c \in Clients, Write(c) PROVE OnceInv'
  <2> DEFINE k == req[c].job
             row == Written(req[c].loaded, HeldRow(req[c]), job[k])
  <2>1. /\ k \in Jobs /\ row # Absent
        /\ row.status = "queued" => req[c].op = "retry"
        /\ job' = [job EXCEPT ![k] = row] /\ UNCHANGED <<runs, batch>>
    BY <1>2, WriteRow
  <2>2. submits' = IF req[c].op = "retry" THEN [submits EXCEPT ![k] = submits[k] + 1]
                                          ELSE submits
    BY <1>2 DEF Write
  <2> HIDE DEF row, k
  <2>3. /\ job'[k] = row /\ runs'[k] = runs[k]
        /\ submits[k] \in Nat /\ runs[k] \in Nat
        /\ submits'[k] = IF req[c].op = "retry" THEN submits[k] + 1 ELSE submits[k]
        /\ \A j \in Jobs \ {k} :
              job'[j] = job[j] /\ submits'[j] = submits[j] /\ runs'[j] = runs[j]
    BY <2>1, <2>2 DEF JobsType
  <2>4. \A v \in Workers : Chosen(batch'[v]) = Chosen(batch[v])
    BY <2>1
  <2>5. ASSUME NEW j \in Jobs, j # k PROVE Owed(j)'
    <3>1. /\ job'[j] = job[j] /\ submits'[j] = submits[j] /\ runs'[j] = runs[j]
          /\ Owed(j)
      BY <2>3, <2>5 DEF OnceInv
    <3> QED
      BY <2>4, <3>1 DEF Owed
  <2>6. ASSUME NEW j \in Jobs, j = k PROVE Owed(j)'
    <3>1. Owed(j) /\ job'[j] = row /\ runs'[j] = runs[j]
      BY <2>3, <2>6 DEF OnceInv
    <3>2. CASE req[c].op = "retry"
      <4>1. /\ job'[j] # Absent /\ submits'[j] = submits[j] + 1
            /\ submits[j] \in Nat /\ runs[j] \in Nat
        BY <2>1, <2>3, <2>6, <3>2
      <4> QED
        BY <3>1, <4>1 DEF Owed
    <3>3. CASE req[c].op # "retry"
      <4>1. job'[j] # Absent /\ job'[j].status # "queued" /\ submits'[j] = submits[j]
        BY <2>1, <2>3, <2>6, <3>1, <3>3
      <4> QED
        BY <2>4, <3>1, <4>1 DEF Owed
    <3> QED
      BY <3>2, <3>3
  <2>7. ASSUME NEW j \in Jobs PROVE Owed(j)'
    BY <2>5, <2>6
  <2> QED
    BY <2>7 DEF OnceInv
<1>3. ASSUME NEW w \in Workers, BatchStep(w) PROVE OnceInv'
  <2>1. PICK b : /\ batch' = [batch EXCEPT ![w] = b]
                 /\ \/ Chosen(b) \subseteq QueuedJobs
                    \/ Chosen(b) \subseteq Chosen(batch[w])
    BY <1>3 DEF BatchStep
  <2>2. ASSUME NEW j \in Jobs, NEW v \in Workers, j \in Chosen(batch'[v])
        PROVE  runs[j] < submits[j]
    BY <2>1, <2>2 DEF JobsType, OnceInv, Owed, QueuedJobs
  <2> QED
    BY <1>3, <2>2 DEF BatchStep, OnceInv, Owed, Chosen
<1>4. ASSUME NEW w \in Workers, CommitBatch(w) PROVE OnceInv'
  <2> DEFINE out == batch[w].out
  <2>1. DOMAIN out \subseteq Chosen(batch[w])
    BY DEF Chosen
  <2>2. \A j \in DOMAIN out : job'[j] \in Finished
    BY <1>4, CommitRows
  <2>3. \A j \in DOMAIN out : job'[j] # Absent /\ job'[j].status # "queued"
    BY <2>2 DEF Finished, Absent
  <2>4. \A v \in Workers : Chosen(batch'[v]) = {}
    BY <1>4, NoBatchOK DEF CommitBatch, JobsType
  <2> HIDE DEF out
  <2>5. \A j \in Jobs :
           /\ j \notin DOMAIN out => job'[j] = job[j]
           /\ runs'[j] = IF j \in DOMAIN out THEN runs[j] + 1 ELSE runs[j]
           /\ submits'[j] = submits[j]
    BY <1>4 DEF CommitBatch, out
  <2>6. ASSUME NEW j \in Jobs
        PROVE  /\ job'[j] = Absent => submits'[j] = 0
               /\ runs'[j] <= submits'[j]
               /\ job'[j].status = "queued" => runs'[j] < submits'[j]
    BY <2>1, <2>3, <2>5 DEF JobsType, OnceInv, Owed
  <2> QED
    BY <2>4, <2>6 DEF OnceInv, Owed, Chosen
<1>5. CASE RequestStep
  BY <1>5 DEF RequestStep, OnceInv, Owed, Chosen
<1> QED
  BY <1>1, <1>2, <1>3, <1>4, <1>5, StepKinds

(* With one worker process, a job has effects at most once for every time   *)
(* it entered the queue, over stale cancels and retries, crashes, and       *)
(* batches that were selected before the job was cancelled and retried.     *)
THEOREM AtMostOnce ==
    ASSUME NEW CONSTANT theWorker, Workers = {theWorker}
    PROVE  Spec => []RunsWithinSubmits
PROOF
<1>1. Init => OnceInv
  BY InitOnce
<1>2. JobsType /\ OnceInv /\ [Next]_vars => OnceInv'
  BY StepOnce
<1>3. OnceInv => RunsWithinSubmits
  BY DEF OnceInv, Owed, RunsWithinSubmits
<1> QED
  BY <1>1, <1>2, <1>3, JobsTypeCorrect, PTL DEF Spec

-----------------------------------------------------------------------------
(* At most once per worker. While a job is queued, a whole round of workers *)
(* may still run it; a worker that has chosen it may run it once.           *)

Held(j) == {w \in Workers : j \in Chosen(batch[w])}

Due(j) ==
    LET all == Cardinality(Workers) IN
    /\ job[j] = Absent => submits[j] = 0
    /\ runs[j] + Cardinality(Held(j)) <= all * submits[j]
    /\ job[j].status = "queued" => runs[j] + all <= all * submits[j]

PerWorkerInv == \A j \in Jobs : Due(j)

LEMMA WorkersCounted ==
    /\ Cardinality(Workers) \in Nat
    /\ \A S \in SUBSET Workers :
          /\ IsFiniteSet(S) /\ Cardinality(S) \in Nat /\ Cardinality(S) <= Cardinality(Workers)
          /\ \A T \in SUBSET S : Cardinality(T) <= Cardinality(S)
PROOF
  BY ProcessesAssumption, FS_CardinalityType, FS_Subset

LEMMA OneMore ==
    ASSUME NEW n \in Nat, NEW s \in Nat
    PROVE  n * s \in Nat /\ n * (s + 1) = n * s + n /\ n * 0 = 0 /\ n * 1 = n
PROOF
  OBVIOUS

LEMMA InitPerWorker == Init => PerWorkerInv
PROOF
<1> SUFFICES ASSUME Init, NEW j \in Jobs PROVE Due(j)
  BY DEF PerWorkerInv
<1>1. Held(j) = {}
  BY NoBatchOK DEF Init, Held
<1>2. Cardinality(Held(j)) = 0
  BY <1>1, FS_EmptySet
<1> DEFINE all == Cardinality(Workers)
<1>3. all \in Nat
  BY WorkersCounted
<1> HIDE DEF all
<1>4. all * 0 = 0
  BY <1>3
<1> QED
  BY <1>2, <1>4 DEF Init, Due, Absent, all

(* A step that enters a job into the queue, or takes it out of it.          *)
LEMMA WritePerWorker ==
    ASSUME JobsType, PerWorkerInv, NEW k \in Jobs, NEW row, NEW more \in {0, 1},
           job' = [job EXCEPT ![k] = row], submits' = [submits EXCEPT ![k] = submits[k] + more],
           UNCHANGED <<runs, batch>>,
           row # Absent, row.status = "queued" => more = 1
    PROVE  PerWorkerInv'
PROOF
<1> SUFFICES ASSUME NEW j \in Jobs PROVE Due(j)'
  BY DEF PerWorkerInv
<1> DEFINE all == Cardinality(Workers)
<1> DEFINE n == Cardinality(Held(j))
<1>1. Held(j)' = Held(j)
  BY DEF Held, Chosen
<1>2. all \in Nat /\ n \in Nat
  BY WorkersCounted DEF Held
<1>3. /\ runs[j] \in Nat /\ submits[j] \in Nat /\ runs'[j] = runs[j]
      /\ runs[j] + n <= all * submits[j]
      /\ job[j] = Absent => submits[j] = 0
      /\ job[j].status = "queued" => runs[j] + all <= all * submits[j]
  BY DEF JobsType, PerWorkerInv, Due
<1>4. Due(j)' <=> /\ job'[j] = Absent => submits'[j] = 0
                  /\ runs'[j] + n <= all * submits'[j]
                  /\ job'[j].status = "queued" => runs'[j] + all <= all * submits'[j]
  BY <1>1 DEF Due
<1>5. IF j = k THEN job'[j] = row /\ submits'[j] = submits[j] + more
               ELSE job'[j] = job[j] /\ submits'[j] = submits[j]
  BY DEF JobsType
<1> HIDE DEF all, n
<1>6. all * (submits[j] + 1) = all * submits[j] + all /\ all * submits[j] \in Nat
  BY <1>2, <1>3, OneMore
<1>7. CASE more = 0
  BY <1>2, <1>3, <1>4, <1>5, <1>7
<1>8. CASE more = 1 /\ j = k
  BY <1>2, <1>3, <1>4, <1>5, <1>6, <1>8
<1>9. CASE j # k
  BY <1>3, <1>4, <1>5, <1>9
<1> QED
  BY <1>7, <1>8, <1>9

LEMMA BatchPerWorker ==
    ASSUME JobsType, PerWorkerInv, NEW w \in Workers, BatchStep(w)
    PROVE  PerWorkerInv'
PROOF
<1> SUFFICES ASSUME NEW j \in Jobs PROVE Due(j)'
  BY DEF PerWorkerInv
<1> DEFINE all == Cardinality(Workers)
<1>1. PICK b : /\ batch' = [batch EXCEPT ![w] = b]
               /\ \/ Chosen(b) \subseteq QueuedJobs
                  \/ Chosen(b) \subseteq Chosen(batch[w])
  BY DEF BatchStep
<1>2. UNCHANGED <<job, submits, runs>>
  BY DEF BatchStep
<1>3. all \in Nat /\ Cardinality(Held(j)) \in Nat /\ Cardinality(Held(j)') \in Nat
      /\ Cardinality(Held(j)') <= all
  BY WorkersCounted DEF Held
<1>4. job[j].status = "queued" \/ Cardinality(Held(j)') <= Cardinality(Held(j))
  <2> SUFFICES ASSUME job[j].status # "queued"
               PROVE Cardinality(Held(j)') <= Cardinality(Held(j))
    OBVIOUS
  <2>1. ASSUME NEW v \in Workers, j \in Chosen(batch'[v]) PROVE j \in Chosen(batch[v])
    BY <1>1, <2>1 DEF JobsType, QueuedJobs
  <2>2. Held(j)' \subseteq Held(j)
    BY <2>1 DEF Held, Chosen
  <2> QED
    BY <2>2, WorkersCounted DEF Held
<1>5. /\ runs[j] \in Nat /\ submits[j] \in Nat
      /\ runs[j] + Cardinality(Held(j)) <= all * submits[j]
      /\ job[j] = Absent => submits[j] = 0
      /\ job[j].status = "queued" => runs[j] + all <= all * submits[j]
  BY DEF JobsType, PerWorkerInv, Due
<1>6. Due(j)' <=> /\ job[j] = Absent => submits[j] = 0
                  /\ runs[j] + Cardinality(Held(j)') <= all * submits[j]
                  /\ job[j].status = "queued" => runs[j] + all <= all * submits[j]
  BY <1>2 DEF Due
<1> DEFINE m == all * submits[j]
<1>7. m \in Nat
  BY <1>3, <1>5, OneMore
<1> DEFINE n == Cardinality(Held(j))
<1> DEFINE p == Cardinality(Held(j)')
<1>8. n \in Nat /\ p \in Nat /\ p <= all /\ runs[j] + n <= m
      /\ (job[j].status = "queued" => runs[j] + all <= m)
      /\ (job[j].status = "queued" \/ p <= n)
  BY <1>3, <1>4, <1>5
<1> HIDE DEF m, n, p, all
<1>9. runs[j] + p <= m
  BY <1>3, <1>5, <1>7, <1>8 DEF all
<1> QED
  BY <1>5, <1>6, <1>9 DEF m, p, all

LEMMA CommitPerWorker ==
    ASSUME JobsType, PerWorkerInv, NEW w \in Workers, CommitBatch(w)
    PROVE  PerWorkerInv'
PROOF
<1> SUFFICES ASSUME NEW j \in Jobs PROVE Due(j)'
  BY DEF PerWorkerInv
<1> DEFINE all == Cardinality(Workers)
<1> DEFINE out == batch[w].out
<1>1. \A i \in DOMAIN out : job'[i] \in Finished
  BY CommitRows
<1>2. /\ j \notin DOMAIN out => job'[j] = job[j]
      /\ runs'[j] = IF j \in DOMAIN out THEN runs[j] + 1 ELSE runs[j]
      /\ submits' = submits
  BY DEF CommitBatch
<1>3. Held(j)' = Held(j) \ {w}
  <2>1. batch' = [batch EXCEPT ![w] = NoBatch]
    BY DEF CommitBatch
  <2>2. \A v \in Workers : j \in Chosen(batch'[v]) <=> v # w /\ j \in Chosen(batch[v])
    BY <2>1, NoBatchOK DEF JobsType
  <2> QED
    BY <2>2 DEF Held, Chosen
<1>4. j \in DOMAIN out => w \in Held(j)
  BY DEF Held, Chosen
<1>5. IsFiniteSet(Held(j)) /\ Cardinality(Held(j)) \in Nat /\ all \in Nat
  BY WorkersCounted DEF Held
<1>6. Cardinality(Held(j)') = IF w \in Held(j) THEN Cardinality(Held(j)) - 1 ELSE Cardinality(Held(j))
  BY <1>3, <1>5, FS_RemoveElement
<1>7. /\ runs[j] \in Nat /\ submits[j] \in Nat
      /\ runs[j] + Cardinality(Held(j)) <= all * submits[j]
      /\ job[j] = Absent => submits[j] = 0
      /\ job[j].status = "queued" => runs[j] + all <= all * submits[j]
  BY DEF JobsType, PerWorkerInv, Due
<1>8. Due(j)' <=> /\ job'[j] = Absent => submits[j] = 0
                  /\ runs'[j] + Cardinality(Held(j)') <= all * submits[j]
                  /\ job'[j].status = "queued" => runs'[j] + all <= all * submits[j]
  BY <1>2 DEF Due
<1>9. j \in DOMAIN out => job'[j] # Absent /\ job'[j].status # "queued"
  BY <1>1 DEF Finished, Absent
<1> DEFINE m == all * submits[j]
<1> DEFINE n == Cardinality(Held(j))
<1>10. m \in Nat
  BY <1>5, <1>7, OneMore
<1> DEFINE p == Cardinality(Held(j)')
<1>11. /\ n \in Nat /\ p = (IF w \in Held(j) THEN n - 1 ELSE n) /\ runs[j] + n <= m
       /\ job[j].status = "queued" => runs[j] + all <= m
  BY <1>5, <1>6, <1>7
<1> HIDE DEF m, n, p, all, out
<1>12. runs'[j] + p <= m
  BY <1>2, <1>4, <1>7, <1>10, <1>11
<1>13. job'[j].status = "queued" => runs'[j] + all <= m
  BY <1>2, <1>9, <1>11
<1> QED
  BY <1>2, <1>7, <1>8, <1>9, <1>12, <1>13 DEF m, p, all

LEMMA StepPerWorker ==
    ASSUME JobsType, PerWorkerInv, [Next]_vars
    PROVE  PerWorkerInv'
PROOF
<1>1. ASSUME NEW j \in Jobs, Enqueue(j) PROVE PerWorkerInv'
  <2>1. submits[j] = 0
    BY <1>1 DEF Enqueue, PerWorkerInv, Due
  <2>2. submits' = [submits EXCEPT ![j] = submits[j] + 1] /\ Queued # Absent
    BY <1>1, <2>1 DEF Enqueue, Queued, Absent
  <2> QED
    BY <1>1, <2>2, WritePerWorker DEF Enqueue
<1>2. ASSUME NEW c \in Clients, Write(c) PROVE PerWorkerInv'
  <2> DEFINE k == req[c].job
             row == Written(req[c].loaded, HeldRow(req[c]), job[k])
             more == IF req[c].op = "retry" THEN 1 ELSE 0
  <2>1. /\ k \in Jobs /\ row # Absent /\ more \in {0, 1}
        /\ row.status = "queued" => more = 1
    BY <1>2, WriteRow
  <2>2. job' = [job EXCEPT ![k] = row] /\ UNCHANGED <<runs, batch>>
    BY <1>2, WriteRow
  <2>3. submits' = [submits EXCEPT ![k] = submits[k] + more]
    <3>1. submits' = IF req[c].op = "retry" THEN [submits EXCEPT ![k] = submits[k] + 1]
                                            ELSE submits
      BY <1>2 DEF Write
    <3>2. submits \in [Jobs -> Nat] /\ k \in Jobs
      BY <2>1 DEF JobsType
    <3> HIDE DEF k
    <3>3. submits[k] + 0 = submits[k] /\ submits = [submits EXCEPT ![k] = submits[k]]
      BY <3>2
    <3> QED
      BY <3>1, <3>3
  <2> HIDE DEF k, row, more
  <2> QED
    BY <2>1, <2>2, <2>3, WritePerWorker
<1>3. ASSUME NEW w \in Workers, BatchStep(w) \/ CommitBatch(w) PROVE PerWorkerInv'
  BY <1>3, BatchPerWorker, CommitPerWorker
<1>4. CASE RequestStep
  BY <1>4 DEF RequestStep, PerWorkerInv, Due, Held, Chosen
<1> QED
  BY <1>1, <1>2, <1>3, <1>4, StepKinds

(* With any number of workers that poll the same kinds, each of them has    *)
(* effects at most once for every time a job entered the queue              *)
(* (worker/handlers.py).                                                    *)
THEOREM OncePerWorker == Spec => []RunsPerWorker
PROOF
<1>1. JobsType /\ PerWorkerInv => RunsPerWorker
  <2> SUFFICES ASSUME JobsType, PerWorkerInv, NEW j \in Jobs
               PROVE  runs[j] <= Cardinality(Workers) * submits[j]
    BY DEF RunsPerWorker
  <2> DEFINE m == Cardinality(Workers) * submits[j]
  <2>1. /\ Cardinality(Held(j)) \in Nat /\ runs[j] \in Nat /\ m \in Nat
        /\ runs[j] + Cardinality(Held(j)) <= m
    BY WorkersCounted, OneMore DEF Held, JobsType, PerWorkerInv, Due
  <2> HIDE DEF m
  <2>2. runs[j] <= m
    BY <2>1
  <2> QED
    BY <2>2 DEF m
<1>2. JobsType /\ PerWorkerInv /\ [Next]_vars => PerWorkerInv'
  BY StepPerWorker
<1> QED
  BY InitPerWorker, <1>1, <1>2, JobsTypeCorrect, PTL DEF Spec

-----------------------------------------------------------------------------
(* Types, with the bound on submissions: every retry in flight was loaded   *)
(* below the bound.                                                         *)

Retries(j) == {c \in Clients : req[c].op = "retry" /\ req[c].job = j}

Bounded ==
    /\ \A j \in Jobs : submits[j] + Cardinality(Retries(j)) <= MaxSubmits + Cardinality(Clients)
    /\ watch \in [Jobs -> {"no", "open", "closed"}]
    /\ crashes \in 0..MaxCrashes

LEMMA ClientsCounted ==
    /\ Cardinality(Clients) \in Nat
    /\ \A S \in SUBSET Clients :
          /\ IsFiniteSet(S) /\ Cardinality(S) \in Nat /\ Cardinality(S) <= Cardinality(Clients)
          /\ \A T \in SUBSET S : Cardinality(T) <= Cardinality(S)
PROOF
  BY ProcessesAssumption, FS_CardinalityType, FS_Subset

LEMMA InitBounded == Init => Bounded
PROOF
<1> SUFFICES ASSUME Init PROVE Bounded
  OBVIOUS
<1>1. ASSUME NEW j \in Jobs
      PROVE submits[j] + Cardinality(Retries(j)) <= MaxSubmits + Cardinality(Clients)
  <2>1. submits[j] = 0
    BY DEF Init
  <2>2. Cardinality(Retries(j)) \in Nat /\ Cardinality(Clients) \in Nat /\ MaxSubmits \in Nat
        /\ Cardinality(Retries(j)) <= Cardinality(Clients)
    BY ClientsCounted, BoundAssumption DEF Retries
  <2> QED
    BY <2>1, <2>2
<1> QED
  BY <1>1, BoundAssumption DEF Init, Bounded

(* A step after which a job has at most as many submissions and retries.    *)
LEMMA FewerBounded ==
    ASSUME JobsType, Bounded, NEW j \in Jobs, submits'[j] = submits[j],
           Retries(j)' \subseteq Retries(j)
    PROVE  submits'[j] + Cardinality(Retries(j)') <= MaxSubmits + Cardinality(Clients)
PROOF
<1>1. /\ Cardinality(Retries(j)') <= Cardinality(Retries(j))
      /\ Cardinality(Retries(j)') \in Nat /\ Cardinality(Retries(j)) \in Nat
  BY ClientsCounted DEF Retries
<1>2. submits[j] \in Nat /\ MaxSubmits \in Nat /\ Cardinality(Clients) \in Nat
  BY BoundAssumption, ClientsCounted DEF JobsType
<1>3. submits[j] + Cardinality(Retries(j)) <= MaxSubmits + Cardinality(Clients)
  BY DEF Bounded
<1> QED
  BY <1>1, <1>2, <1>3

(* What holds of a job with few submissions, whatever requests are open.    *)
LEMMA FewBounded ==
    ASSUME NEW j \in Jobs, submits'[j] \in Nat, submits'[j] <= MaxSubmits
    PROVE  submits'[j] + Cardinality(Retries(j)') <= MaxSubmits + Cardinality(Clients)
PROOF
<1>1. /\ Cardinality(Retries(j)') <= Cardinality(Clients)
      /\ Cardinality(Retries(j)') \in Nat /\ Cardinality(Clients) \in Nat /\ MaxSubmits \in Nat
  BY ClientsCounted, BoundAssumption DEF Retries
<1> QED
  BY <1>1

LEMMA WriteBounded ==
    ASSUME JobsType, Bounded, NEW c \in Clients, Write(c), NEW j \in Jobs
    PROVE  submits'[j] + Cardinality(Retries(j)') <= MaxSubmits + Cardinality(Clients)
PROOF
<1>1. req' = [req EXCEPT ![c] = NoRequest] /\ NoRequest.op = "none"
  BY DEF Write, NoRequest
<1>2. Retries(j)' = Retries(j) \ {c}
  BY <1>1 DEF Retries, JobsType
<1>3. CASE c \in Retries(j)
  <2>1. submits'[j] = submits[j] + 1
    BY <1>3 DEF Write, Retries, JobsType
  <2>2. IsFiniteSet(Retries(j)) /\ Cardinality(Retries(j)) \in Nat
    BY ClientsCounted DEF Retries
  <2>3. Cardinality(Retries(j)') = Cardinality(Retries(j)) - 1
    BY <1>2, <1>3, <2>2, FS_RemoveElement
  <2>4. submits[j] \in Nat /\ submits[j] + Cardinality(Retries(j)) <= MaxSubmits + Cardinality(Clients)
    BY DEF JobsType, Bounded
  <2>5. MaxSubmits + Cardinality(Clients) \in Nat
    BY BoundAssumption, ClientsCounted
  <2> QED
    BY <2>1, <2>2, <2>3, <2>4, <2>5
<1>4. CASE c \notin Retries(j)
  <2>1. submits'[j] = submits[j]
    BY <1>4 DEF Write, Retries, JobsType
  <2> QED
    BY <1>2, <2>1, FewerBounded
<1> QED
  BY <1>3, <1>4

LEMMA StepBounded ==
    ASSUME JobsType, JobsType', Bounded, [Next]_vars
    PROVE  Bounded'
PROOF
<1> DEFINE Within == \A j \in Jobs : submits'[j] + Cardinality(Retries(j)')
                                        <= MaxSubmits + Cardinality(Clients)
<1>1. ASSUME NEW i \in Jobs, Enqueue(i) PROVE Within
  <2> SUFFICES ASSUME NEW j \in Jobs
               PROVE submits'[j] + Cardinality(Retries(j)') <= MaxSubmits + Cardinality(Clients)
    OBVIOUS
  <2>1. req' = req /\ Retries(j)' = Retries(j)
    BY <1>1 DEF Enqueue, Retries
  <2>2. CASE i = j
    <3>1. submits'[j] = 1 /\ 1 <= MaxSubmits
      BY <1>1, <2>2, BoundAssumption DEF Enqueue, JobsType
    <3> QED
      BY <3>1, FewBounded
  <2>3. CASE i # j
    <3>1. submits'[j] = submits[j]
      BY <1>1, <2>3 DEF Enqueue, JobsType
    <3> QED
      BY <2>1, <3>1, FewerBounded
  <2> QED
    BY <2>2, <2>3
<1>2. ASSUME NEW c \in Clients, NEW i \in Jobs, NEW op \in {"cancel", "retry"}, Load(c, op, i)
      PROVE Within
  <2> SUFFICES ASSUME NEW j \in Jobs
               PROVE submits'[j] + Cardinality(Retries(j)') <= MaxSubmits + Cardinality(Clients)
    OBVIOUS
  <2>1. /\ submits' = submits
        /\ req' = [req EXCEPT ![c] = [op |-> op, job |-> i, loaded |-> job[i]]]
    BY <1>2 DEF Load
  <2>2. CASE op = "retry" /\ i = j
    <3>1. submits'[j] \in Nat /\ submits'[j] <= MaxSubmits
      BY <1>2, <2>1, <2>2, BoundAssumption DEF Load, JobsType
    <3> QED
      BY <3>1, FewBounded
  <2>3. CASE ~(op = "retry" /\ i = j)
    <3>1. Retries(j)' \subseteq Retries(j)
      BY <2>1, <2>3 DEF Retries, JobsType
    <3> QED
      BY <2>1, <3>1, FewerBounded
  <2> QED
    BY <2>2, <2>3
<1>3. ASSUME NEW c \in Clients, Write(c) PROVE Within
  BY <1>3, WriteBounded
<1>4. ASSUME NEW c \in Clients, RefuseRequest(c) PROVE Within
  <2>1. submits' = submits /\ req' = [req EXCEPT ![c] = NoRequest] /\ NoRequest.op = "none"
    BY <1>4 DEF RefuseRequest, NoRequest
  <2>2. \A j \in Jobs : Retries(j)' \subseteq Retries(j)
    BY <2>1 DEF Retries, JobsType
  <2> QED
    BY <2>1, <2>2, FewerBounded
<1>5. ASSUME UNCHANGED <<submits, req>> PROVE Within
  <2>1. \A j \in Jobs : Retries(j)' = Retries(j)
    BY <1>5 DEF Retries
  <2> QED
    BY <1>5, <2>1, FewerBounded
<1>6. ASSUME NEW w \in Workers, WorkerStep(w) \/ Crash(w) \/ StartWorker(w)
      PROVE UNCHANGED <<submits, req, watch>> /\ crashes' \in 0..MaxCrashes
  <2>1. CASE Crash(w)
    BY <2>1, BoundAssumption DEF Crash, Bounded
  <2>2. CASE ~Crash(w)
    BY <1>6, <2>2 DEF WorkerStep, StartWorker, Poll, Start, Finish, FinishPoison,
                      CommitBatch, BatchDeadlock, Bounded
  <2> QED
    BY <2>1, <2>2
<1>7. ASSUME NEW j \in Jobs, Enqueue(j) \/ OpenWatch(j) \/ CloseWatch(j)
      PROVE  /\ watch' \in [Jobs -> {"no", "open", "closed"}] /\ crashes' \in 0..MaxCrashes
             /\ Enqueue(j) \/ UNCHANGED <<submits, req>>
  BY <1>7 DEF Enqueue, OpenWatch, CloseWatch, Bounded
<1>8. ASSUME NEW c \in Clients, NEW j \in Jobs,
             Load(c, "cancel", j) \/ Load(c, "retry", j) \/ Write(c) \/ RefuseRequest(c)
      PROVE  watch' \in [Jobs -> {"no", "open", "closed"}] /\ crashes' \in 0..MaxCrashes
  BY <1>8 DEF Load, Write, RefuseRequest, Bounded
<1>9. CASE Next
  <2>1. Within
    <3> HIDE DEF Within
    <3> QED
      BY <1>1, <1>2, <1>3, <1>4, <1>5, <1>6, <1>7, <1>9 DEF Next
  <2>2. watch' \in [Jobs -> {"no", "open", "closed"}] /\ crashes' \in 0..MaxCrashes
    <3>1. ASSUME NEW c \in Clients, Write(c) \/ RefuseRequest(c)
          PROVE  watch' \in [Jobs -> {"no", "open", "closed"}] /\ crashes' \in 0..MaxCrashes
      BY <3>1 DEF Write, RefuseRequest, Bounded
    <3>2. ASSUME NEW w \in Workers, WorkerStep(w) \/ Crash(w) \/ StartWorker(w)
          PROVE  watch' \in [Jobs -> {"no", "open", "closed"}] /\ crashes' \in 0..MaxCrashes
      BY <1>6, <3>2 DEF Bounded
    <3> QED
      BY <1>7, <1>8, <1>9, <3>1, <3>2 DEF Next
  <2> QED
    BY <2>1, <2>2 DEF Bounded
<1>10. CASE UNCHANGED vars
  <2>1. Within
    BY <1>5, <1>10 DEF vars
  <2> QED
    BY <1>10, <2>1 DEF Bounded, vars
<1> QED
  BY <1>9, <1>10

LEMMA InvTypeOK == JobsType /\ Bounded => TypeOK
PROOF
<1> SUFFICES ASSUME JobsType, Bounded PROVE TypeOK
  OBVIOUS
<1>1. job \in [Jobs -> Rows \cup {Absent}]
  <2>1. JobRows \subseteq Rows \cup {Absent}
    BY DEF JobRows, Rows, Waiting, Stopped, Finished, Status, Results
  <2> QED
    BY <2>1 DEF JobsType
<1>2. submits \in [Jobs -> 0..MaxSubmits + Cardinality(Clients)]
  <2>1. ASSUME NEW j \in Jobs PROVE submits[j] \in 0..MaxSubmits + Cardinality(Clients)
    <3>1. /\ submits[j] \in Nat /\ Cardinality(Retries(j)) \in Nat
          /\ MaxSubmits + Cardinality(Clients) \in Nat
          /\ submits[j] + Cardinality(Retries(j)) <= MaxSubmits + Cardinality(Clients)
      BY ClientsCounted, BoundAssumption DEF JobsType, Bounded, Retries
    <3> QED
      BY <3>1
  <2> QED
    BY <2>1 DEF JobsType
<1>3. \A c \in Clients : req[c] = NoRequest \/ req[c].job \in Jobs
  BY DEF JobsType, RequestOK
<1>4. ASSUME NEW w \in Workers
      PROVE  /\ DOMAIN batch[w].out \subseteq Jobs
             /\ \A i \in DOMAIN batch[w].todo : batch[w].todo[i] \in Jobs
  <2>1. batch[w].todo \in Seq(Jobs) /\ DOMAIN batch[w].out \subseteq Jobs
    BY DEF JobsType, BatchOK, BatchRecords
  <2> QED
    BY <2>1, LenProperties, ElementOfSeq
<1> QED
  BY <1>1, <1>2, <1>3, <1>4 DEF TypeOK, JobsType, Bounded

(* Rows, requests and batches keep their types, and nothing is submitted    *)
(* more often than the bound and the requests in flight allow.              *)
THEOREM TypeCorrect == Spec => []TypeOK
PROOF
<1>1. JobsType /\ JobsType' /\ Bounded /\ [Next]_vars => Bounded'
  BY StepBounded
<1> QED
  BY InitBounded, <1>1, InvTypeOK, JobsTypeCorrect, PTL DEF Spec

=============================================================================
