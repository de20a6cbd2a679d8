-------------------------- MODULE ArtifactsProofs ---------------------------
(***************************************************************************)
(* Proofs about the versions of an artifact, for every set of writers,     *)
(* every set of contents, every seed, every text that starts of the API write, and *)
(* every bound on the versions.                                             *)
(***************************************************************************)
EXTENDS Artifacts, FiniteSetTheorems, SequenceTheorems, TLAPS

-----------------------------------------------------------------------------
(* Type correctness. *)

Transactions == [staged : SUBSET Rows, save : SUBSET Rows]

LEMMA IdleType == Idle \in Transactions /\ Idle.staged = {} /\ Idle.save = {}
PROOF
  BY DEF Idle, Transactions

(* The next version is a positive number, and follows one that is there or *)
(* is the first.                                                           *)
LEMMA NextVersionFollows ==
    ASSUME NEW T \in SUBSET Rows, NEW v \in 1..MaxVersion, NextVersion(v, T)
    PROVE  /\ v \in Nat \ {0}
           /\ v > 1 => Taken(v - 1, T)
           /\ \A r \in T : r.version < v
PROOF
<1>1. v \in Nat \ {0}
  BY MaxAssumption
<1>2. CASE T = {}
  BY <1>1, <1>2 DEF NextVersion
<1>3. CASE T # {}
  <2>1. PICK r \in T : IsLatest(r, T) /\ v = r.version + 1
    BY <1>3 DEF NextVersion
  <2>2. \A q \in T : q.version \in Nat
    BY DEF Rows
  <2>3. Taken(v - 1, T)
    BY <2>1, <2>2 DEF Taken
  <2> QED
    BY <1>1, <2>1, <2>2, <2>3 DEF IsLatest
<1> QED
  BY <1>2, <1>3

(* What a save prepares: a row that follows what the writer sees. *)
Prepared(w, s) ==
    /\ s \in SUBSET Rows
    /\ \A r \in s : /\ r.version > 1 => Taken(r.version - 1, Visible(w))
                    /\ \A q \in Visible(w) : q.version < r.version

LEMMA SavePrepares ==
    ASSUME TypeOK, NEW w \in Writers, NEW c \in Contents, Save(w, c)
    PROVE  /\ UNCHANGED <<table, reseed>>
           /\ \E s : Prepared(w, s) /\ tx' = [tx EXCEPT ![w].save = s]
PROOF
<1>1. PICK v \in 1..MaxVersion :
         /\ NextVersion(v, Visible(w))
         /\ tx' = [tx EXCEPT ![w].save = {[version |-> v, content |-> c]}]
  BY DEF Save
<1>2. Visible(w) \in SUBSET Rows
  BY DEF TypeOK, Visible
<1>3. /\ v \in Nat \ {0}
      /\ v > 1 => Taken(v - 1, Visible(w))
      /\ \A q \in Visible(w) : q.version < v
  BY <1>1, <1>2, NextVersionFollows
<1>4. Prepared(w, {[version |-> v, content |-> c]})
  BY <1>3 DEF Prepared, Rows
<1> QED
  BY <1>1, <1>4 DEF Save

LEMMA RestorePrepares ==
    ASSUME TypeOK, NEW w \in Writers, NEW v \in 1..MaxVersion, Restore(w, v)
    PROVE  /\ UNCHANGED <<table, reseed>>
           /\ \E s : Prepared(w, s) /\ tx' = [tx EXCEPT ![w].save = s]
PROOF
<1>1. PICK q \in table : Save(w, q.content)
  BY DEF Restore
<1>2. q.content \in Contents
  BY DEF TypeOK, Rows
<1> QED
  BY <1>1, <1>2, SavePrepares

(* Every step is one of four things done by one writer, or a step of a start. *)
Saving(w) ==
    UNCHANGED <<table, reseed>> /\ \E s : Prepared(w, s) /\ tx' = [tx EXCEPT ![w].save = s]

Abandoning(w) == UNCHANGED <<table, reseed>> /\ tx' = [tx EXCEPT ![w] = Idle]

(* A start reads what it will overwrite, or gives up. *)
Seeding(s) ==
    /\ UNCHANGED <<table, tx>>
    /\ \E rows \in SUBSET Rows :
          /\ reseed' = [reseed EXCEPT ![s] = rows]
          /\ \A q \in rows : Taken(q.version, table) /\ q.content \in Seeded

LEMMA SeedReads ==
    ASSUME TypeOK, NEW s \in Starts, SeedRead(s) \/ SeedRollback(s)
    PROVE  Seeding(s)
PROOF
<1>1. CASE SeedRollback(s)
  <2>1. {} \in SUBSET Rows /\ \A q \in {} : Taken(q.version, table) /\ q.content \in Seeded
    OBVIOUS
  <2> QED
    BY <1>1, <2>1 DEF SeedRollback, Seeding
<1>2. CASE SeedRead(s)
  <2>1. PICK r \in table, c \in Seeded : reseed' = [reseed EXCEPT ![s] = {[r EXCEPT !.content = c]}]
    BY <1>2 DEF SeedRead
  <2>2. PICK q : q = [r EXCEPT !.content = c]
    OBVIOUS
  <2>3. q \in Rows /\ q.version = r.version /\ q.content = c
    BY <2>2, SeededAssumption DEF TypeOK, Rows
  <2>4. Taken(q.version, table) /\ q.content \in Seeded
    BY <2>1, <2>3 DEF Taken
  <2>5. {q} \in SUBSET Rows /\ \A p \in {q} : Taken(p.version, table) /\ p.content \in Seeded
    BY <2>3, <2>4
  <2>6. reseed' = [reseed EXCEPT ![s] = {q}] /\ UNCHANGED <<table, tx>>
    BY <1>2, <2>1, <2>2 DEF SeedRead
  <2> QED
    BY <2>5, <2>6 DEF Seeding
<1> QED
  BY <1>1, <1>2

LEMMA StepKinds ==
    ASSUME TypeOK, [Next]_vars
    PROVE  \/ UNCHANGED vars
           \/ \E w \in Writers : Saving(w) \/ Insert(w) \/ Commit(w) \/ Abandoning(w)
           \/ \E s \in Starts : Seeding(s) \/ SeedCommit(s)
PROOF
<1>1. ASSUME NEW w \in Writers, NEW c \in Contents, Save(w, c) PROVE Saving(w)
  BY <1>1, SavePrepares DEF Saving
<1>2. ASSUME NEW w \in Writers, NEW v \in 1..MaxVersion, Restore(w, v) PROVE Saving(w)
  BY <1>2, RestorePrepares DEF Saving
<1>3. ASSUME NEW w \in Writers, InsertFails(w) \/ Rollback(w) PROVE Abandoning(w)
  BY <1>3 DEF InsertFails, Rollback, Abandoning
<1> QED
  BY <1>1, <1>2, <1>3, SeedReads DEF Next

LEMMA StepType ==
    ASSUME TypeOK, [Next]_vars
    PROVE  TypeOK'
PROOF
<1>1. ASSUME NEW w \in Writers, Saving(w) PROVE TypeOK'
  BY <1>1 DEF TypeOK, Saving, Prepared
<1>2. ASSUME NEW w \in Writers, Insert(w) PROVE TypeOK'
  <2>1. PICK r \in tx[w].save :
           /\ tx' = [tx EXCEPT ![w] = [staged |-> tx[w].staged \cup {r}, save |-> {}]]
           /\ UNCHANGED <<table, reseed>>
    BY <1>2 DEF Insert
  <2>2. [staged |-> tx[w].staged \cup {r}, save |-> {}] \in Transactions
    BY <1>2 DEF TypeOK, Transactions
  <2> QED
    BY <2>1, <2>2 DEF TypeOK, Transactions
<1>3. ASSUME NEW w \in Writers, Commit(w) PROVE TypeOK'
  BY <1>3, IdleType DEF TypeOK, Commit, Transactions
<1>4. ASSUME NEW w \in Writers, Abandoning(w) PROVE TypeOK'
  BY <1>4, IdleType DEF TypeOK, Abandoning, Transactions
<1>5. CASE UNCHANGED vars
  BY <1>5 DEF TypeOK, vars
<1>6. ASSUME NEW s \in Starts, Seeding(s) PROVE TypeOK'
  BY <1>6 DEF TypeOK, Seeding
<1>7. ASSUME NEW s \in Starts, SeedCommit(s) PROVE TypeOK'
  <2>1. PICK q \in reseed[s] :
           /\ table' = Overwritten(q)
           /\ reseed' = [reseed EXCEPT ![s] = {}]
           /\ UNCHANGED tx
    BY <1>7 DEF SeedCommit
  <2>2. q \in Rows
    BY <2>1 DEF TypeOK
  <2>3. table' \subseteq Rows
    BY <2>1, <2>2 DEF TypeOK, Overwritten
  <2>4. {} \in SUBSET Rows
    OBVIOUS
  <2> QED
    BY <2>1, <2>3, <2>4 DEF TypeOK
<1> QED
  BY <1>1, <1>2, <1>3, <1>4, <1>5, <1>6, <1>7, StepKinds

LEMMA InitType == Init => TypeOK
PROOF
  BY IdleType, ImportedAssumption DEF Init, TypeOK, Transactions

(* Rows and transactions keep their types, whatever savers race. *)
THEOREM TypeCorrect == Spec => []TypeOK
PROOF
  BY InitType, StepType, PTL DEF Spec

-----------------------------------------------------------------------------
(* Numbering. The committed versions are 1..n; what a transaction has       *)
(* inserted continues them; and a prepared row follows something its writer *)
(* sees and comes after everything it has inserted. A prepared row may well *)
(* have a version that somebody else has committed in the meantime.         *)

Versions(T) == {r.version : r \in T}

Continues(n, S) == \E m \in Nat : m >= n /\ Versions(S) = (n + 1)..m

Numbered(n) ==
    /\ Versions(table) = 1..n
    /\ \A w \in Writers : Continues(n, tx[w].staged)

Distinct(T) == \A r, q \in T : r.version = q.version => r = q

Follows(w) ==
    \A r \in tx[w].save :
        /\ r.version > 1 => Taken(r.version - 1, Visible(w))
        /\ \A q \in tx[w].staged : q.version < r.version

(* What an open start will leave has a version that is there. *)
SeedsFit(s) == \A q \in reseed[s] : Taken(q.version, table) /\ q.content \in Seeded

LogInv ==
    /\ \E n \in Nat : Numbered(n)
    /\ \A s \in Starts : SeedsFit(s)
    /\ OneRowPerVersion
    /\ StagedApart
    /\ \A w \in Writers : Distinct(tx[w].staged) /\ Follows(w)

LEMMA TakenVersions == \A v, T : Taken(v, T) <=> v \in Versions(T)
PROOF
  BY DEF Taken, Versions

(* A transaction that has inserted nothing continues any table. *)
LEMMA NothingContinues == \A n \in Nat : Continues(n, {})
PROOF
<1>1. Versions({}) = {}
  BY DEF Versions
<1>2. \A n \in Nat : (n + 1)..n = {}
  OBVIOUS
<1> QED
  BY <1>1, <1>2 DEF Continues

LEMMA InitLog ==
    ASSUME Init
    PROVE  LogInv
PROOF
<1>1. Cardinality(Imported) \in Nat
  BY ImportedAssumption, FS_CardinalityType
<1>2. \A w \in Writers : tx[w].staged = {} /\ tx[w].save = {}
  BY IdleType DEF Init
<1>3. Numbered(Cardinality(Imported))
  <2>1. Versions(table) = 1..Cardinality(Imported)
    BY ImportedAssumption DEF Init, Versions
  <2> QED
    BY <1>1, <1>2, <2>1, NothingContinues DEF Numbered
<1>4. OneRowPerVersion
  BY ImportedAssumption DEF Init, OneRowPerVersion
<1>5. \A s \in Starts : SeedsFit(s)
  BY DEF Init, SeedsFit
<1> QED
  BY <1>1, <1>2, <1>3, <1>4, <1>5 DEF LogInv, StagedApart, Distinct, Follows

(* At most one open transaction has inserted anything: two of them would    *)
(* both have the version that follows the last committed one.               *)
LEMMA OneInserter ==
    ASSUME NEW n \in Nat, Numbered(n), StagedApart,
           NEW w \in Writers, tx[w].staged # {}, NEW u \in Writers \ {w}
    PROVE  tx[u].staged = {}
PROOF
<1>1. \A v \in Writers : tx[v].staged # {} => n + 1 \in Versions(tx[v].staged)
  <2>1. SUFFICES ASSUME NEW v \in Writers, tx[v].staged # {}
                 PROVE  n + 1 \in Versions(tx[v].staged)
    OBVIOUS
  <2>2. PICK m \in Nat : m >= n /\ Versions(tx[v].staged) = (n + 1)..m
    BY DEF Numbered, Continues
  <2>3. Versions(tx[v].staged) # {}
    BY <2>1 DEF Versions
  <2> QED
    BY <2>2, <2>3
<1>2. SUFFICES ASSUME tx[u].staged # {} PROVE FALSE
  OBVIOUS
<1>3. Taken(n + 1, tx[w].staged) /\ Taken(n + 1, tx[u].staged)
  BY <1>1, <1>2, TakenVersions
<1> QED
  BY <1>3 DEF StagedApart, Taken

LEMMA SavingLog ==
    ASSUME TypeOK, LogInv, NEW w \in Writers, Saving(w)
    PROVE  LogInv'
PROOF
<1>1. PICK s : Prepared(w, s) /\ tx' = [tx EXCEPT ![w].save = s]
  BY DEF Saving
<1>2. /\ table' = table
      /\ \A u \in Writers : tx'[u].staged = tx[u].staged
      /\ \A u \in Writers \ {w} : tx'[u].save = tx[u].save
      /\ tx'[w].save = s
  BY <1>1 DEF Saving, TypeOK
<1>3. \E n \in Nat : Numbered(n)'
  BY <1>2 DEF LogInv, Numbered, Continues, Versions
<1>4. OneRowPerVersion' /\ StagedApart'
  BY <1>2 DEF LogInv, OneRowPerVersion, StagedApart
<1>5. \A u \in Writers : Follows(u)'
  BY <1>1, <1>2 DEF LogInv, Follows, Visible, Prepared
<1>6. \A u \in Writers : Distinct(tx'[u].staged)
  BY <1>2 DEF LogInv
<1>7. \A k \in Starts : SeedsFit(k)'
  BY DEF Saving, LogInv, SeedsFit
<1> QED
  BY <1>3, <1>4, <1>5, <1>6, <1>7 DEF LogInv

LEMMA AbandoningLog ==
    ASSUME TypeOK, LogInv, NEW w \in Writers, Abandoning(w)
    PROVE  LogInv'
PROOF
<1>1. /\ table' = table
      /\ \A u \in Writers \ {w} : tx'[u] = tx[u]
      /\ tx'[w].staged = {} /\ tx'[w].save = {}
  BY IdleType DEF Abandoning, TypeOK
<1>2. PICK n \in Nat : Numbered(n)
  BY DEF LogInv
<1>3. \A u \in Writers : Continues(n, tx'[u].staged)
  BY <1>1, <1>2, NothingContinues DEF Numbered
<1>4. Numbered(n)'
  BY <1>1, <1>2, <1>3 DEF Numbered, Continues, Versions
<1>5. OneRowPerVersion' /\ StagedApart'
  BY <1>1 DEF LogInv, OneRowPerVersion, StagedApart, Taken
<1>6. \A u \in Writers : Distinct(tx'[u].staged) /\ Follows(u)'
  BY <1>1 DEF LogInv, Distinct, Follows, Visible
<1>7. \A s \in Starts : SeedsFit(s)'
  BY DEF Abandoning, LogInv, SeedsFit
<1> QED
  BY <1>4, <1>5, <1>6, <1>7 DEF LogInv

(* A row that is inserted has the version after the last one that is in the *)
(* table or in the writer's own transaction, and nobody else has inserted.  *)
LEMMA InsertLog ==
    ASSUME TypeOK, LogInv, NEW w \in Writers, Insert(w)
    PROVE  LogInv'
PROOF
<1>1. PICK r \in tx[w].save :
         /\ ~Waits(w, r.version)
         /\ ~Conflict(w, r.version)
         /\ tx' = [tx EXCEPT ![w] = [staged |-> tx[w].staged \cup {r}, save |-> {}]]
         /\ table' = table /\ reseed' = reseed
  BY DEF Insert
<1>2. /\ \A u \in Writers \ {w} : tx'[u] = tx[u]
      /\ tx'[w].staged = tx[w].staged \cup {r}
      /\ tx'[w].save = {}
  BY <1>1 DEF TypeOK
<1>3. PICK n \in Nat : Numbered(n)
  BY DEF LogInv
<1>4. PICK m \in Nat : m >= n /\ Versions(tx[w].staged) = (n + 1)..m
  BY <1>3 DEF Numbered, Continues
<1>5. r.version \in Nat \ {0}
  BY DEF TypeOK, Rows
<1>6. r.version = m + 1
  <2>1. r.version \notin 1..n
    BY <1>1, <1>3, TakenVersions DEF Conflict, Numbered
  <2>2. \A v \in Versions(tx[w].staged) : v < r.version
    BY DEF LogInv, Follows, Versions
  <2>3. m < r.version
    BY <1>4, <1>5, <2>1, <2>2
  <2>4. r.version > 1 => r.version - 1 \in Versions(table) \cup Versions(tx[w].staged)
    BY TakenVersions DEF LogInv, Follows, Visible, Versions
  <2> QED
    BY <1>3, <1>4, <1>5, <2>3, <2>4 DEF Numbered
<1>7. Versions(tx'[w].staged) = (n + 1)..(m + 1)
  <2>1. Versions(tx'[w].staged) = Versions(tx[w].staged) \cup {r.version}
    BY <1>2 DEF Versions
  <2> QED
    BY <1>4, <1>6, <2>1
<1>8. Numbered(n)'
  <2>1. Continues(n, tx'[w].staged)
    BY <1>4, <1>7 DEF Continues
  <2>2. \A u \in Writers : Continues(n, tx'[u].staged)
    BY <1>2, <1>3, <2>1 DEF Numbered
  <2> QED
    BY <1>1, <1>3, <2>2 DEF Numbered, Continues, Versions
<1>9. StagedApart'
  BY <1>1, <1>2 DEF LogInv, StagedApart, Waits, Conflict, Taken
<1>10. OneRowPerVersion'
  BY <1>1 DEF LogInv, OneRowPerVersion
<1>11. \A u \in Writers : Distinct(tx'[u].staged)
  BY <1>2, <1>5 DEF LogInv, Distinct, Follows, TypeOK, Rows
<1>12. \A u \in Writers : Follows(u)'
  BY <1>1, <1>2 DEF LogInv, Follows, Visible
<1>13. \A s \in Starts : SeedsFit(s)'
  BY <1>1 DEF LogInv, SeedsFit
<1> QED
  BY <1>8, <1>9, <1>10, <1>11, <1>12, <1>13 DEF LogInv

LEMMA CommitLog ==
    ASSUME TypeOK, LogInv, NEW w \in Writers, Commit(w)
    PROVE  LogInv'
PROOF
<1>1. /\ table' = table \cup tx[w].staged
      /\ tx[w].staged # {}
      /\ \A u \in Writers \ {w} : tx'[u] = tx[u]
      /\ tx'[w].staged = {} /\ tx'[w].save = {}
  BY IdleType DEF Commit, TypeOK
<1>2. PICK n \in Nat : Numbered(n)
  BY DEF LogInv
<1>3. PICK m \in Nat : m >= n /\ Versions(tx[w].staged) = (n + 1)..m
  BY <1>2 DEF Numbered, Continues
<1>4. \A u \in Writers : tx'[u].staged = {}
  BY <1>1, <1>2, OneInserter DEF LogInv
<1>5. Numbered(m)'
  <2>1. Versions(table') = Versions(table) \cup Versions(tx[w].staged)
    BY <1>1 DEF Versions
  <2>2. Versions(table') = 1..m
    BY <1>2, <1>3, <2>1 DEF Numbered
  <2>3. \A u \in Writers : Continues(m, tx'[u].staged)
    BY <1>4, NothingContinues
  <2> QED
    BY <2>2, <2>3 DEF Numbered, Continues, Versions
<1>6. OneRowPerVersion'
  BY <1>1 DEF LogInv, OneRowPerVersion, StagedApart, Distinct, Taken
<1>7. StagedApart' /\ \A u \in Writers : Distinct(tx'[u].staged)
  BY <1>4 DEF StagedApart, Distinct
<1>8. \A u \in Writers : Follows(u)'
  BY <1>1, <1>4 DEF LogInv, Follows, Visible, Taken
<1>9. \A s \in Starts : SeedsFit(s)'
  BY <1>1 DEF Commit, LogInv, SeedsFit, Taken
<1> QED
  BY <1>5, <1>6, <1>7, <1>8, <1>9 DEF LogInv

LEMMA SeedingLog ==
    ASSUME TypeOK, LogInv, NEW s \in Starts, Seeding(s)
    PROVE  LogInv'
PROOF
<1>1. table' = table /\ tx' = tx
  BY DEF Seeding
<1>2. (\E n \in Nat : Numbered(n))'
  BY <1>1 DEF LogInv, Numbered, Continues, Versions
<1>3. OneRowPerVersion' /\ StagedApart'
  BY <1>1 DEF LogInv, OneRowPerVersion, StagedApart
<1>4. \A w \in Writers : Distinct(tx'[w].staged) /\ Follows(w)'
  BY <1>1 DEF LogInv, Follows, Visible
<1>5. \A u \in Starts : SeedsFit(u)'
  BY <1>1 DEF Seeding, LogInv, SeedsFit, TypeOK
<1> QED
  BY <1>2, <1>3, <1>4, <1>5 DEF LogInv

(* Overwriting a row in place changes no version, and which row has one.    *)
LEMMA OverwrittenVersions ==
    ASSUME NEW T \in SUBSET Rows, NEW U \in SUBSET Rows, NEW q \in Rows,
           U = {IF r.version = q.version THEN q ELSE r : r \in T}
    PROVE  /\ \A v : Taken(v, U) <=> Taken(v, T)
           /\ Versions(U) = Versions(T)
           /\ Distinct(T) => Distinct(U)
PROOF
<1>1. \A v : Taken(v, U) <=> Taken(v, T)
  BY DEF Taken
<1>2. Versions(U) = Versions(T)
  BY <1>1, TakenVersions
<1>3. Distinct(T) => Distinct(U)
  BY DEF Distinct
<1> QED
  BY <1>1, <1>2, <1>3

LEMMA SeedCommitLog ==
    ASSUME TypeOK, LogInv, TypeOK', NEW s \in Starts, SeedCommit(s)
    PROVE  LogInv'
PROOF
<1>1. PICK q \in reseed[s] :
         /\ table' = Overwritten(q)
         /\ reseed' = [reseed EXCEPT ![s] = {}]
         /\ tx' = tx
  BY DEF SeedCommit
<1>2. q \in Rows /\ table \in SUBSET Rows /\ table' \in SUBSET Rows
  BY <1>1 DEF TypeOK
<1>3. /\ \A v : Taken(v, table') <=> Taken(v, table)
      /\ Versions(table') = Versions(table)
      /\ Distinct(table) => Distinct(table')
  BY <1>1, <1>2, OverwrittenVersions DEF Overwritten
<1>4. (\E n \in Nat : Numbered(n))'
  BY <1>1, <1>3 DEF LogInv, Numbered, Continues, Versions
<1>5. OneRowPerVersion'
  BY <1>3 DEF LogInv, OneRowPerVersion, Distinct
<1>6. StagedApart'
  BY <1>1, <1>3 DEF LogInv, StagedApart
<1>7. \A w \in Writers : Distinct(tx'[w].staged)
  BY <1>1 DEF LogInv
<1>8. \A w \in Writers : Follows(w)'
  <2> SUFFICES ASSUME NEW w \in Writers, NEW r \in tx[w].save
               PROVE  /\ r.version > 1 => Taken(r.version - 1, table' \cup tx[w].staged)
                      /\ \A p \in tx[w].staged : p.version < r.version
    BY <1>1 DEF Follows, Visible
  <2>1. /\ r.version > 1 => Taken(r.version - 1, table \cup tx[w].staged)
        /\ \A p \in tx[w].staged : p.version < r.version
    BY DEF LogInv, Follows, Visible
  <2>2. \A v : Taken(v, table \cup tx[w].staged)
                  <=> Taken(v, table) \/ Taken(v, tx[w].staged)
    BY DEF Taken
  <2>3. \A v : Taken(v, table' \cup tx[w].staged)
                  <=> Taken(v, table') \/ Taken(v, tx[w].staged)
    BY DEF Taken
  <2> QED
    BY <1>3, <2>1, <2>2, <2>3
<1>9. \A u \in Starts : SeedsFit(u)'
  BY <1>1, <1>3 DEF LogInv, SeedsFit, TypeOK
<1> QED
  BY <1>4, <1>5, <1>6, <1>7, <1>8, <1>9 DEF LogInv

LEMMA NextLog ==
    ASSUME TypeOK, LogInv, TypeOK', [Next]_vars
    PROVE  LogInv'
PROOF
<1>1. CASE UNCHANGED vars
  BY <1>1 DEF LogInv, Numbered, Continues, Versions, OneRowPerVersion, StagedApart,
     Distinct, Follows, Visible, SeedsFit, vars
<1>2. CASE \E w \in Writers : Saving(w) \/ Insert(w) \/ Commit(w) \/ Abandoning(w)
  BY <1>2, SavingLog, InsertLog, CommitLog, AbandoningLog
<1>3. CASE \E s \in Starts : Seeding(s) \/ SeedCommit(s)
  BY <1>3, SeedingLog, SeedCommitLog
<1> QED
  BY <1>1, <1>2, <1>3, StepKinds

(* The inductive invariant of the numbering. *)
THEOREM NumberingInvariant == Spec => []LogInv
PROOF
<1>1. Init => LogInv
  BY InitLog
<1>2. TypeOK /\ LogInv /\ TypeOK' /\ [Next]_vars => LogInv'
  BY NextLog
<1> QED
  BY <1>1, <1>2, TypeCorrect, PTL DEF Spec

(* However many savers race, whatever they read before, and whichever of    *)
(* them fail: a version has one row, committed or not, and versions are     *)
(* committed without a gap.                                                 *)
THEOREM VersionsUnique == Spec => []OneRowPerVersion
PROOF
<1>1. LogInv => OneRowPerVersion
  BY DEF LogInv
<1> QED
  BY <1>1, NumberingInvariant, PTL

(* No version is inserted twice, not even by transactions that both have    *)
(* not committed yet.                                                       *)
THEOREM InsertsApart == Spec => []StagedApart
PROOF
<1>1. LogInv => StagedApart
  BY DEF LogInv
<1> QED
  BY <1>1, NumberingInvariant, PTL

(* Version n+1 is committed only after version n, whichever of the savers   *)
(* that computed n and n+1 commit, fail or are rolled back.                 *)
THEOREM VersionsWithoutGap == Spec => []NoGap
PROOF
<1>1. TypeOK /\ LogInv => NoGap
  <2> SUFFICES ASSUME TypeOK, LogInv, NEW r \in table, r.version > 1
               PROVE  Taken(r.version - 1, table)
    BY DEF NoGap
  <2>1. PICK n \in Nat : Versions(table) = 1..n
    BY DEF LogInv, Numbered
  <2>2. r.version \in 1..n
    BY <2>1 DEF Versions
  <2> QED
    BY <2>1, <2>2, TakenVersions
<1> QED
  BY <1>1, TypeCorrect, NumberingInvariant, PTL

-----------------------------------------------------------------------------
(* The table as a log. *)

Content(T, v) == (CHOOSE r \in T : r.version = v).content

LogOf(T) == [v \in Versions(T) |-> Content(T, v)]

LEMMA LogOfSeq ==
    ASSUME NEW T \in SUBSET Rows, NEW n \in Nat, Versions(T) = 1..n
    PROVE  /\ LogOf(T) \in Seq(Contents)
           /\ Len(LogOf(T)) = n
PROOF
<1>1. \A v \in 1..n : Content(T, v) \in Contents
  <2>1. SUFFICES ASSUME NEW v \in 1..n PROVE Content(T, v) \in Contents
    OBVIOUS
  <2>2. \E r \in T : r.version = v
    BY DEF Versions
  <2> QED
    BY <2>2 DEF Content, Rows
<1>2. LogOf(T) \in [1..n -> Contents]
  BY <1>1 DEF LogOf
<1>3. LogOf(T) \in Seq(Contents)
  BY <1>2
<1> QED
  BY <1>2, <1>3, LenProperties

(* A commit adds rows after the last one and leaves the others alone. *)
LEMMA LogGrows ==
    ASSUME NEW T \in SUBSET Rows, NEW U \in SUBSET Rows, T \subseteq U, Distinct(U)
    PROVE  \A v \in Versions(T) : LogOf(U)[v] = LogOf(T)[v]
PROOF
<1>1. SUFFICES ASSUME NEW v \in Versions(T) PROVE LogOf(U)[v] = LogOf(T)[v]
  OBVIOUS
<1>2. PICK r \in T : r.version = v
  BY DEF Versions
<1>3. (CHOOSE q \in T : q.version = v) = r /\ (CHOOSE q \in U : q.version = v) = r
  BY <1>2 DEF Distinct
<1> QED
  BY <1>1, <1>2, <1>3 DEF LogOf, Content, Versions

(* A step leaves every committed row, or overwrites one with seeded text.   *)
LEMMA TableGrows ==
    ASSUME TypeOK, LogInv, [Next]_vars
    PROVE  \/ table \subseteq table'
           \/ \E q \in Rows : /\ q.content \in Seeded /\ Taken(q.version, table)
                             /\ table' = Overwritten(q)
PROOF
<1>1. CASE UNCHANGED vars
  BY <1>1 DEF vars
<1>2. CASE \E w \in Writers : Saving(w) \/ Insert(w) \/ Commit(w) \/ Abandoning(w)
  BY <1>2 DEF Saving, Insert, Commit, Abandoning
<1>3. CASE \E s \in Starts : Seeding(s) \/ SeedCommit(s)
  BY <1>3 DEF Seeding, SeedCommit, LogInv, SeedsFit, TypeOK
<1> QED
  BY <1>1, <1>2, <1>3, StepKinds

(* Overwriting a row in place overwrites one entry of the log. *)
LEMMA LogOverwritten ==
    ASSUME NEW T \in SUBSET Rows, NEW U \in SUBSET Rows, NEW q \in Rows,
           U = {IF r.version = q.version THEN q ELSE r : r \in T},
           Taken(q.version, T), Distinct(T)
    PROVE  LogOf(U) = [LogOf(T) EXCEPT ![q.version] = q.content]
PROOF
<1>1. Versions(U) = Versions(T) /\ Distinct(U)
  BY OverwrittenVersions
<1>2. ASSUME NEW v \in Versions(T)
      PROVE  Content(U, v) = IF v = q.version THEN q.content ELSE Content(T, v)
  <2>1. PICK r \in T : r.version = v
    BY DEF Versions
  <2>2. CASE v = q.version
    <3>1. q \in U
      BY <2>1, <2>2
    <3>2. q.version = v /\ \A p \in U : p.version = v => p = q
      BY <1>1, <2>2, <3>1 DEF Distinct
    <3>3. (CHOOSE p \in U : p.version = v) = q
      BY <3>1, <3>2
    <3>4. Content(U, v) = (CHOOSE p \in U : p.version = v).content
      BY DEF Content
    <3>5. Content(U, v) = q.content
      BY <3>3, <3>4
    <3> QED
      BY <2>2, <3>5
  <2>3. CASE v # q.version
    <3>1. r \in U
      BY <2>1, <2>3
    <3>2. \A p \in U : p.version = v => p = r
      BY <1>1, <2>1, <3>1 DEF Distinct
    <3>3. \A p \in T : p.version = v => p = r
      BY <2>1 DEF Distinct
    <3>4. (CHOOSE p \in U : p.version = v) = r /\ (CHOOSE p \in T : p.version = v) = r
      BY <2>1, <3>1, <3>2, <3>3
    <3>5. /\ Content(U, v) = (CHOOSE p \in U : p.version = v).content
          /\ Content(T, v) = (CHOOSE p \in T : p.version = v).content
      BY DEF Content
    <3>6. Content(U, v) = r.content /\ Content(T, v) = r.content
      BY <3>4, <3>5
    <3> QED
      BY <2>3, <3>6
  <2> QED
    BY <2>2, <2>3
<1> QED
  BY <1>1, <1>2 DEF LogOf

(* The table, written by savers that race on stale reads, by batches that   *)
(* save several times and by starts of the API that overwrite a row they    *)
(* have read earlier, implements VersionLog: saves only append, and only    *)
(* the seeded text ever takes the place of a version's content, one version *)
(* at a time. With Seeded = {}, which is every artifact but the std and the *)
(* brute of the demo problem, a version keeps its content for ever.         *)
THEOREM LogRefined == Spec => LogSpec
PROOF
<1> DEFINE log == [v \in {r.version : r \in table} |->
                      (CHOOSE r \in table : r.version = v).content]
<1>1. log = LogOf(table)
  BY DEF LogOf, Content, Versions
<1>2. TypeOK /\ LogInv => \E n \in Nat : Versions(table) = 1..n
                                         /\ log \in Seq(Contents) /\ Len(log) = n
  <2> SUFFICES ASSUME TypeOK, LogInv
               PROVE  \E n \in Nat : /\ Versions(table) = 1..n
                                     /\ LogOf(table) \in Seq(Contents)
                                     /\ Len(LogOf(table)) = n
    BY <1>1
  <2>1. PICK n \in Nat : Versions(table) = 1..n
    BY DEF LogInv, Numbered
  <2> QED
    BY <2>1, LogOfSeq DEF TypeOK
<1>3. Init => Log!Init
  BY <1>2, InitType, InitLog DEF Log!Init
<1>4. TypeOK /\ LogInv /\ TypeOK' /\ LogInv' /\ [Next]_vars
         => [Log!Extend \/ Log!Reseed]_log
  <2> SUFFICES ASSUME TypeOK, LogInv, TypeOK', LogInv', [Next]_vars
               PROVE  Log!Extend \/ Log!Reseed
    OBVIOUS
  <2>1. PICK n \in Nat : Versions(table) = 1..n
                         /\ log \in Seq(Contents) /\ Len(log) = n
    BY <1>2
  <2>2. log' = LogOf(table')
    BY DEF LogOf, Content, Versions
  <2>3. table \in SUBSET Rows /\ table' \in SUBSET Rows
    BY DEF TypeOK
  <2>4. Distinct(table) /\ Distinct(table')
    BY DEF LogInv, OneRowPerVersion, Distinct
  <2>5. CASE table \subseteq table'
    <3>1. PICK m \in Nat : Versions(table') = 1..m
      BY DEF LogInv, Numbered
    <3>2. log' \in Seq(Contents) /\ Len(log') = m
      BY <2>2, <2>3, <3>1, LogOfSeq
    <3>3. n <= m
      <4>1. 1..n \subseteq 1..m
        BY <2>1, <2>5, <3>1 DEF Versions
      <4> QED
        BY <4>1
    <3>4. \A v \in 1..n : log'[v] = log[v]
      <4>1. \A v \in Versions(table) : LogOf(table')[v] = LogOf(table)[v]
        BY <2>3, <2>4, <2>5, LogGrows
      <4> HIDE DEF log
      <4> QED
        BY <1>1, <2>1, <2>2, <4>1
    <3> HIDE DEF log
    <3> QED
      BY <2>1, <3>2, <3>3, <3>4 DEF Log!Extend, log
  <2>6. ASSUME NEW q \in Rows, q.content \in Seeded, Taken(q.version, table),
               table' = Overwritten(q)
        PROVE  Log!Reseed
    <3>1. LogOf(table') = [LogOf(table) EXCEPT ![q.version] = q.content]
      BY <2>3, <2>4, <2>6, LogOverwritten DEF Overwritten
    <3>2. q.version \in 1..n
      BY <2>1, <2>6, TakenVersions
    <3>3. log' = [log EXCEPT ![q.version] = q.content]
      BY <1>1, <2>2, <3>1
    <3> HIDE DEF log
    <3> QED
      BY <2>1, <2>6, <3>2, <3>3 DEF Log!Reseed, log
  <2> QED
    BY <2>5, <2>6, TableGrows
<1> QED
  BY <1>3, <1>4, TypeCorrect, NumberingInvariant, PTL DEF Spec, LogSpec, Log!Spec

=============================================================================
