----------------------------- MODULE Artifacts ------------------------------
(***************************************************************************)
(* The versions of one artifact, one (problem_id, kind) of the artifacts   *)
(* table, and the transactions that save it: the editor's PUT, restore,    *)
(* fetch-std, the stage agents and workflows (one save per request), the   *)
(* crawler and the worker (several saves before a batch commits).          *)
(*                                                                         *)
(* Every saver reads the latest version it can see, adds one, and inserts; *)
(* nothing locks the version it has read. The unique constraint            *)
(* uq_artifact_version decides: an insert waits while another open         *)
(* transaction holds the same version, and fails once that one commits.    *)
(*                                                                         *)
(* One writer saves no version: every start of the API overwrites the      *)
(* latest std and brute of the demo problem "M6 NON_ORIGINAL Demo" in      *)
(* place.                                                                  *)
(***************************************************************************)
EXTENDS Naturals, FiniteSets

CONSTANTS
    Requests,    \* transactions that save once: API requests, and the start of
                 \* an API process that renews the interactor of its demo
    Batches,     \* worker processes, whose transactions save several times
    Starts,      \* API processes that may be starting at the same time
    Contents,    \* the texts that are saved
    Seeded,      \* the text a start writes: none unless the artifact is the demo's
    Imported,    \* the versions a problem is created with (seed data)
    MaxVersion   \* bound: no version above this one is started

ASSUME WritersAssumption == Requests \cap Batches = {}
ASSUME SeededAssumption == Seeded \subseteq Contents
ASSUME MaxAssumption == MaxVersion \in Nat \ {0}

VARIABLES
    table,       \* committed rows: a set of [version, content]
    tx,          \* the open transaction of every writer
    reseed       \* the row that an open start will leave, if any

vars == <<table, tx, reseed>>

Writers == Requests \cup Batches

Rows == [version : Nat \ {0}, content : Contents]

ASSUME ImportedAssumption ==
    /\ Imported \subseteq Rows
    /\ IsFiniteSet(Imported)
    /\ \A r, q \in Imported : r.version = q.version => r = q
    /\ {r.version : r \in Imported} = 1..Cardinality(Imported)

(* A transaction: the rows it has inserted, and the save it is in (at most  *)
(* one), whose version has been computed and whose INSERT is still to come. *)
Idle == [staged |-> {}, save |-> {}]

Init ==
    /\ table = Imported
    /\ tx = [w \in Writers |-> Idle]
    /\ reseed = [s \in Starts |-> {}]

-----------------------------------------------------------------------------
(* What the transaction's own SELECTs return. *)
Visible(w) == table \cup tx[w].staged

IsLatest(r, T) == r \in T /\ \A q \in T : q.version <= r.version

(* Fault for NoGap: the version is counted from the row after the latest. *)
FaultNextVersion(v, T) ==
    IF T = {} THEN v = 1 ELSE \E r \in T : IsLatest(r, T) /\ v = r.version + 2

(* (latest.version + 1) if latest else 1 *)
NextVersion(v, T) ==
    IF T = {} THEN v = 1 ELSE \E r \in T : IsLatest(r, T) /\ v = r.version + 1

Starting(w) ==
    /\ tx[w].save = {}
    /\ w \in Requests => tx[w].staged = {}

(* A save: the latest version is read and the new row is prepared. *)
Save(w, c) ==
    /\ Starting(w)
    /\ \E v \in 1..MaxVersion :
          /\ NextVersion(v, Visible(w))
          /\ tx' = [tx EXCEPT ![w].save = {[version |-> v, content |-> c]}]
    /\ UNCHANGED <<table, reseed>>

(* Fault for TypeOK: the row is saved, not its content. *)
FaultRestore(r, version) ==
    \E q \in table : q.version = version /\ Save(r, q)

(* restore_version: a committed version is read, then saved as the latest. *)
Restore(r, version) ==
    \E q \in table : q.version = version /\ Save(r, q.content)

Taken(v, T) == \E r \in T : r.version = v

(* Fault for OneRowPerVersion and LogSpec: there is no unique constraint. *)
FaultConflict(w, v) == FALSE

(* The constraint: a committed row has the version already. *)
Conflict(w, v) == Taken(v, table)

(* Fault for StagedApart: an uncommitted row does not count for the constraint. *)
FaultWaits(w, v) == FALSE

(* Another open transaction has inserted the version: the INSERT waits. *)
Waits(w, v) == \E u \in Writers \ {w} : Taken(v, tx[u].staged)

(* The INSERT reaches the table. *)
Insert(w) ==
    \E r \in tx[w].save :
        /\ ~Waits(w, r.version)
        /\ ~Conflict(w, r.version)
        /\ tx' = [tx EXCEPT ![w] = [staged |-> @.staged \cup {r}, save |-> {}]]
        /\ UNCHANGED <<table, reseed>>

(* Fault for SavesEnd: the error is caught and the same row is tried again. *)
FaultInsertFails(w) ==
    /\ \E r \in tx[w].save : ~Waits(w, r.version) /\ Conflict(w, r.version)
    /\ tx' = [tx EXCEPT ![w].staged = {}]
    /\ UNCHANGED <<table, reseed>>

(* IntegrityError: a request answers 500; in a worker the failure event     *)
(* cannot be written either, so the whole batch is rolled back.             *)
InsertFails(w) ==
    /\ \E r \in tx[w].save : ~Waits(w, r.version) /\ Conflict(w, r.version)
    /\ tx' = [tx EXCEPT ![w] = Idle]
    /\ UNCHANGED <<table, reseed>>

Commit(w) ==
    /\ tx[w].save = {}
    /\ tx[w].staged # {}
    /\ table' = table \cup tx[w].staged
    /\ tx' = [tx EXCEPT ![w] = Idle]
    /\ UNCHANGED reseed

(* The process dies, or a later step of the transaction fails. *)
Rollback(w) ==
    /\ tx[w] # Idle
    /\ tx' = [tx EXCEPT ![w] = Idle]
    /\ UNCHANGED <<table, reseed>>

-----------------------------------------------------------------------------
(* The start of an API process. *)

(* seed_m6_non_original_demo reads the latest version and sets its content: *)
(* the column is written if that changes it.                                *)
SeedRead(s) ==
    /\ reseed[s] = {}
    /\ \E r \in table, c \in Seeded :
          /\ IsLatest(r, table)
          /\ r.content # c
          /\ reseed' = [reseed EXCEPT ![s] = {[r EXCEPT !.content = c]}]
    /\ UNCHANGED <<table, tx>>

Overwritten(q) == {IF r.version = q.version THEN q ELSE r : r \in table}

(* The commit of the lifespan hook: that row is overwritten, also if it is  *)
(* not the latest any more. A start that waited for the row does the same.  *)
SeedCommit(s) ==
    \E q \in reseed[s] :
        /\ table' = Overwritten(q)
        /\ reseed' = [reseed EXCEPT ![s] = {}]
        /\ UNCHANGED tx

(* A later step of the start fails. *)
SeedRollback(s) ==
    /\ reseed[s] # {}
    /\ reseed' = [reseed EXCEPT ![s] = {}]
    /\ UNCHANGED <<table, tx>>

-----------------------------------------------------------------------------
Next ==
    \/ \E w \in Writers :
          \/ \E c \in Contents : Save(w, c)
          \/ w \in Requests /\ \E v \in 1..MaxVersion : Restore(w, v)
          \/ Insert(w) \/ InsertFails(w) \/ Commit(w) \/ Rollback(w)
    \/ \E s \in Starts : SeedRead(s) \/ SeedCommit(s) \/ SeedRollback(s)

(* Statements end, and a transaction that has inserted is committed. *)
Fairness ==
    \A w \in Writers : SF_vars(Insert(w)) /\ WF_vars(InsertFails(w)) /\ WF_vars(Commit(w))

Spec == Init /\ [][Next]_vars /\ Fairness

-----------------------------------------------------------------------------
(* Properties. *)

TypeOK ==
    /\ table \subseteq Rows
    /\ tx \in [Writers -> [staged : SUBSET Rows, save : SUBSET Rows]]
    /\ reseed \in [Starts -> SUBSET Rows]

(* Concurrent savers that computed the same number never produce two rows   *)
(* of one version: latest_artifact with a version has one answer.           *)
OneRowPerVersion == \A r, q \in table : r.version = q.version => r = q

(* Versions are numbered without a gap, whichever of the racing savers      *)
(* fails or is rolled back: version n+1 is committed only after version n.  *)
NoGap == \A r \in table : r.version > 1 => Taken(r.version - 1, table)

(* No open transaction has inserted a version that another one has: two     *)
(* inserts of one version are never both in the table, committed or not.    *)
StagedApart ==
    \A w, u \in Writers : \A r \in tx[w].staged :
        /\ u # w => ~Taken(r.version, tx[u].staged)
        /\ ~Taken(r.version, table)

(* Every save ends: it is inserted, refused, or rolled back, however the    *)
(* savers wait for each other.                                              *)
SavesEnd == \A w \in Writers : tx[w].save # {} ~> tx[w].save = {}

(* The table is the log its readers take it for: saves only append to it,   *)
(* and no race of savers, batches, rollbacks and starts changes a version   *)
(* that is there, but for a start that puts the text of the demo into one.  *)
Log == INSTANCE VersionLog WITH
    log <- [v \in {r.version : r \in table} |->
               (CHOOSE r \in table : r.version = v).content]

LogSpec == Log!Spec
=============================================================================
