------------------------------ MODULE Package -------------------------------
(***************************************************************************)
(* The package of one problem: the zip file <title>.zip in the package      *)
(* directory, the key polygon_upload of spec_json that describes it, what   *)
(* is sent to Polygon, and the import of a zip back into the artifacts.     *)
(*                                                                         *)
(* A zip is made from one SELECT of the artifacts, and then written under a *)
(* name that all exports of the problem share: by the API process (prepare, *)
(* upload, the PACKAGE agent, the synchronisation) and by export jobs in a  *)
(* worker process. Nothing orders them. The Polygon API is not modelled:    *)
(* its client raises NameError before the first request is sent.            *)
(***************************************************************************)
EXTENDS Naturals, Sequences, FiniteSets

CONSTANTS
    Workers,     \* worker processes that run export jobs
    Requests,    \* API requests and chat turns
    Kinds,       \* the artifact kinds of the problem
    Stored,      \* per kind, the artifacts that are saved
    Required,    \* the kinds without which a package is reported as not ok
    Markup,      \* a statement's text after escape() and _strip_html()
    MaxStarts,   \* bound: requests and export jobs started
    MaxSaves     \* bound: artifacts saved by users and agents

Languages == {"cpp", "python", "java", "markdown", "other"}
Artifacts == [text : DOMAIN Markup, lang : Languages]

(* The order of the files in the archive. *)
Archive == <<"statement", "statement", "std", "brute", "checker", "interactor", "gen", "protocol">>

ASSUME KindsAssumption == Kinds \subseteq {Archive[i] : i \in DOMAIN Archive} /\ Required \subseteq Kinds
ASSUME StoredAssumption == \A k \in Kinds : Stored[k] \subseteq Artifacts
ASSUME MarkupAssumption == \A t \in DOMAIN Markup : Markup[t] \in DOMAIN Markup
ASSUME BoundsAssumption == MaxStarts \in Nat /\ MaxSaves \in Nat

VARIABLES
    art,       \* the versions of every kind, in order
    disk,      \* the zip file: its state, and the versions it was made from
    meta,      \* spec_json.polygon_upload: is there a zip, was it complete
    tx,        \* the requests and the export jobs
    sent,      \* the last package posted to Polygon, with what is known of it
    starts, saves,
    overlap    \* history: the zip was written by exports that overlapped

vars == <<art, disk, meta, tx, sent, starts, saves, overlap>>

Actors == Workers \cup Requests
Idle == [at |-> "idle"]
Nothing == [k \in Kinds |-> 0]

Init ==
    /\ art = [k \in Kinds |-> <<>>]
    /\ disk = [state |-> "none", files |-> Nothing]
    /\ meta = [zip |-> FALSE, ok |-> FALSE]
    /\ tx = [a \in Actors |-> Idle]
    /\ sent = {}
    /\ starts = 0 /\ saves = 0
    /\ overlap = FALSE

Save(k, a) ==
    /\ saves < MaxSaves
    /\ saves' = saves + 1
    /\ art' = [art EXCEPT ![k] = Append(@, a)]
    /\ UNCHANGED <<disk, meta, tx, sent, starts, overlap>>

-----------------------------------------------------------------------------
(* Beginnings. *)

Uploads == {"prepare", "force", "form"}
Ops == Uploads \cup {"export", "import", "other"}

(* Fault for UploadsFresh: the oldest row of a kind wins. *)
FaultVersions(k) == IF art[k] = <<>> THEN 0 ELSE 1

(* _artifact_map: the latest version of every kind (0: none). *)
Versions(k) == Len(art[k])

Latest == [k \in Kinds |-> Len(art[k])]

(* The problem's row is loaded; an export job goes straight to its SELECT. *)
Start(a, op) ==
    /\ tx[a] = Idle
    /\ starts < MaxStarts
    /\ starts' = starts + 1
    /\ tx' = [tx EXCEPT ![a] =
                 [op |-> op, at |-> IF op = "export" THEN "export" ELSE "loaded",
                  meta |-> IF op = "export" THEN [zip |-> FALSE, ok |-> FALSE] ELSE meta,
                  files |-> Nothing, met |-> FALSE, reused |-> FALSE, ok |-> FALSE,
                  began |-> IF op = "form" THEN Latest ELSE Nothing]]
    /\ UNCHANGED <<art, disk, meta, sent, saves, overlap>>

(* prepare_polygon_upload: the zip that is there is taken, unless forced.   *)
Reusable(r) == tx[r].op # "force" /\ tx[r].meta.zip /\ disk.state # "none"

(* Fault for UploadsComplete: a package that is reused counts as ok. *)
FaultReuse(r) ==
    /\ tx[r].at = "loaded" /\ tx[r].op \in Uploads
    /\ Reusable(r)
    /\ tx' = [tx EXCEPT ![r].at = "prepared", ![r].reused = TRUE, ![r].ok = TRUE]
    /\ UNCHANGED <<art, disk, meta, sent, starts, saves, overlap>>

Reuse(r) ==
    /\ tx[r].at = "loaded" /\ tx[r].op \in Uploads
    /\ Reusable(r)
    /\ tx' = [tx EXCEPT ![r].at = "prepared", ![r].reused = TRUE, ![r].ok = tx[r].meta.ok]
    /\ UNCHANGED <<art, disk, meta, sent, starts, saves, overlap>>

(* Fault for TypeOK: a package is announced that nobody has exported. *)
FaultMustExport(r) ==
    /\ tx[r].at = "loaded" /\ tx[r].op \in Uploads
    /\ ~Reusable(r)
    /\ tx' = [tx EXCEPT ![r].at = "prepared"]
    /\ UNCHANGED <<art, disk, meta, sent, starts, saves, overlap>>

MustExport(r) ==
    /\ tx[r].at = "loaded" /\ tx[r].op \in Uploads
    /\ ~Reusable(r)
    /\ tx' = [tx EXCEPT ![r].at = "export"]
    /\ UNCHANGED <<art, disk, meta, sent, starts, saves, overlap>>

-----------------------------------------------------------------------------
(* Exports. *)

Complete(files) == \A k \in Required : files[k] > 0

(* The SELECT of all the artifacts, from which the zip is built. *)
Select(a) ==
    /\ tx[a].at = "export"
    /\ LET files == [k \in Kinds |-> Versions(k)] IN
       tx' = [tx EXCEPT ![a].at = "selected", ![a].files = files,
                        ![a].ok = Complete(files), ![a].met = FALSE]
    /\ UNCHANGED <<art, disk, meta, sent, starts, saves, overlap>>

(* a has changed the file: those in one of the given states have met it.    *)
Met(a, states, next) ==
    tx' = [b \in Actors |->
              IF b = a THEN next
              ELSE IF tx[b].at \in states THEN [tx[b] EXCEPT !.met = TRUE] ELSE tx[b]]

(* write_bytes in the API process, whose requests do not interrupt it.      *)
Write(r) ==
    /\ r \in Requests
    /\ tx[r].at = "selected"
    /\ disk' = [state |-> "zip", files |-> tx[r].files]
    /\ overlap' = tx[r].met
    /\ Met(r, {"selected", "writing", "open"},
           IF tx[r].op = "export" THEN Idle
           ELSE [tx[r] EXCEPT !.at = "prepared", !.files = Nothing, !.met = FALSE])
    /\ UNCHANGED <<art, meta, sent, starts, saves>>

(* write_bytes in a worker: the file is emptied, then filled, and the API   *)
(* may read or write it between.                                            *)
Truncate(w) ==
    /\ w \in Workers
    /\ tx[w].at = "selected"
    /\ disk' = [disk EXCEPT !.state = "partial"]
    /\ Met(w, {"open"}, [tx[w] EXCEPT !.at = "writing"])
    /\ UNCHANGED <<art, meta, sent, starts, saves, overlap>>

Fill(w) ==
    /\ tx[w].at = "writing"
    /\ \E state \in {"zip"} \cup (IF tx[w].met THEN {"broken"} ELSE {}) :
          disk' = [state |-> state, files |-> tx[w].files]
    /\ overlap' = tx[w].met
    /\ Met(w, {"selected", "writing", "open"}, Idle)
    /\ UNCHANGED <<art, meta, sent, starts, saves>>

-----------------------------------------------------------------------------
(* Uploads. *)

RowFree(r) == \A u \in Requests \ {r} : tx[u].at \notin {"flushed", "posted"}

(* The event that announces the package flushes spec_json: the row is       *)
(* locked until the commit, through all requests to Polygon.                *)
Flush(r) ==
    /\ tx[r].at = "prepared"
    /\ RowFree(r)
    /\ tx' = [tx EXCEPT ![r].at = "flushed"]
    /\ UNCHANGED <<art, disk, meta, sent, starts, saves, overlap>>

(* submit_polygon_form_upload: the form was found, the file is read and     *)
(* posted.                                                                  *)
Post(r) ==
    /\ tx[r].at = "flushed" /\ tx[r].op = "form"
    /\ sent' = {[files |-> disk.files, state |-> disk.state, overlap |-> overlap,
                 ok |-> tx[r].ok, reused |-> tx[r].reused, began |-> tx[r].began]}
    /\ tx' = [tx EXCEPT ![r].at = "posted"]
    /\ UNCHANGED <<art, disk, meta, starts, saves, overlap>>

(* The commit, also when there was no cookie or no form. *)
CommitUpload(r) ==
    /\ tx[r].at \in {"flushed", "posted"}
    /\ meta' = [zip |-> TRUE, ok |-> tx[r].ok]
    /\ tx' = [tx EXCEPT ![r] = Idle]
    /\ UNCHANGED <<art, disk, sent, starts, saves, overlap>>

(* Another key of spec_json is changed: the column is rewritten as loaded.  *)
Other(r) ==
    /\ tx[r].at = "loaded" /\ tx[r].op = "other"
    /\ RowFree(r)
    /\ meta' = tx[r].meta
    /\ tx' = [tx EXCEPT ![r] = Idle]
    /\ UNCHANGED <<art, disk, sent, starts, saves, overlap>>

-----------------------------------------------------------------------------
(* Imports. *)

(* build_polygon_zip: the extension a file gets. *)
Extension(k, lang) ==
    CASE k \in {"std", "brute"} -> IF lang \in {"cpp", "python", "java"} THEN lang ELSE "cpp"
      [] k \in {"checker", "interactor", "gen"} -> "python"
      [] k \in {"statement", "protocol"} -> "markdown"

(* Fault for RoundTrip: the language is not taken from the file's name. *)
FaultLanguage(k, extension) == IF k \in {"std", "brute"} THEN "cpp" ELSE extension

(* import_polygon_zip: the language given to a file with that extension.    *)
Language(k, extension) == extension

(* What an artifact has become in the zip and back. *)
Imported(k, a) ==
    [text |-> IF k = "statement" THEN Markup[a.text] ELSE a.text,
     lang |-> Language(k, Extension(k, a.lang))]

(* The zip is opened and its directory is read; it stays open.              *)
Open(r) ==
    /\ tx[r].at = "loaded" /\ tx[r].op = "import"
    /\ disk.state = "zip"
    /\ tx' = [tx EXCEPT ![r].at = "open", ![r].files = disk.files, ![r].met = FALSE]
    /\ UNCHANGED <<art, disk, meta, sent, starts, saves, overlap>>

(* How often a kind is among the first n files of the archive. *)
Times(k, n) == Cardinality({j \in 1..n : Archive[j] = k})

(* What is saved of the first n files. *)
ImportedFiles(r, n) ==
    [k \in Kinds |->
        IF tx[r].files[k] = 0 THEN art[k]
        ELSE art[k] \o [i \in 1..Times(k, n) |-> Imported(k, art[k][tx[r].files[k]])]]

(* The files are read and saved one by one. When the zip is rewritten under *)
(* the import, the files that follow cannot be read, and are passed over.   *)
Import(r) ==
    /\ tx[r].at = "open"
    /\ RowFree(r)
    /\ \E n \in (IF tx[r].met THEN 0..Len(Archive) ELSE {Len(Archive)}) : art' = ImportedFiles(r, n)
    /\ meta' = tx[r].meta
    /\ tx' = [tx EXCEPT ![r] = Idle]
    /\ UNCHANGED <<disk, sent, starts, saves, overlap>>

(* The request or job fails, its process dies, or there is no zip to import. *)
Fail(a) ==
    /\ tx[a] # Idle
    /\ tx' = [tx EXCEPT ![a] = Idle]
    /\ UNCHANGED <<art, disk, meta, sent, starts, saves, overlap>>

Next ==
    \/ \E k \in Kinds : \E a \in Stored[k] : Save(k, a)
    \/ \E w \in Workers : Start(w, "export") \/ Truncate(w) \/ Fill(w)
    \/ \E r \in Requests :
          \/ \E op \in Ops : Start(r, op)
          \/ Reuse(r) \/ MustExport(r) \/ Write(r) \/ Flush(r) \/ Post(r) \/ CommitUpload(r)
          \/ Other(r) \/ Open(r) \/ Import(r)
    \/ \E a \in Actors : Select(a) \/ Fail(a)

Spec == Init /\ [][Next]_vars

-----------------------------------------------------------------------------
(* Properties. *)

TypeOK ==
    /\ \A k \in Kinds : art[k] \in Seq(Artifacts) /\ disk.files[k] \in 0..Len(art[k])
    /\ disk.state \in {"none", "partial", "zip", "broken"}
    /\ disk.state = "broken" => overlap
    /\ meta \in [zip : BOOLEAN, ok : BOOLEAN]
    /\ meta.zip => disk.state # "none"
    /\ \A a \in Actors : tx[a] # Idle =>
          tx[a].op \in Ops /\ \A k \in Kinds : tx[a].files[k] \in 0..Len(art[k])

(* A package posted as ok has the files a package must have, although what  *)
(* says so is a row loaded earlier, about a file that others may have       *)
(* replaced since. Only exports that overlapped, or a job that was writing  *)
(* the file or died writing it, make it untrue.                             *)
UploadsComplete ==
    \A u \in sent : u.ok => Complete(u.files) \/ u.overlap \/ u.state = "partial"

(* A package that was exported for its upload has every artifact as it was  *)
(* when the upload began, or newer, with the same exceptions: only a reused *)
(* package can be older than the work it is sent for.                       *)
UploadsFresh ==
    \A u \in sent :
        ~u.reused =>
            (\A k \in Kinds : u.began[k] <= u.files[k]) \/ u.overlap \/ u.state = "partial"

(* What goes through the zip and back: every file except a checker, an      *)
(* interactor or a generator that is not Python, a program in a language    *)
(* that has no extension of its own, and a statement with markup in it.     *)
Survives(k, a) ==
    CASE k \in {"std", "brute"} -> a.lang \in {"cpp", "python", "java"}
      [] k \in {"checker", "interactor", "gen"} -> a.lang = "python"
      [] OTHER -> a.lang = "markdown" /\ Markup[a.text] = a.text

(* An import of a zip that nobody rewrites meanwhile makes the latest       *)
(* version of every artifact in it what it was when the zip was made.       *)
RoundTrip ==
    [][\A r \in Requests :
          Import(r) /\ ~tx[r].met =>
             \A k \in Kinds :
                LET v == tx[r].files[k] IN
                v > 0 /\ Survives(k, art[k][v]) => art'[k][Len(art'[k])] = art[k][v]]_vars
=============================================================================
