--------------------------- MODULE PackageProofs ----------------------------
(***************************************************************************)
(* Proofs about packages, for any kinds of artifacts, any number of         *)
(* requests and workers, and any bounds.                                    *)
(***************************************************************************)
EXTENDS Package, FiniteSetTheorems, SequenceTheorems, TLAPS

-----------------------------------------------------------------------------
(* Type correctness. *)

Versioned == [Kinds -> Nat]
Metas == [zip : BOOLEAN, ok : BOOLEAN]
Steps == {"loaded", "export", "selected", "writing", "prepared", "flushed", "posted", "open"}
Records ==
    [op : Ops, at : Steps, meta : Metas, files : Versioned, met : BOOLEAN,
     reused : BOOLEAN, ok : BOOLEAN, began : Versioned]
States == {"none", "partial", "zip", "broken"}

(* f has every kind at least in the version that b has. *)
AtLeast(f, b) == \A k \in Kinds : b[k] <= f[k]

Typed ==
    /\ art \in [Kinds -> Seq(Artifacts)]
    /\ disk \in [state : States, files : Versioned] /\ AtLeast(Latest, disk.files)
    /\ disk.state = "broken" => overlap
    /\ meta \in Metas /\ (meta.zip => disk.state # "none")
    /\ tx \in [Actors -> Records \cup {Idle}]
    /\ \A a \in Actors : tx[a] # Idle =>
          /\ AtLeast(Latest, tx[a].files) /\ AtLeast(Latest, tx[a].began)
          /\ tx[a].meta.zip \/ tx[a].at \in {"prepared", "flushed", "posted"} => disk.state # "none"
    /\ overlap \in BOOLEAN

LEMMA IdleFacts == Idle.at = "idle" /\ Idle \notin Records
PROOF
  BY DEF Idle, Records, Steps

(* Who is somewhere is not idle, and has a record. *)
LEMMA Busy ==
    ASSUME Typed, NEW a \in Actors, tx[a].at # "idle" \/ tx[a] # Idle
    PROVE  /\ tx[a] # Idle /\ tx[a] \in Records
           /\ AtLeast(Latest, tx[a].files) /\ AtLeast(Latest, tx[a].began)
           /\ tx[a].meta.zip \/ tx[a].at \in {"prepared", "flushed", "posted"} => disk.state # "none"
PROOF
  BY IdleFacts DEF Typed

LEMMA LatestTyped == Typed => Latest \in Versioned
PROOF
<1> SUFFICES ASSUME Typed, NEW k \in Kinds PROVE Len(art[k]) \in Nat
  BY DEF Latest, Versioned
<1>1. art[k] \in Seq(Artifacts)
  BY DEF Typed
<1> QED
  BY <1>1, LenProperties

(* What every step does: artifacts are only added. *)
Adds == art' \in [Kinds -> Seq(Artifacts)] /\ AtLeast(Latest', Latest)

LEMMA AtLeastAll ==
    ASSUME NEW f \in Versioned, NEW g \in Versioned, NEW h \in Versioned,
           AtLeast(g, f), AtLeast(h, g)
    PROVE  AtLeast(h, f)
PROOF
  BY DEF AtLeast, Versioned

(* The record of one actor changes, the zip does not. *)
LEMMA OneTyped ==
    ASSUME Typed, NEW a \in Actors, Adds,
           \E x \in Records \cup {Idle} : tx' = [tx EXCEPT ![a] = x],
           tx'[a] # Idle =>
              /\ AtLeast(Latest, tx'[a].files) /\ AtLeast(Latest, tx'[a].began)
              /\ tx'[a].meta.zip \/ tx'[a].at \in {"prepared", "flushed", "posted"} => disk.state # "none",
           meta' \in Metas, meta'.zip => disk.state # "none",
           UNCHANGED <<disk, overlap>>
    PROVE  Typed'
PROOF
<1>1. Latest' \in Versioned
  <2> SUFFICES ASSUME NEW k \in Kinds PROVE Len(art'[k]) \in Nat
    BY DEF Latest, Versioned
  <2>1. art'[k] \in Seq(Artifacts)
    BY DEF Adds
  <2> QED
    BY <2>1, LenProperties
<1>2. Latest \in Versioned
  BY LatestTyped
<1>3. tx' \in [Actors -> Records \cup {Idle}]
  BY DEF Typed
<1>4. AtLeast(Latest', disk.files) /\ disk.files \in Versioned
  BY <1>1, <1>2, AtLeastAll DEF Typed, Adds
<1>5. ASSUME NEW b \in Actors, tx'[b] # Idle
      PROVE  /\ AtLeast(Latest', tx'[b].files) /\ AtLeast(Latest', tx'[b].began)
             /\ tx'[b].meta.zip \/ tx'[b].at \in {"prepared", "flushed", "posted"} => disk.state # "none"
  <2>1. tx'[b] \in Records
    BY <1>3, <1>5
  <2>2. tx'[b].files \in Versioned /\ tx'[b].began \in Versioned
    BY <2>1 DEF Records
  <2>3. /\ AtLeast(Latest, tx'[b].files) /\ AtLeast(Latest, tx'[b].began)
        /\ tx'[b].meta.zip \/ tx'[b].at \in {"prepared", "flushed", "posted"} => disk.state # "none"
    <3>1. CASE b = a
      BY <1>5, <3>1
    <3>2. CASE b # a
      <4>1. tx'[b] = tx[b]
        BY <3>2 DEF Typed
      <4> QED
        BY <1>5, <4>1 DEF Typed
    <3> QED
      BY <3>1, <3>2
  <2> QED
    BY <1>1, <1>2, <2>2, <2>3, AtLeastAll DEF Adds
<1> QED
  BY <1>3, <1>4, <1>5 DEF Typed, Adds

LEMMA SameAdds == ASSUME Typed, art' = art PROVE Adds
PROOF
<1>1. Latest' = Latest
  BY DEF Latest
<1>2. Latest \in Versioned
  BY LatestTyped
<1> QED
  BY <1>1, <1>2 DEF Adds, AtLeast, Versioned, Typed

(* Both ways in which artifacts are added. *)
LEMMA MoreAdds ==
    ASSUME Typed,
           \A k \in Kinds : \E s \in Seq(Artifacts) : art'[k] = art[k] \o s,
           art' = [k \in Kinds |-> art'[k]]
    PROVE  Adds
PROOF
<1>1. ASSUME NEW k \in Kinds
      PROVE  art'[k] \in Seq(Artifacts) /\ Len(art[k]) <= Len(art'[k])
  <2>1. PICK s \in Seq(Artifacts) : art'[k] = art[k] \o s
    OBVIOUS
  <2>2. art[k] \in Seq(Artifacts)
    BY DEF Typed
  <2>3. art'[k] \in Seq(Artifacts) /\ Len(art'[k]) = Len(art[k]) + Len(s)
    BY <2>1, <2>2, ConcatProperties
  <2>4. Len(s) \in Nat /\ Len(art[k]) \in Nat
    BY <2>2, LenProperties
  <2> QED
    BY <2>3, <2>4
<1> QED
  BY <1>1 DEF Adds, AtLeast, Latest

LEMMA SaveAdds ==
    ASSUME Typed, NEW k \in Kinds, NEW a \in Stored[k], Save(k, a)
    PROVE  Adds
PROOF
<1>1. a \in Artifacts
  BY StoredAssumption
<1>2. art' = [art EXCEPT ![k] = Append(@, a)]
  BY DEF Save
<1>3. ASSUME NEW l \in Kinds PROVE \E s \in Seq(Artifacts) : art'[l] = art[l] \o s
  <2>1. art[l] \in Seq(Artifacts)
    BY DEF Typed
  <2>2. CASE l = k
    <3>1. art'[l] = Append(art[l], a)
      BY <1>2, <2>2 DEF Typed
    <3>2. Append(art[l], a) = art[l] \o <<a>>
      BY <1>1, <2>1, AppendIsConcat
    <3>3. <<a>> \in Seq(Artifacts)
      BY <1>1
    <3> QED
      BY <3>1, <3>2, <3>3
  <2>3. CASE l # k
    <3>1. art'[l] = art[l]
      BY <1>2, <2>3 DEF Typed
    <3>2. art[l] \o << >> = art[l] /\ << >> \in Seq(Artifacts)
      BY <2>1, ConcatEmptySeq
    <3> QED
      BY <3>1, <3>2
  <2> QED
    BY <2>2, <2>3
<1>4. art' = [l \in Kinds |-> art'[l]]
  BY <1>2 DEF Typed
<1> QED
  BY <1>3, <1>4, MoreAdds

LEMMA SaveTyped ==
    ASSUME Typed, NEW k \in Kinds, NEW a \in Stored[k], Save(k, a)
    PROVE  Typed'
PROOF
<1>1. Adds
  BY SaveAdds
<1>2. UNCHANGED <<disk, meta, tx, overlap>>
  BY DEF Save
<1>3. Latest \in Versioned
  BY LatestTyped
<1>4. Latest' \in Versioned
  <2> SUFFICES ASSUME NEW l \in Kinds PROVE Len(art'[l]) \in Nat
    BY DEF Latest, Versioned
  <2>1. art'[l] \in Seq(Artifacts)
    BY <1>1 DEF Adds
  <2> QED
    BY <2>1, LenProperties
<1>5. AtLeast(Latest', disk.files)
  BY <1>1, <1>3, <1>4, AtLeastAll DEF Typed, Adds
<1>6. ASSUME NEW b \in Actors, tx[b] # Idle
      PROVE  AtLeast(Latest', tx[b].files) /\ AtLeast(Latest', tx[b].began)
  <2>1. tx[b].files \in Versioned /\ tx[b].began \in Versioned
    BY <1>6, Busy DEF Records
  <2>2. AtLeast(Latest, tx[b].files) /\ AtLeast(Latest, tx[b].began)
    BY <1>6, Busy
  <2> QED
    BY <1>1, <1>3, <1>4, <2>1, <2>2, AtLeastAll DEF Adds
<1> QED
  BY <1>1, <1>2, <1>5, <1>6 DEF Typed, Adds

-----------------------------------------------------------------------------
(* The invariant. *)

Pending == {"selected", "writing"}
Announced == {"prepared", "flushed", "posted"}

(* What a complete package needs, as versions. *)
Needed == [k \in Kinds |-> IF k \in Required THEN 1 ELSE 0]

(* The zip has every kind at least in the version b has, unless writes have *)
(* overlapped, and so will it after every write that is under way.          *)
Covered(b) ==
    /\ AtLeast(Latest, b)
    /\ overlap \/ AtLeast(disk.files, b)
    /\ \A a \in Actors : tx[a].at \in Pending /\ ~tx[a].met => AtLeast(tx[a].files, b)

(* What a request says about the package is so. *)
Sound(q) ==
    /\ q.meta.ok => Covered(Needed)
    /\ q.at \in Announced /\ q.ok => Covered(Needed)
    /\ q.at \in Announced /\ ~q.reused => Covered(q.began)
    /\ q.at \in Pending => AtLeast(q.files, q.began)
    /\ q.at \in Pending /\ q.ok => AtLeast(q.files, Needed)

Claims == \A a \in Actors : \A q \in Records : tx[a] = q => Sound(q)

PackageInv ==
    Typed /\ (meta.ok => Covered(Needed)) /\ Claims /\ UploadsComplete /\ UploadsFresh

LEMMA NeededFacts ==
    /\ Needed \in Versioned
    /\ \A f \in Versioned : Complete(f) <=> AtLeast(f, Needed)
PROOF
  BY KindsAssumption DEF Needed, Versioned, Complete, AtLeast

LEMMA AtLeastSelf == \A f \in Versioned : AtLeast(f, f)
PROOF
  BY DEF Versioned, AtLeast

(* What a step must keep for requests to remain sound. *)
Keeps == \A b \in Versioned : Covered(b) => Covered(b)'

LEMMA SoundKept ==
    ASSUME Keeps, NEW q \in Records, Sound(q)
    PROVE  Sound(q)'
PROOF
<1>1. q.began \in Versioned /\ Needed \in Versioned
  BY NeededFacts DEF Records
<1>2. Covered(Needed) => Covered(Needed)'
  BY <1>1 DEF Keeps
<1>3. Covered(q.began) => Covered(q.began)'
  BY <1>1 DEF Keeps
<1> QED
  BY <1>2, <1>3 DEF Sound

(* A step of one actor that does not touch the zip. *)
LEMMA OneKeeps ==
    ASSUME Typed, Typed', Adds, NEW a \in Actors,
           \E x \in Records \cup {Idle} : tx' = [tx EXCEPT ![a] = x],
           UNCHANGED <<disk, overlap>>,
           tx'[a].at \in Pending /\ ~tx'[a].met => AtLeast(tx'[a].files, Latest)
    PROVE  Keeps
PROOF
<1> SUFFICES ASSUME NEW b \in Versioned, Covered(b) PROVE Covered(b)'
  BY DEF Keeps
<1>1. Latest \in Versioned
  BY LatestTyped
<1>2. Latest' \in Versioned
  <2> SUFFICES ASSUME NEW k \in Kinds PROVE Len(art'[k]) \in Nat
    BY DEF Latest, Versioned
  <2>1. art'[k] \in Seq(Artifacts)
    BY DEF Adds
  <2> QED
    BY <2>1, LenProperties
<1>3. AtLeast(Latest, b) /\ AtLeast(Latest', b)
  BY <1>1, <1>2, AtLeastAll DEF Covered, Adds
<1>4. ASSUME NEW u \in Actors, tx'[u].at \in Pending, ~tx'[u].met
      PROVE  AtLeast(tx'[u].files, b)
  <2>1. CASE u = a
    <3>1. tx'[u] \in Records
      BY <1>4, IdleFacts DEF Typed, Pending
    <3>2. tx'[u].files \in Versioned
      BY <3>1 DEF Records
    <3> QED
      BY <1>1, <1>3, <1>4, <2>1, <3>2, AtLeastAll
  <2>2. CASE u # a
    <3>1. tx'[u] = tx[u]
      BY <2>2 DEF Typed
    <3> QED
      BY <1>4, <3>1 DEF Covered
  <2> QED
    BY <2>1, <2>2
<1> QED
  BY <1>3, <1>4 DEF Covered

LEMMA OneInv ==
    ASSUME PackageInv, NEW a \in Actors, Adds,
           \E x \in Records \cup {Idle} :
              /\ tx' = [tx EXCEPT ![a] = x]
              /\ x # Idle =>
                    /\ AtLeast(Latest, x.files) /\ AtLeast(Latest, x.began)
                    /\ x.meta.zip \/ x.at \in Announced => disk.state # "none"
                    /\ Sound(x)
              /\ x.at \in Pending /\ ~x.met => AtLeast(x.files, Latest),
           meta' \in Metas, meta'.zip => disk.state # "none", meta'.ok => Covered(Needed),
           UNCHANGED <<disk, overlap>>,
           UploadsComplete', UploadsFresh'
    PROVE  PackageInv'
PROOF
<1>1. PICK x \in Records \cup {Idle} :
              /\ tx' = [tx EXCEPT ![a] = x]
              /\ x # Idle =>
                    /\ AtLeast(Latest, x.files) /\ AtLeast(Latest, x.began)
                    /\ x.meta.zip \/ x.at \in Announced => disk.state # "none"
                    /\ Sound(x)
              /\ x.at \in Pending /\ ~x.met => AtLeast(x.files, Latest)
  OBVIOUS
<1>2. tx'[a] = x
  BY <1>1 DEF PackageInv, Typed
<1>3. Typed'
  BY <1>1, <1>2, OneTyped DEF PackageInv, Announced
<1>4. Keeps
  BY <1>1, <1>2, <1>3, OneKeeps DEF PackageInv
<1>5. meta'.ok => Covered(Needed)'
  BY <1>4, NeededFacts DEF Keeps
<1>6. Claims'
  <2> SUFFICES ASSUME NEW u \in Actors, NEW q \in Records, tx'[u] = q PROVE Sound(q)'
    BY DEF Claims
  <2>1. Sound(q)
    <3>1. CASE u = a
      BY <1>1, <1>2, <3>1, IdleFacts
    <3>2. CASE u # a
      <4>1. tx[u] = q
        BY <1>1, <3>2 DEF PackageInv, Typed
      <4> QED
        BY <4>1 DEF PackageInv, Claims
    <3> QED
      BY <3>1, <3>2
  <2> QED
    BY <1>4, <2>1, SoundKept
<1> QED
  BY <1>3, <1>5, <1>6 DEF PackageInv

LEMMA InitInv == Init => PackageInv
PROOF
<1> SUFFICES ASSUME Init PROVE PackageInv
  OBVIOUS
<1>1. \A k \in Kinds : art[k] = << >>
  BY DEF Init
<1>2. \A k \in Kinds : Latest[k] = 0
  BY <1>1 DEF Latest
<1>3. AtLeast(Latest, Nothing) /\ Nothing \in Versioned
  BY <1>2 DEF AtLeast, Nothing, Versioned
<1>4. << >> \in Seq(Artifacts)
  OBVIOUS
<1>5. Typed
  BY <1>3, <1>4 DEF Init, Typed, States, Metas
<1>6. Claims
  BY IdleFacts DEF Init, Claims
<1> QED
  BY <1>5, <1>6 DEF Init, PackageInv, UploadsComplete, UploadsFresh

(* The two properties are about what has been posted. *)
LEMMA SentKept ==
    ASSUME PackageInv, sent' = sent
    PROVE  UploadsComplete' /\ UploadsFresh'
PROOF
  BY DEF PackageInv, UploadsComplete, UploadsFresh, Complete

LEMMA SaveInv ==
    ASSUME PackageInv, NEW k \in Kinds, NEW a \in Stored[k], Save(k, a)
    PROVE  PackageInv'
PROOF
<1>1. Typed /\ Typed' /\ Adds
  BY SaveAdds, SaveTyped DEF PackageInv
<1>2. UNCHANGED <<disk, meta, tx, sent, overlap>>
  BY DEF Save
<1>3. Latest \in Versioned /\ Latest' \in Versioned
  <2>1. Latest \in Versioned
    BY <1>1, LatestTyped
  <2>2. ASSUME NEW l \in Kinds PROVE Len(art'[l]) \in Nat
    <3>1. art'[l] \in Seq(Artifacts)
      BY <1>1 DEF Adds
    <3> QED
      BY <3>1, LenProperties
  <2> QED
    BY <2>1, <2>2 DEF Latest, Versioned
<1>4. Keeps
  <2> SUFFICES ASSUME NEW b \in Versioned, Covered(b) PROVE Covered(b)'
    BY DEF Keeps
  <2>1. AtLeast(Latest', b)
    BY <1>1, <1>3, AtLeastAll DEF Covered, Adds
  <2> QED
    BY <1>2, <2>1 DEF Covered
<1>5. Claims'
  BY <1>2, <1>4, SoundKept DEF PackageInv, Claims
<1>6. meta'.ok => Covered(Needed)'
  BY <1>2, <1>4, NeededFacts DEF PackageInv, Keeps
<1> QED
  BY <1>1, <1>2, <1>5, <1>6, SentKept DEF PackageInv

-----------------------------------------------------------------------------
(* The steps of one actor that do not touch the zip. *)

LEMMA StartInv ==
    ASSUME PackageInv, NEW a \in Actors, NEW op \in Ops, Start(a, op)
    PROVE  PackageInv'
PROOF
<1> DEFINE x == [op |-> op, at |-> IF op = "export" THEN "export" ELSE "loaded",
                 meta |-> IF op = "export" THEN [zip |-> FALSE, ok |-> FALSE] ELSE meta,
                 files |-> Nothing, met |-> FALSE, reused |-> FALSE, ok |-> FALSE,
                 began |-> IF op = "form" THEN Latest ELSE Nothing]
<1>1. Typed /\ Latest \in Versioned /\ Nothing \in Versioned
  BY LatestTyped DEF PackageInv, Nothing, Versioned
<1>2. AtLeast(Latest, Nothing) /\ AtLeast(Latest, Latest)
  BY <1>1 DEF AtLeast, Nothing, Versioned
<1>3. x \in Records
  BY <1>1 DEF Records, Typed, Metas, Steps
<1>4. tx' = [tx EXCEPT ![a] = x] /\ UNCHANGED <<art, disk, meta, sent, overlap>>
  BY DEF Start
<1>5. AtLeast(Latest, x.files) /\ AtLeast(Latest, x.began)
  BY <1>2
<1>6. x.meta.zip \/ x.at \in Announced => disk.state # "none"
  BY <1>1 DEF Typed, Announced
<1>7. Sound(x) /\ ~(x.at \in Pending)
  <2>1. x.meta.ok => Covered(Needed)
    BY DEF PackageInv
  <2>2. x.at \notin Announced /\ x.at \notin Pending
    BY DEF Announced, Pending
  <2> HIDE DEF x
  <2> QED
    BY <2>1, <2>2 DEF Sound
<1> HIDE DEF x
<1> QED
  BY <1>1, <1>3, <1>4, <1>5, <1>6, <1>7, OneInv, SameAdds, SentKept DEF PackageInv, Typed

(* A record with another phase, and what is known of it. *)
LEMMA BusySound ==
    ASSUME PackageInv, NEW a \in Actors, tx[a].at # "idle" \/ tx[a] # Idle
    PROVE  /\ tx[a] \in Records /\ Sound(tx[a])
           /\ AtLeast(Latest, tx[a].files) /\ AtLeast(Latest, tx[a].began)
           /\ tx[a].meta.zip \/ tx[a].at \in Announced => disk.state # "none"
PROOF
<1>1. tx[a] \in Records
  BY Busy DEF PackageInv
<1> DEFINE q == tx[a]
<1>2. Sound(q)
  <2> HIDE DEF q
  <2> SUFFICES ASSUME NEW p \in Records, tx[a] = p PROVE Sound(p)
    BY <1>1 DEF q
  <2> QED
    BY DEF PackageInv, Claims
<1> QED
  BY <1>1, <1>2, Busy DEF PackageInv, Announced

LEMMA ReuseInv ==
    ASSUME PackageInv, NEW r \in Actors, Reuse(r)
    PROVE  PackageInv'
PROOF
<1> DEFINE q == tx[r]
<1> DEFINE x == [q EXCEPT !.at = "prepared", !.reused = TRUE, !.ok = q.meta.ok]
<1>1. /\ q.at = "loaded" /\ disk.state # "none"
      /\ tx' = [tx EXCEPT ![r] = x] /\ UNCHANGED <<art, disk, meta, sent, overlap>>
  BY DEF Reuse, Reusable, PackageInv, Typed
<1>2. q \in Records /\ Sound(q) /\ AtLeast(Latest, q.files) /\ AtLeast(Latest, q.began)
  BY <1>1, BusySound
<1> HIDE DEF q
<1>3. /\ x \in Records /\ x.at = "prepared" /\ x.reused = TRUE /\ x.ok = q.meta.ok
      /\ x.files = q.files /\ x.began = q.began /\ x.meta = q.meta
  BY <1>2 DEF Records, Metas, Steps
<1> HIDE DEF x
<1>4. Sound(x) /\ x.at \notin Pending
  BY <1>2, <1>3 DEF Sound, Pending
<1> QED
  BY <1>1, <1>2, <1>3, <1>4, OneInv, SameAdds, SentKept DEF PackageInv, Typed

LEMMA MustExportInv ==
    ASSUME PackageInv, NEW r \in Actors, MustExport(r)
    PROVE  PackageInv'
PROOF
<1> DEFINE q == tx[r]
<1> DEFINE x == [q EXCEPT !.at = "export"]
<1>1. /\ q.at = "loaded"
      /\ tx' = [tx EXCEPT ![r] = x] /\ UNCHANGED <<art, disk, meta, sent, overlap>>
  BY DEF MustExport, PackageInv, Typed
<1>2. /\ q \in Records /\ Sound(q) /\ AtLeast(Latest, q.files) /\ AtLeast(Latest, q.began)
      /\ q.meta.zip => disk.state # "none"
  BY <1>1, BusySound
<1> HIDE DEF q
<1>3. /\ x \in Records /\ x.at = "export"
      /\ x.files = q.files /\ x.began = q.began /\ x.meta = q.meta
  BY <1>2 DEF Records, Steps
<1> HIDE DEF x
<1>4. Sound(x) /\ x.at \notin Pending /\ x.at \notin Announced
  BY <1>2, <1>3 DEF Sound, Pending, Announced
<1> QED
  BY <1>1, <1>2, <1>3, <1>4, OneInv, SameAdds, SentKept DEF PackageInv, Typed

LEMMA SelectInv ==
    ASSUME PackageInv, NEW a \in Actors, Select(a)
    PROVE  PackageInv'
PROOF
<1> DEFINE q == tx[a]
<1> DEFINE x == [q EXCEPT !.at = "selected", !.files = Latest, !.ok = Complete(Latest), !.met = FALSE]
<1>0. [k \in Kinds |-> Versions(k)] = Latest
  BY DEF Versions, Latest
<1>1. /\ q.at = "export"
      /\ tx' = [tx EXCEPT ![a] = x] /\ UNCHANGED <<art, disk, meta, sent, overlap>>
  BY <1>0 DEF Select, PackageInv, Typed
<1>2. /\ q \in Records /\ Sound(q) /\ AtLeast(Latest, q.files) /\ AtLeast(Latest, q.began)
      /\ q.meta.zip => disk.state # "none"
  BY <1>1, BusySound
<1>3. Latest \in Versioned /\ AtLeast(Latest, Latest)
  BY LatestTyped, AtLeastSelf DEF PackageInv
<1>4. Complete(Latest) \in BOOLEAN
  BY DEF Complete
<1> HIDE DEF q
<1>5. /\ x \in Records /\ x.at = "selected" /\ x.ok = Complete(Latest)
      /\ x.files = Latest /\ x.began = q.began /\ x.meta = q.meta
  BY <1>2, <1>3, <1>4 DEF Records, Steps
<1> HIDE DEF x
<1>6. x.ok => AtLeast(x.files, Needed)
  BY <1>3, <1>5, NeededFacts
<1>7. Sound(x) /\ x.at \notin Announced
  BY <1>2, <1>5, <1>6 DEF Sound, Pending, Announced
<1> QED
  BY <1>1, <1>2, <1>3, <1>5, <1>7, OneInv, SameAdds, SentKept DEF PackageInv, Typed

LEMMA FlushInv ==
    ASSUME PackageInv, NEW r \in Actors, Flush(r)
    PROVE  PackageInv'
PROOF
<1> DEFINE q == tx[r]
<1> DEFINE x == [q EXCEPT !.at = "flushed"]
<1>1. /\ q.at = "prepared"
      /\ tx' = [tx EXCEPT ![r] = x] /\ UNCHANGED <<art, disk, meta, sent, overlap>>
  BY DEF Flush, PackageInv, Typed
<1>2. /\ q \in Records /\ Sound(q) /\ AtLeast(Latest, q.files) /\ AtLeast(Latest, q.began)
      /\ disk.state # "none"
  BY <1>1, BusySound DEF Announced
<1> HIDE DEF q
<1>3. /\ x \in Records /\ x.at = "flushed" /\ x.ok = q.ok /\ x.reused = q.reused
      /\ x.files = q.files /\ x.began = q.began /\ x.meta = q.meta
  BY <1>2 DEF Records, Steps
<1> HIDE DEF x
<1>4. Sound(x) /\ x.at \notin Pending
  BY <1>1, <1>2, <1>3 DEF Sound, Pending, Announced
<1> QED
  BY <1>1, <1>2, <1>3, <1>4, OneInv, SameAdds, SentKept DEF PackageInv, Typed

LEMMA PostInv ==
    ASSUME PackageInv, NEW r \in Actors, Post(r)
    PROVE  PackageInv'
PROOF
<1> DEFINE q == tx[r]
<1> DEFINE x == [q EXCEPT !.at = "posted"]
<1> DEFINE u == [files |-> disk.files, state |-> disk.state, overlap |-> overlap,
                 ok |-> q.ok, reused |-> q.reused, began |-> q.began]
<1>1. /\ q.at = "flushed" /\ sent' = {u}
      /\ tx' = [tx EXCEPT ![r] = x] /\ UNCHANGED <<art, disk, meta, overlap>>
  BY DEF Post, PackageInv, Typed
<1>2. /\ q \in Records /\ Sound(q) /\ AtLeast(Latest, q.files) /\ AtLeast(Latest, q.began)
      /\ disk.state # "none"
  BY <1>1, BusySound DEF Announced
<1> HIDE DEF q
<1>3. /\ x \in Records /\ x.at = "posted" /\ x.ok = q.ok /\ x.reused = q.reused
      /\ x.files = q.files /\ x.began = q.began /\ x.meta = q.meta
  BY <1>2 DEF Records, Steps
<1>5. /\ u.files = disk.files /\ u.overlap = overlap /\ u.ok = q.ok
      /\ u.reused = q.reused /\ u.began = q.began
  OBVIOUS
<1> HIDE DEF x, u
<1>4. Sound(x) /\ x.at \notin Pending
  BY <1>1, <1>2, <1>3 DEF Sound, Pending, Announced
<1>6. UploadsComplete'
  <2>1. u.ok => u.overlap \/ AtLeast(u.files, Needed)
    BY <1>1, <1>2, <1>5 DEF Sound, Announced, Covered
  <2>2. u.files \in Versioned
    BY <1>5 DEF PackageInv, Typed
  <2>3. u.ok => u.overlap \/ Complete(u.files)
    BY <2>1, <2>2, NeededFacts
  <2> QED
    BY <1>1, <2>3 DEF UploadsComplete, Complete
<1>7. UploadsFresh'
  <2>1. ~u.reused => u.overlap \/ AtLeast(u.files, u.began)
    BY <1>1, <1>2, <1>5 DEF Sound, Announced, Covered
  <2> QED
    BY <1>1, <2>1 DEF UploadsFresh, AtLeast
<1> QED
  BY <1>1, <1>2, <1>3, <1>4, <1>6, <1>7, OneInv, SameAdds DEF PackageInv, Typed

(* A request or a job ends; spec_json may have been written. *)
LEMMA EndInv ==
    ASSUME PackageInv, NEW a \in Actors, tx' = [tx EXCEPT ![a] = Idle], Adds,
           meta' \in Metas, meta'.zip => disk.state # "none", meta'.ok => Covered(Needed),
           UNCHANGED <<disk, sent, overlap>>
    PROVE  PackageInv'
PROOF
<1>1. Idle \in Records \cup {Idle} /\ Idle.at \notin Pending
  BY IdleFacts DEF Pending
<1> QED
  BY <1>1, OneInv, SentKept

LEMMA CommitUploadInv ==
    ASSUME PackageInv, NEW r \in Actors, CommitUpload(r)
    PROVE  PackageInv'
PROOF
<1> DEFINE q == tx[r]
<1>1. /\ q.at \in {"flushed", "posted"} /\ meta' = [zip |-> TRUE, ok |-> q.ok]
      /\ tx' = [tx EXCEPT ![r] = Idle] /\ UNCHANGED <<art, disk, sent, overlap>>
  BY DEF CommitUpload
<1>2. q \in Records /\ Sound(q) /\ disk.state # "none"
  BY <1>1, BusySound DEF Announced
<1> HIDE DEF q
<1>3. meta'.ok => Covered(Needed)
  BY <1>1, <1>2 DEF Sound, Announced
<1>4. meta' \in Metas
  BY <1>1, <1>2 DEF Metas, Records
<1> QED
  BY <1>1, <1>2, <1>3, <1>4, EndInv, SameAdds DEF PackageInv

LEMMA OtherInv ==
    ASSUME PackageInv, NEW r \in Actors, Other(r)
    PROVE  PackageInv'
PROOF
<1> DEFINE q == tx[r]
<1>1. /\ q.at = "loaded" /\ meta' = q.meta
      /\ tx' = [tx EXCEPT ![r] = Idle] /\ UNCHANGED <<art, disk, sent, overlap>>
  BY DEF Other
<1>2. q \in Records /\ Sound(q) /\ (q.meta.zip => disk.state # "none")
  BY <1>1, BusySound
<1> HIDE DEF q
<1>3. meta' \in Metas /\ (meta'.ok => Covered(Needed))
  BY <1>1, <1>2 DEF Sound, Metas, Records
<1> QED
  BY <1>1, <1>2, <1>3, EndInv, SameAdds DEF PackageInv

LEMMA OpenInv ==
    ASSUME PackageInv, NEW r \in Actors, Open(r)
    PROVE  PackageInv'
PROOF
<1> DEFINE q == tx[r]
<1> DEFINE x == [q EXCEPT !.at = "open", !.files = disk.files, !.met = FALSE]
<1>1. /\ q.at = "loaded"
      /\ tx' = [tx EXCEPT ![r] = x] /\ UNCHANGED <<art, disk, meta, sent, overlap>>
  BY DEF Open, PackageInv, Typed
<1>2. /\ q \in Records /\ Sound(q) /\ AtLeast(Latest, q.began)
      /\ q.meta.zip => disk.state # "none"
  BY <1>1, BusySound
<1>0. disk.files \in Versioned /\ AtLeast(Latest, disk.files)
  BY DEF PackageInv, Typed
<1> HIDE DEF q
<1>3. /\ x \in Records /\ x.at = "open"
      /\ x.files = disk.files /\ x.began = q.began /\ x.meta = q.meta
  BY <1>0, <1>2 DEF Records, Steps
<1> HIDE DEF x
<1>4. Sound(x) /\ x.at \notin Pending /\ x.at \notin Announced
  BY <1>2, <1>3 DEF Sound, Pending, Announced
<1> QED
  BY <1>0, <1>1, <1>2, <1>3, <1>4, OneInv, SameAdds, SentKept DEF PackageInv, Typed

LEMMA FailInv ==
    ASSUME PackageInv, NEW a \in Actors, Fail(a)
    PROVE  PackageInv'
PROOF
<1>1. tx' = [tx EXCEPT ![a] = Idle] /\ UNCHANGED <<art, disk, meta, sent, overlap>>
  BY DEF Fail
<1> QED
  BY <1>1, EndInv, SameAdds DEF PackageInv, Typed

-----------------------------------------------------------------------------
(* Imports. *)

LEMMA KindFacts ==
    ASSUME NEW k \in Kinds
    PROVE  /\ k \in {"statement", "std", "brute", "checker", "interactor", "gen", "protocol"}
           /\ \E j \in 1..8 : Archive[j] = k
           /\ Len(Archive) = 8
PROOF
<1>1. DOMAIN Archive = 1..8 /\ Len(Archive) = 8
  BY DEF Archive
<1>2. PICK j \in DOMAIN Archive : k = Archive[j]
  BY KindsAssumption
<1>3. Archive[j] \in {"statement", "std", "brute", "checker", "interactor", "gen", "protocol"}
  BY <1>1, <1>2 DEF Archive
<1> QED
  BY <1>1, <1>2, <1>3

LEMMA ImportedTyped ==
    ASSUME NEW k \in Kinds, NEW a \in Artifacts
    PROVE  Imported(k, a) \in Artifacts
PROOF
<1>1. Extension(k, a.lang) \in Languages
  BY KindFacts DEF Extension, Languages
<1>2. Language(k, Extension(k, a.lang)) \in Languages
  BY <1>1 DEF Language
<1>3. a.text \in DOMAIN Markup /\ Markup[a.text] \in DOMAIN Markup
  BY MarkupAssumption DEF Artifacts
<1> HIDE DEF Languages
<1> QED
  BY <1>2, <1>3 DEF Imported, Artifacts

LEMMA TimesTyped ==
    ASSUME NEW n \in 0..8, NEW k
    PROVE  IsFiniteSet({j \in 1..n : Archive[j] = k}) /\ Times(k, n) \in Nat
PROOF
<1>1. IsFiniteSet(1..n)
  BY FS_Interval
<1>2. IsFiniteSet({j \in 1..n : Archive[j] = k})
  BY <1>1, FS_Subset
<1> QED
  BY <1>2, FS_CardinalityType DEF Times

LEMMA TimesPositive ==
    ASSUME NEW k \in Kinds
    PROVE  Times(k, 8) \in Nat \ {0}
PROOF
<1>1. PICK n \in 0..8 : n = 8
  OBVIOUS
<1>2. IsFiniteSet({j \in 1..n : Archive[j] = k}) /\ Times(k, n) \in Nat
  BY TimesTyped
<1>3. {j \in 1..n : Archive[j] = k} # {}
  BY <1>1, KindFacts
<1>4. Times(k, n) # 0
  BY <1>2, <1>3, FS_EmptySet DEF Times
<1> QED
  BY <1>1, <1>2, <1>4

(* The copies that an import adds. *)
Copies(k, a, times) == [i \in 1..times |-> Imported(k, a)]

LEMMA ImportAdds ==
    ASSUME PackageInv, NEW r \in Actors, Import(r)
    PROVE  Adds
PROOF
<1>1. tx[r].at = "open"
  BY DEF Import
<1>2. tx[r] \in Records /\ AtLeast(Latest, tx[r].files)
  BY <1>1, BusySound
<1>3. PICK n \in 0..8 : art' = ImportedFiles(r, n)
  <2>1. \E n \in (IF tx[r].met THEN 0..Len(Archive) ELSE {Len(Archive)}) : art' = ImportedFiles(r, n)
    BY DEF Import
  <2>2. Len(Archive) = 8
    BY DEF Archive
  <2>3. (IF tx[r].met THEN 0..Len(Archive) ELSE {Len(Archive)}) \subseteq 0..8
    BY <2>2
  <2> QED
    BY <2>1, <2>3
<1>4. ASSUME NEW k \in Kinds PROVE \E s \in Seq(Artifacts) : art'[k] = art[k] \o s
  <2>1. art[k] \in Seq(Artifacts)
    BY DEF PackageInv, Typed
  <2>2. CASE tx[r].files[k] = 0
    <3>1. art'[k] = art[k]
      BY <1>3, <2>2 DEF ImportedFiles
    <3>2. art[k] \o << >> = art[k] /\ << >> \in Seq(Artifacts)
      BY <2>1, ConcatEmptySeq
    <3> QED
      BY <3>1, <3>2
  <2>3. CASE tx[r].files[k] # 0
    <3> DEFINE v == tx[r].files[k]
    <3> DEFINE times == Times(k, n)
    <3>1. v \in 1..Len(art[k])
      <4>1. v \in Nat /\ v <= Len(art[k])
        BY <1>2 DEF Records, Versioned, AtLeast, Latest
      <4>2. Len(art[k]) \in Nat
        BY <2>1, LenProperties
      <4> QED
        BY <2>3, <4>1, <4>2
    <3>2. art[k][v] \in Artifacts
      BY <2>1, <3>1, ElementOfSeq
    <3>3. times \in Nat
      BY TimesTyped
    <3>4. art'[k] = art[k] \o Copies(k, art[k][v], times)
      BY <1>3, <2>3 DEF Copies, ImportedFiles
    <3> HIDE DEF v, times
    <3>5. Copies(k, art[k][v], times) \in Seq(Artifacts)
      BY <3>2, <3>3, ImportedTyped DEF Copies
    <3> QED
      BY <3>4, <3>5
  <2> QED
    BY <2>2, <2>3
<1>5. art' = [k \in Kinds |-> art'[k]]
  BY <1>3 DEF ImportedFiles
<1> QED
  BY <1>4, <1>5, MoreAdds DEF PackageInv

LEMMA ImportInv ==
    ASSUME PackageInv, NEW r \in Actors, Import(r)
    PROVE  PackageInv'
PROOF
<1> DEFINE q == tx[r]
<1>1. /\ q.at = "open" /\ meta' = q.meta
      /\ tx' = [tx EXCEPT ![r] = Idle] /\ UNCHANGED <<disk, sent, overlap>>
  BY DEF Import
<1>2. q \in Records /\ Sound(q) /\ (q.meta.zip => disk.state # "none")
  BY <1>1, BusySound
<1> HIDE DEF q
<1>3. meta' \in Metas /\ (meta'.ok => Covered(Needed))
  BY <1>1, <1>2 DEF Sound, Metas, Records
<1> QED
  BY <1>1, <1>2, <1>3, EndInv, ImportAdds

LEMMA LastOfConcat ==
    ASSUME NEW S, NEW s \in Seq(S), NEW t \in Seq(S), Len(t) \in Nat \ {0}
    PROVE  Len(s \o t) = Len(s) + Len(t) /\ (s \o t)[Len(s) + Len(t)] = t[Len(t)]
PROOF
<1>1. Len(s) \in Nat
  BY LenProperties
<1>2. Len(s) + Len(t) \in 1..Len(s) + Len(t) /\ ~(Len(s) + Len(t) <= Len(s))
  BY <1>1
<1>3. (Len(s) + Len(t)) - Len(s) = Len(t)
  BY <1>1
<1> QED
  BY <1>2, <1>3, ConcatProperties

(* RoundTrip, for one step. *)
LEMMA ImportRound ==
    ASSUME PackageInv, NEW r \in Actors, Import(r), ~tx[r].met,
           NEW k \in Kinds, tx[r].files[k] > 0, Survives(k, art[k][tx[r].files[k]])
    PROVE  art'[k][Len(art'[k])] = art[k][tx[r].files[k]]
PROOF
<1> DEFINE v == tx[r].files[k]
<1> DEFINE a == art[k][v]
<1> DEFINE times == Times(k, 8)
<1>1. tx[r].at = "open" /\ Len(Archive) = 8
  BY DEF Import, Archive
<1>2. tx[r] \in Records /\ AtLeast(Latest, tx[r].files)
  BY <1>1, BusySound
<1>3. art'[k] = art[k] \o Copies(k, a, times)
  <2>1. \E n \in (IF tx[r].met THEN 0..Len(Archive) ELSE {Len(Archive)}) : art' = ImportedFiles(r, n)
    BY DEF Import
  <2>2. art' = ImportedFiles(r, 8)
    BY <1>1, <2>1
  <2>3. tx[r].files[k] # 0
    BY <1>1, BusySound DEF Records, Versioned
  <2> QED
    BY <2>2, <2>3 DEF ImportedFiles, Copies
<1>4. art[k] \in Seq(Artifacts) /\ Len(art[k]) \in Nat
  BY LenProperties DEF PackageInv, Typed
<1>5. v \in 1..Len(art[k])
  BY <1>2, <1>4 DEF Records, Versioned, AtLeast, Latest
<1>6. a \in Artifacts
  BY <1>4, <1>5, ElementOfSeq
<1>7. times \in Nat \ {0}
  BY TimesPositive
<1>8. Survives(k, a)
  OBVIOUS
<1> HIDE DEF v, a, times
<1>9. Copies(k, a, times) \in Seq(Artifacts) /\ Len(Copies(k, a, times)) = times
  BY <1>6, <1>7, ImportedTyped DEF Copies
<1>10. Copies(k, a, times)[times] = Imported(k, a)
  BY <1>7 DEF Copies
<1>11. Imported(k, a) = a
  <2>1. Language(k, Extension(k, a.lang)) = a.lang
    BY <1>8, KindFacts DEF Survives, Extension, Language
  <2>2. (IF k = "statement" THEN Markup[a.text] ELSE a.text) = a.text
    BY <1>8 DEF Survives
  <2>3. a = [text |-> a.text, lang |-> a.lang]
    BY <1>6 DEF Artifacts
  <2> QED
    BY <2>1, <2>2, <2>3 DEF Imported
<1>12. /\ Len(art'[k]) = Len(art[k]) + times
       /\ art'[k][Len(art[k]) + times] = Copies(k, a, times)[times]
  BY <1>3, <1>4, <1>7, <1>9, LastOfConcat
<1> QED
  BY <1>10, <1>11, <1>12 DEF a, v

-----------------------------------------------------------------------------
(* The steps that write the zip. *)

(* What the others have become. *)
LEMMA MetRecords ==
    ASSUME PackageInv, NEW a \in Actors, NEW states \in SUBSET Steps,
           NEW x \in Records \cup {Idle}, Met(a, states, x)
    PROVE  /\ tx' \in [Actors -> Records \cup {Idle}] /\ tx'[a] = x
           /\ \A b \in Actors \ {a} : tx'[b] # Idle =>
                 /\ tx[b] \in Records
                 /\ tx'[b].at = tx[b].at /\ tx'[b].files = tx[b].files
                 /\ tx'[b].began = tx[b].began /\ tx'[b].meta = tx[b].meta
                 /\ tx'[b].reused = tx[b].reused /\ tx'[b].ok = tx[b].ok
                 /\ tx'[b].met = tx[b].met \/ tx'[b].met = TRUE
                 /\ tx[b].at \in states => tx'[b].met = TRUE
PROOF
<1>1. tx \in [Actors -> Records \cup {Idle}]
  BY DEF PackageInv, Typed
<1>2. tx'[a] = x
  BY DEF Met
<1>3. ASSUME NEW b \in Actors \ {a}, tx[b].at \in states
      PROVE  /\ tx[b] \in Records /\ tx'[b] \in Records
             /\ tx'[b].at = tx[b].at /\ tx'[b].files = tx[b].files
             /\ tx'[b].began = tx[b].began /\ tx'[b].meta = tx[b].meta
             /\ tx'[b].reused = tx[b].reused /\ tx'[b].ok = tx[b].ok
             /\ tx'[b].met = TRUE
  <2>1. tx[b] \in Records
    BY <1>1, <1>3, IdleFacts DEF Steps, Idle
  <2>2. tx'[b] = [tx[b] EXCEPT !.met = TRUE]
    BY <1>3 DEF Met
  <2> DEFINE q == tx[b]
  <2>3. q \in Records /\ tx'[b] = [q EXCEPT !.met = TRUE]
    BY <2>1, <2>2
  <2> HIDE DEF q
  <2>4. /\ tx'[b] \in Records
        /\ tx'[b].at = q.at /\ tx'[b].files = q.files
        /\ tx'[b].began = q.began /\ tx'[b].meta = q.meta
        /\ tx'[b].reused = q.reused /\ tx'[b].ok = q.ok
        /\ tx'[b].met = TRUE
    BY <2>3 DEF Records
  <2> QED
    BY <2>1, <2>4 DEF q
<1>4. ASSUME NEW b \in Actors \ {a}, tx[b].at \notin states
      PROVE  tx'[b] = tx[b]
  BY <1>4 DEF Met
<1>5. \A b \in Actors : tx'[b] \in Records \cup {Idle}
  BY <1>1, <1>2, <1>3, <1>4
<1>6. tx' \in [Actors -> Records \cup {Idle}]
  <2>1. tx' = [b \in Actors |-> tx'[b]]
    BY DEF Met
  <2> QED
    BY <1>5, <2>1
<1> QED
  BY <1>1, <1>2, <1>3, <1>4, <1>6

LEMMA MetInv ==
    ASSUME PackageInv, NEW a \in Actors, NEW states \in SUBSET Steps,
           NEW x \in Records \cup {Idle}, Met(a, states, x),
           UNCHANGED <<art, meta, sent>>,
           disk' \in [state : States, files : Versioned], AtLeast(Latest, disk'.files),
           disk'.state # "none", disk'.state = "broken" => overlap', overlap' \in BOOLEAN,
           x # Idle => AtLeast(Latest, x.files) /\ AtLeast(Latest, x.began) /\ Sound(x)',
           Keeps
    PROVE  PackageInv'
PROOF
<1>0. /\ tx' \in [Actors -> Records \cup {Idle}] /\ tx'[a] = x
      /\ \A b \in Actors \ {a} : tx'[b] # Idle =>
            /\ tx[b] \in Records
            /\ tx'[b].at = tx[b].at /\ tx'[b].files = tx[b].files
            /\ tx'[b].began = tx[b].began /\ tx'[b].meta = tx[b].meta
            /\ tx'[b].reused = tx[b].reused /\ tx'[b].ok = tx[b].ok
            /\ tx'[b].met = tx[b].met \/ tx'[b].met = TRUE
            /\ tx[b].at \in states => tx'[b].met = TRUE
  BY MetRecords
<1>1. Latest' = Latest
  BY DEF Latest
<1>2. tx' \in [Actors -> Records \cup {Idle}] /\ tx'[a] = x
  BY <1>0
<1>3. ASSUME NEW b \in Actors, tx'[b] # Idle
      PROVE  AtLeast(Latest, tx'[b].files) /\ AtLeast(Latest, tx'[b].began)
  <2>1. CASE b = a
    BY <1>2, <1>3, <2>1
  <2>2. CASE b # a
    <3>1. /\ tx[b] \in Records
          /\ tx'[b].files = tx[b].files /\ tx'[b].began = tx[b].began
      BY <1>0, <1>3, <2>2
    <3>2. tx[b] # Idle
      BY <3>1, IdleFacts
    <3> QED
      BY <3>1, <3>2, BusySound
  <2> QED
    BY <2>1, <2>2
<1>4. Typed'
  BY <1>1, <1>2, <1>3 DEF Typed, AtLeast, PackageInv
<1>5. Claims'
  <2> SUFFICES ASSUME NEW b \in Actors, NEW q \in Records, tx'[b] = q PROVE Sound(q)'
    BY DEF Claims
  <2>1. CASE b = a
    BY <1>2, <2>1, IdleFacts
  <2>2. CASE b # a
    <3>0. PICK p \in Records : p = tx[b]
      BY <1>0, <2>2, IdleFacts
    <3>1. /\ p \in Records
          /\ q.at = p.at /\ q.files = p.files /\ q.began = p.began /\ q.meta = p.meta
          /\ q.reused = p.reused /\ q.ok = p.ok
      <4>1. b \in Actors \ {a} /\ tx'[b] # Idle
        BY <2>2, IdleFacts
      <4>2. /\ tx'[b].at = tx[b].at /\ tx'[b].files = tx[b].files
            /\ tx'[b].began = tx[b].began /\ tx'[b].meta = tx[b].meta
            /\ tx'[b].reused = tx[b].reused /\ tx'[b].ok = tx[b].ok
        BY <1>0, <4>1
      <4> QED
        BY <3>0, <4>2
    <3>2. Sound(p)
      BY <3>0, IdleFacts, BusySound
    <3>3. Sound(q)
      BY <3>1, <3>2 DEF Sound
    <3> QED
      BY <3>3, SoundKept
  <2> QED
    BY <2>1, <2>2
<1>6. meta'.ok => Covered(Needed)'
  BY NeededFacts DEF PackageInv, Keeps
<1> QED
  BY <1>4, <1>5, <1>6, SentKept DEF PackageInv

(* A finished write: everyone else who had selected has met it.             *)
LEMMA WriteCovers ==
    ASSUME PackageInv, NEW a \in Actors, NEW states \in SUBSET Steps, Pending \subseteq states,
           NEW x \in Records \cup {Idle}, Met(a, states, x), x.at \notin Pending,
           tx[a] \in Records, UNCHANGED art, disk'.files = tx[a].files, overlap' = tx[a].met,
           NEW b \in Versioned, AtLeast(Latest, b), tx[a].met \/ AtLeast(tx[a].files, b)
    PROVE  Covered(b)'
PROOF
<1>0. /\ tx' \in [Actors -> Records \cup {Idle}] /\ tx'[a] = x
      /\ \A u \in Actors \ {a} : tx'[u] # Idle =>
            /\ tx[u] \in Records
            /\ tx'[u].at = tx[u].at /\ tx'[u].files = tx[u].files
            /\ tx'[u].began = tx[u].began /\ tx'[u].meta = tx[u].meta
            /\ tx'[u].reused = tx[u].reused /\ tx'[u].ok = tx[u].ok
            /\ tx'[u].met = tx[u].met \/ tx'[u].met = TRUE
            /\ tx[u].at \in states => tx'[u].met = TRUE
  BY MetRecords
<1>1. Latest' = Latest
  BY DEF Latest
<1>2. ASSUME NEW u \in Actors, tx'[u].at \in Pending PROVE tx'[u].met
  <2>1. u # a
    BY <1>0, <1>2
  <2>2. tx'[u] # Idle
    BY <1>2, IdleFacts DEF Pending
  <2> QED
    BY <1>0, <1>2, <2>1, <2>2
<1> QED
  BY <1>1, <1>2 DEF Covered, AtLeast

LEMMA WriteKeeps ==
    ASSUME PackageInv, NEW a \in Actors, NEW states \in SUBSET Steps, Pending \subseteq states,
           NEW x \in Records \cup {Idle}, Met(a, states, x), x.at \notin Pending,
           tx[a] \in Records, tx[a].at \in Pending,
           UNCHANGED art, disk'.files = tx[a].files, overlap' = tx[a].met
    PROVE  Keeps
PROOF
<1> SUFFICES ASSUME NEW b \in Versioned, Covered(b) PROVE Covered(b)'
  BY DEF Keeps
<1>1. AtLeast(Latest, b)
  BY DEF Covered
<1>2. tx[a].met \/ AtLeast(tx[a].files, b)
  BY DEF Covered
<1> QED
  BY <1>1, <1>2, WriteCovers

LEMMA WriteInv ==
    ASSUME PackageInv, NEW r \in Actors, Write(r)
    PROVE  PackageInv'
PROOF
<1>0. PICK q \in Records : q = tx[r]
  <2>1. tx[r].at = "selected"
    BY DEF Write
  <2> QED
    BY <2>1, BusySound
<1> DEFINE x == IF q.op = "export" THEN Idle
                ELSE [q EXCEPT !.at = "prepared", !.files = Nothing, !.met = FALSE]
<1> DEFINE states == {"selected", "writing", "open"}
<1>1. /\ tx[r].at = "selected" /\ q = tx[r]
      /\ disk' = [state |-> "zip", files |-> q.files] /\ overlap' = q.met
      /\ Met(r, states, x) /\ UNCHANGED <<art, meta, sent>>
  BY <1>0 DEF Write
<1>2. /\ q \in Records /\ Sound(q)
      /\ AtLeast(Latest, q.files) /\ AtLeast(Latest, q.began)
  BY <1>0, <1>1, BusySound
<1>3. states \in SUBSET Steps /\ Pending \subseteq states
  BY DEF Steps, Pending
<1> HIDE DEF states
<1>4. Nothing \in Versioned /\ AtLeast(Latest, Nothing)
  <2>1. Latest \in Versioned
    BY LatestTyped DEF PackageInv
  <2> QED
    BY <2>1 DEF AtLeast, Nothing, Versioned
<1>5. /\ x = Idle \/ /\ x \in Records /\ x.at = "prepared" /\ x.files = Nothing
                     /\ x.began = q.began /\ x.meta = q.meta /\ x.ok = q.ok
      /\ x \in Records \cup {Idle} /\ x.at \notin Pending
  BY <1>2, <1>4, IdleFacts DEF Records, Steps, Pending
<1> HIDE DEF x
<1>6. Keeps
  BY <1>1, <1>2, <1>3, <1>5, WriteKeeps DEF Pending
<1>7. ASSUME NEW b \in Versioned, AtLeast(q.files, b) PROVE Covered(b)'
  <2>1. AtLeast(Latest, b)
    <3>1. Latest \in Versioned /\ q.files \in Versioned
      BY <1>2, LatestTyped DEF PackageInv, Records
    <3> QED
      BY <1>2, <1>7, <3>1, AtLeastAll
  <2> QED
    BY <1>1, <1>2, <1>3, <1>5, <1>7, <2>1, WriteCovers
<1>8. x # Idle => AtLeast(Latest, x.files) /\ AtLeast(Latest, x.began) /\ Sound(x)'
  <2> SUFFICES ASSUME x # Idle
               PROVE AtLeast(Latest, x.files) /\ AtLeast(Latest, x.began) /\ Sound(x)'
    OBVIOUS
  <2>1. AtLeast(q.files, q.began) /\ (q.ok => AtLeast(q.files, Needed))
    BY <1>1, <1>2 DEF Sound, Pending
  <2>2. q.began \in Versioned /\ Needed \in Versioned
    BY <1>2, NeededFacts DEF Records
  <2>3. Covered(q.began)' /\ (q.ok => Covered(Needed)')
    BY <1>7, <2>1, <2>2
  <2>4. q.meta.ok => Covered(Needed)'
    BY <1>2, <1>6, <2>2 DEF Sound, Keeps
  <2>5. x.meta.ok => Covered(Needed)'
    BY <1>5, <2>4
  <2>6. x.ok => Covered(Needed)'
    BY <1>5, <2>3
  <2>7. x.began = q.began /\ x.at \notin Pending
    BY <1>5
  <2>8. Sound(x)'
    BY <2>3, <2>5, <2>6, <2>7 DEF Sound
  <2> QED
    BY <1>2, <1>4, <1>5, <2>8
<1>9. /\ disk' \in [state : States, files : Versioned] /\ AtLeast(Latest, disk'.files)
      /\ disk'.state # "none" /\ (disk'.state = "broken" => overlap') /\ overlap' \in BOOLEAN
  BY <1>1, <1>2 DEF Records, States
<1> QED
  BY <1>1, <1>3, <1>5, <1>6, <1>8, <1>9, MetInv

LEMMA FillInv ==
    ASSUME PackageInv, NEW w \in Actors, Fill(w)
    PROVE  PackageInv'
PROOF
<1> DEFINE q == tx[w]
<1> DEFINE states == {"selected", "writing", "open"}
<1>1. PICK state \in {"zip"} \cup (IF tx[w].met THEN {"broken"} ELSE {}) :
          disk' = [state |-> state, files |-> tx[w].files]
  BY DEF Fill
<1>2. /\ tx[w].at = "writing" /\ q = tx[w] /\ overlap' = q.met
      /\ Met(w, states, Idle) /\ UNCHANGED <<art, meta, sent>>
  BY DEF Fill
<1>3. q \in Records /\ AtLeast(Latest, q.files)
  BY <1>2, BusySound
<1>4. states \in SUBSET Steps /\ Pending \subseteq states
  BY DEF Steps, Pending
<1> HIDE DEF q, states
<1>5. Idle \in Records \cup {Idle} /\ Idle.at \notin Pending
  BY IdleFacts DEF Pending
<1>6. Keeps
  BY <1>1, <1>2, <1>3, <1>4, <1>5, WriteKeeps DEF Pending
<1>7. /\ disk' \in [state : States, files : Versioned] /\ AtLeast(Latest, disk'.files)
      /\ disk'.state # "none" /\ (disk'.state = "broken" => overlap') /\ overlap' \in BOOLEAN
  BY <1>1, <1>2, <1>3 DEF Records, States
<1> QED
  BY <1>2, <1>4, <1>5, <1>6, <1>7, MetInv

(* The file is emptied: nothing that is known of its versions changes.      *)
LEMMA TruncateInv ==
    ASSUME PackageInv, NEW w \in Actors, Truncate(w)
    PROVE  PackageInv'
PROOF
<1>0. PICK q \in Records : q = tx[w]
  <2>1. tx[w].at = "selected"
    BY DEF Truncate
  <2> QED
    BY <2>1, BusySound
<1> DEFINE x == [q EXCEPT !.at = "writing"]
<1> DEFINE states == {"open"}
<1>1. /\ tx[w].at = "selected" /\ q = tx[w] /\ disk' = [disk EXCEPT !.state = "partial"]
      /\ Met(w, states, x) /\ UNCHANGED <<art, meta, sent, overlap>>
  BY <1>0 DEF Truncate
<1>2. /\ q \in Records /\ Sound(q)
      /\ AtLeast(Latest, q.files) /\ AtLeast(Latest, q.began)
  BY <1>0, <1>1, BusySound
<1>3. states \in SUBSET Steps
  BY DEF Steps
<1> HIDE DEF states
<1>4. /\ x \in Records /\ x.at = "writing" /\ x.files = q.files /\ x.began = q.began
      /\ x.meta = q.meta /\ x.ok = q.ok /\ x.met = q.met
  BY <1>2 DEF Records, Steps
<1> HIDE DEF x
<1>5. Sound(x)
  BY <1>1, <1>2, <1>4 DEF Sound, Pending, Announced
<1>6. /\ disk' \in [state : States, files : Versioned] /\ disk'.files = disk.files
      /\ AtLeast(Latest, disk'.files) /\ disk'.state = "partial" /\ overlap' \in BOOLEAN
  BY <1>1 DEF PackageInv, Typed, States
<1>7. Keeps
  <2> SUFFICES ASSUME NEW b \in Versioned, Covered(b) PROVE Covered(b)'
    BY DEF Keeps
  <2>1. Latest' = Latest
    BY <1>1 DEF Latest
  <2>2. ASSUME NEW u \in Actors, tx'[u].at \in Pending, ~tx'[u].met
        PROVE  AtLeast(tx'[u].files, b)
    <3>1. CASE u = w
      <4>1. tx'[u] = x
        BY <1>1, <3>1 DEF Met
      <4>2. tx[u].at \in Pending /\ ~tx[u].met /\ tx'[u].files = tx[u].files
        BY <1>1, <1>4, <2>2, <3>1, <4>1 DEF Pending
      <4> QED
        BY <4>2 DEF Covered
    <3>2. CASE u # w
      <4>1. tx'[u] # Idle
        BY <2>2, IdleFacts DEF Pending
      <4>2. tx'[u].at = tx[u].at /\ tx'[u].files = tx[u].files /\ tx'[u].met = tx[u].met
        BY <1>1, <1>3, <1>4, <2>2, <3>2, <4>1, MetRecords
      <4> QED
        BY <2>2, <4>2 DEF Covered
    <3> QED
      BY <3>1, <3>2
  <2> QED
    BY <1>1, <1>6, <2>1, <2>2 DEF Covered, AtLeast
<1>8. Sound(x)'
  BY <1>4, <1>5, <1>7, SoundKept
<1> QED
  BY <1>1, <1>2, <1>3, <1>4, <1>6, <1>7, <1>8, MetInv

-----------------------------------------------------------------------------
(* All steps. *)

LEMMA StutterInv ==
    ASSUME PackageInv, UNCHANGED vars
    PROVE  PackageInv'
PROOF
<1> QED
  BY DEF PackageInv, Typed, Claims, Sound, Covered, AtLeast, Latest, vars,
         UploadsComplete, UploadsFresh, Complete

LEMMA NextInv ==
    ASSUME PackageInv, [Next]_vars
    PROVE  PackageInv'
PROOF
<1>1. \A w \in Workers : w \in Actors
  BY DEF Actors
<1>2. \A r \in Requests : r \in Actors
  BY DEF Actors
<1>3. "export" \in Ops
  BY DEF Ops
<1>4. CASE \E k \in Kinds : \E a \in Stored[k] : Save(k, a)
  BY <1>4, SaveInv
<1>5. CASE \E w \in Workers : Start(w, "export") \/ Truncate(w) \/ Fill(w)
  BY <1>1, <1>3, <1>5, StartInv, TruncateInv, FillInv
<1>6. ASSUME NEW r \in Requests, NEW op \in Ops, Start(r, op) PROVE PackageInv'
  BY <1>2, <1>6, StartInv
<1>7. ASSUME NEW r \in Requests, Reuse(r) \/ MustExport(r) \/ Write(r) \/ Flush(r) \/ Post(r)
      PROVE  PackageInv'
  BY <1>2, <1>7, ReuseInv, MustExportInv, WriteInv, FlushInv, PostInv
<1>8. ASSUME NEW r \in Requests, CommitUpload(r) \/ Other(r) \/ Open(r) \/ Import(r)
      PROVE  PackageInv'
  BY <1>2, <1>8, CommitUploadInv, OtherInv, OpenInv, ImportInv
<1>9. CASE \E a \in Actors : Select(a) \/ Fail(a)
  BY <1>9, SelectInv, FailInv
<1>10. CASE UNCHANGED vars
  BY <1>10, StutterInv
<1> QED
  BY <1>4, <1>5, <1>6, <1>7, <1>8, <1>9, <1>10 DEF Next

LEMMA InvTypeOK == PackageInv => TypeOK
PROOF
<1> SUFFICES ASSUME PackageInv PROVE TypeOK
  OBVIOUS
<1>1. ASSUME NEW f \in Versioned, AtLeast(Latest, f), NEW k \in Kinds PROVE f[k] \in 0..Len(art[k])
  <2>1. f[k] \in Nat /\ f[k] <= Len(art[k])
    BY <1>1 DEF Versioned, AtLeast, Latest
  <2>2. Len(art[k]) \in Nat
    <3>1. art[k] \in Seq(Artifacts)
      BY DEF PackageInv, Typed
    <3> QED
      BY <3>1, LenProperties
  <2> QED
    BY <2>1, <2>2
<1>2. \A k \in Kinds : art[k] \in Seq(Artifacts) /\ disk.files[k] \in 0..Len(art[k])
  <2>1. disk.files \in Versioned /\ AtLeast(Latest, disk.files)
    BY DEF PackageInv, Typed
  <2> QED
    BY <1>1, <2>1 DEF PackageInv, Typed
<1>3. ASSUME NEW a \in Actors, tx[a] # Idle
      PROVE  tx[a].op \in Ops /\ \A k \in Kinds : tx[a].files[k] \in 0..Len(art[k])
  <2>1. tx[a] \in Records /\ AtLeast(Latest, tx[a].files)
    BY <1>3, BusySound
  <2>2. tx[a].op \in Ops /\ tx[a].files \in Versioned
    BY <2>1 DEF Records
  <2> QED
    BY <1>1, <2>1, <2>2
<1>4. /\ disk.state \in {"none", "partial", "zip", "broken"}
      /\ disk.state = "broken" => overlap
      /\ meta \in [zip : BOOLEAN, ok : BOOLEAN]
      /\ meta.zip => disk.state # "none"
  BY DEF PackageInv, Typed, States, Metas
<1> QED
  BY <1>2, <1>3, <1>4 DEF TypeOK

(* The invariant that the theorems rest on: artifacts are only added, so    *)
(* what a request knows of the package stays true, unless writes overlap.   *)
THEOREM PackageInvariant == Spec => []PackageInv
PROOF
<1>1. PackageInv /\ [Next]_vars => PackageInv'
  BY NextInv
<1> QED
  BY InitInv, <1>1, PTL DEF Spec

(* The versions in the zip and of every request exist, a broken zip was     *)
(* written by exports that overlapped, and an announced zip is there        *)
(* (polygon/export.py, polygon/upload.py).                                  *)
THEOREM TypeCorrect == Spec => []TypeOK
PROOF
  BY PackageInvariant, InvTypeOK, PTL

(* A package posted as ok is complete, however long ago what says so was    *)
(* loaded (polygon/upload.py).                                              *)
THEOREM CompleteUploads == Spec => []UploadsComplete
PROOF
<1>1. PackageInv => UploadsComplete
  BY DEF PackageInv
<1> QED
  BY PackageInvariant, <1>1, PTL

(* A package exported for its upload is not older than the upload           *)
(* (polygon/upload.py, polygon/export.py).                                  *)
THEOREM FreshUploads == Spec => []UploadsFresh
PROOF
<1>1. PackageInv => UploadsFresh
  BY DEF PackageInv
<1> QED
  BY PackageInvariant, <1>1, PTL

(* What goes through the zip and back is the latest version after an import *)
(* of a zip that nobody rewrites meanwhile (polygon/import_zip.py).         *)
THEOREM RoundTripHolds == Spec => RoundTrip
PROOF
<1> DEFINE Step ==
      \A r \in Requests :
          Import(r) /\ ~tx[r].met =>
             \A k \in Kinds :
                LET v == tx[r].files[k] IN
                v > 0 /\ Survives(k, art[k][v]) => art'[k][Len(art'[k])] = art[k][v]
<1>1. PackageInv /\ [Next]_vars => [Step]_vars
  <2> SUFFICES ASSUME PackageInv,
                      NEW r \in Requests, Import(r), ~tx[r].met,
                      NEW k \in Kinds, tx[r].files[k] > 0, Survives(k, art[k][tx[r].files[k]])
               PROVE  art'[k][Len(art'[k])] = art[k][tx[r].files[k]]
    OBVIOUS
  <2> QED
    BY ImportRound DEF Actors
<1> QED
  BY <1>1, PackageInvariant, PTL DEF Spec, RoundTrip
=============================================================================
