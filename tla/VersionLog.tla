----------------------------- MODULE VersionLog -----------------------------
(***************************************************************************)
(* What the versions of one artifact promise to a reader: a log. Versions  *)
(* are numbered 1, 2, 3, ... without a gap, saving only appends, and a     *)
(* version that has been read keeps its content, unless the artifact is    *)
(* one that every start of the API seeds again: then a version may get the *)
(* seeded text, one at a time. With Seeded = {} the log is append-only.    *)
(***************************************************************************)
EXTENDS Naturals, Sequences

CONSTANTS Contents, Seeded

VARIABLE log

Init == log \in Seq(Contents)

(* One commit appends the saves of one transaction. *)
Extend ==
    /\ log' \in Seq(Contents)
    /\ Len(log) <= Len(log')
    /\ \A v \in 1..Len(log) : log'[v] = log[v]

(* A start of the API overwrites one version in place. *)
Reseed == \E v \in 1..Len(log), c \in Seeded : log' = [log EXCEPT ![v] = c]

Spec == Init /\ [][Extend \/ Reseed]_log
=============================================================================
