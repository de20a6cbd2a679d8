------------------------------- MODULE MCJobs -------------------------------
(* Model values for Jobs. Jobs that are neither in Poison nor in Logging    *)
(* are interchangeable, and so are clients and workers.                     *)
EXTENDS Jobs, TLC
WorkSymmetry ==
    Permutations(Jobs \ (Poison \cup Logging)) \cup Permutations(Clients) \cup Permutations(Workers)
=============================================================================
