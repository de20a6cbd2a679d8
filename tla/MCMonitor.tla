----------------------------- MODULE MCMonitor ------------------------------
EXTENDS Monitor, TLC
CONSTANTS p, all
MCFollows == [s \in Streams |-> IF s = all THEN Subjects ELSE {p}]
=============================================================================
