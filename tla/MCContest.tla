----------------------------- MODULE MCContest ------------------------------
EXTENDS Contest, TLC
=============================================================================
