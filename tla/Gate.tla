-------------------------------- MODULE Gate --------------------------------
(***************************************************************************)
(* What the stage pipeline promises, without transactions: the problem is  *)
(* at one stage of a fixed chain; a stage is approved only when every      *)
(* stage before it has been approved, and the problem then moves to the    *)
(* stage that follows; an import or a restart may send it back to the      *)
(* head of the chain, and forgets no approval.                             *)
(***************************************************************************)
CONSTANTS
    Stages,     \* the stages of the chain
    Head0,      \* where a problem starts, and where an import sends it
    Next0(_),   \* the stage that follows a stage, or "DONE"
    Before0(_)  \* the stages before a stage; all of them before "DONE"

VARIABLES current, gates

vars == <<current, gates>>

Init == current = Head0 /\ gates = {}

Approve(s) ==
    /\ Before0(s) \subseteq gates
    /\ current' = Next0(s)
    /\ gates' = gates \cup {s}

Return == current' = Head0 /\ UNCHANGED gates

Next == Return \/ \E s \in Stages : Approve(s)

Spec == Init /\ [][Next]_vars
=============================================================================
