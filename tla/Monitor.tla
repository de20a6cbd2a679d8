------------------------------ MODULE Monitor -------------------------------
(***************************************************************************)
(* The events table and the streams that follow it (SSE and WebSocket share *)
(* one loop). An event is inserted by the transaction that causes it, and   *)
(* created_at is the start of that transaction; the event becomes visible   *)
(* when the transaction commits. A stream polls the table: it asks for the  *)
(* oldest events created after its cursor, at most Limit of them, moves the *)
(* cursor to the last, and sends them one by one before it polls again.     *)
(***************************************************************************)
EXTENDS Naturals, Sequences, FiniteSets

CONSTANTS
    Transactions,  \* database transactions that emit events
    Subjects,      \* what an event is about: problem_id or contest_set_id
    Streams,       \* open connections to /api/monitor/events/stream and /ws
    Follows,       \* the subjects a stream's filter admits
    Limit,         \* the LIMIT of a poll (100 in iter_new_events)
    MaxEvents,     \* bound: events emitted by one transaction
    MaxTime        \* bound: ticks of the database clock

ASSUME FollowsAssumption == Follows \in [Streams -> SUBSET Subjects]
ASSUME LimitAssumption == Limit \in Nat \ {0}
ASSUME BoundsAssumption == MaxEvents \in Nat /\ MaxTime \in Nat \ {0}

VARIABLES
    now,        \* the clock of the database
    tx,         \* the transactions: when they began (0: not yet), what they emitted
    events,     \* the committed rows of the events table
    stream,     \* of every stream: its cursor and the batch still to be sent
    sent,       \* of every stream: what it has sent, in order
    late        \* of every stream: events that were committed behind its cursor

vars == <<now, tx, events, stream, sent, late>>

Events == [tx : Transactions, no : 1..MaxEvents, at : 1..MaxTime, about : Subjects]

Unstarted == [began |-> 0, emitted |-> {}, open |-> TRUE]

Init ==
    /\ now = 1
    /\ tx = [t \in Transactions |-> Unstarted]
    /\ events = {}
    /\ stream = [s \in Streams |-> [cursor |-> 0, batch |-> {}, open |-> TRUE]]
    /\ sent = [s \in Streams |-> <<>>]
    /\ late = [s \in Streams |-> {}]

-----------------------------------------------------------------------------
(* The writers. *)

Tick ==
    /\ now < MaxTime
    /\ now' = now + 1
    /\ UNCHANGED <<tx, events, stream, sent, late>>

(* The first statement of a transaction: now() is fixed for all of it. *)
Begin(t) ==
    /\ tx[t].began = 0
    /\ tx' = [tx EXCEPT ![t].began = now]
    /\ UNCHANGED <<now, events, stream, sent, late>>

(* Fault for TypeOK: created_at has no default. *)
FaultEmitEvent(t, about) ==
    LET n == Cardinality(tx[t].emitted) IN
    /\ tx[t].began > 0 /\ tx[t].open
    /\ n < MaxEvents
    /\ tx' = [tx EXCEPT ![t].emitted = @ \cup
                {[tx |-> t, no |-> n + 1, at |-> 0, about |-> about]}]
    /\ UNCHANGED <<now, events, stream, sent, late>>

(* emit_event: the row is flushed, and invisible until the commit. *)
EmitEvent(t, about) ==
    LET n == Cardinality(tx[t].emitted) IN
    /\ tx[t].began > 0 /\ tx[t].open
    /\ n < MaxEvents
    /\ tx' = [tx EXCEPT ![t].emitted = @ \cup
                {[tx |-> t, no |-> n + 1, at |-> tx[t].began, about |-> about]}]
    /\ UNCHANGED <<now, events, stream, sent, late>>

Followed(s) == {e \in events : e.about \in Follows[s]}

Commit(t) ==
    /\ tx[t].emitted # {} /\ tx[t].open
    /\ events' = events \cup tx[t].emitted
    /\ tx' = [tx EXCEPT ![t].open = FALSE]
    /\ late' = [s \in Streams |->
                   late[s] \cup {e \in tx[t].emitted : e.at <= stream[s].cursor}]
    /\ UNCHANGED <<now, stream, sent>>

(* The request fails, or the worker's batch is rolled back. *)
Rollback(t) ==
    /\ tx[t].began > 0 /\ tx[t].open
    /\ tx' = [tx EXCEPT ![t].open = FALSE]
    /\ UNCHANGED <<now, events, stream, sent, late>>

-----------------------------------------------------------------------------
(* The streams. *)

(* Fault for NeverTwice: events created at the cursor are asked for again. *)
FaultNewEvents(s) == {e \in Followed(s) : e.at >= stream[s].cursor}

(* The rows the WHERE clause admits. *)
NewEvents(s) == {e \in Followed(s) : e.at > stream[s].cursor}

(* Fault for Accounted: the newest events are returned first. *)
FaultOldest(B, S) == \A e \in B : \A f \in S \ B : e.at >= f.at

(* B are the first rows of S in the order of created_at; ties are in no order. *)
Oldest(B, S) == \A e \in B : \A f \in S \ B : e.at <= f.at

(* Fault for EventsArrive: a batch that is not full is left for later. *)
FaultFetched(s) ==
    {B \in SUBSET NewEvents(s) : Oldest(B, NewEvents(s)) /\ Cardinality(B) = Limit}

(* What ORDER BY created_at LIMIT n may return. *)
Fetched(s) ==
    {B \in SUBSET NewEvents(s) :
        /\ Oldest(B, NewEvents(s))
        /\ \/ Cardinality(B) = Limit
           \/ B = NewEvents(s) /\ Cardinality(B) < Limit}

(* One turn of iter_new_events: the cursor becomes the last event fetched. *)
Poll(s) ==
    /\ stream[s].open /\ stream[s].batch = {}
    /\ \E B \in Fetched(s) : \E last \in B :
          /\ \A e \in B : e.at <= last.at
          /\ stream' = [stream EXCEPT ![s].cursor = last.at, ![s].batch = B]
    /\ UNCHANGED <<now, tx, events, sent, late>>

(* Fault for InOrder: the rows of a batch are sent in any order. *)
FaultSend(s) ==
    /\ stream[s].open
    /\ \E e \in stream[s].batch :
          /\ sent' = [sent EXCEPT ![s] = Append(@, e)]
          /\ stream' = [stream EXCEPT ![s].batch = @ \ {e}]
    /\ UNCHANGED <<now, tx, events, late>>

(* The events of a batch are yielded in the order of the query. *)
Send(s) ==
    /\ stream[s].open
    /\ \E e \in stream[s].batch :
          /\ Oldest({e}, stream[s].batch)
          /\ sent' = [sent EXCEPT ![s] = Append(@, e)]
          /\ stream' = [stream EXCEPT ![s].batch = @ \ {e}]
    /\ UNCHANGED <<now, tx, events, late>>

(* The client goes away; a new connection is a new stream, without a cursor. *)
Disconnect(s) ==
    /\ stream[s].open
    /\ stream' = [stream EXCEPT ![s].open = FALSE]
    /\ UNCHANGED <<now, tx, events, sent, late>>

Next ==
    \/ Tick
    \/ \E t \in Transactions :
          \/ Begin(t) \/ Commit(t) \/ Rollback(t)
          \/ \E about \in Subjects : EmitEvent(t, about)
    \/ \E s \in Streams : Poll(s) \/ Send(s) \/ Disconnect(s)

(* The loop of a stream goes on: it polls, and it sends what it has. *)
Fairness == \A s \in Streams : WF_vars(Poll(s)) /\ WF_vars(Send(s))

Spec == Init /\ [][Next]_vars /\ Fairness

-----------------------------------------------------------------------------
(* Properties. *)

TypeOK ==
    /\ now \in 1..MaxTime
    /\ events \subseteq Events
    /\ tx \in [Transactions -> [began : 0..MaxTime, emitted : SUBSET Events, open : BOOLEAN]]
    /\ stream \in [Streams -> [cursor : 0..MaxTime, batch : SUBSET Events, open : BOOLEAN]]
    /\ sent \in [Streams -> Seq(Events)]
    /\ late \in [Streams -> SUBSET Events]

Sent(s) == {sent[s][i] : i \in 1..Len(sent[s])}

(* A stream sends an event once, although it keeps nothing of what it sent  *)
(* but the creation time of the last event, which others may share.         *)
NeverTwice ==
    \A s \in Streams : \A i, j \in 1..Len(sent[s]) : sent[s][i] = sent[s][j] => i = j

(* What a stream sends is in the order of creation, across polls too, and   *)
(* although transactions commit in another order than they began.           *)
InOrder ==
    \A s \in Streams : \A i, j \in 1..Len(sent[s]) : i < j => sent[s][i].at <= sent[s][j].at

(* Another event of the same instant has been fetched. *)
Tied(s, e) == \E f \in Sent(s) \cup stream[s].batch : f # e /\ f.at = e.at

(* Every visible event behind the cursor has been sent or is about to be,   *)
(* with two exceptions: it was committed behind the cursor, by a            *)
(* transaction longer than another one's, or the limit cut off a group of   *)
(* events of one instant.                                                   *)
Accounted ==
    \A s \in Streams : \A e \in Followed(s) :
        e.at <= stream[s].cursor =>
            e \in Sent(s) \cup stream[s].batch \cup late[s] \/ Tied(s, e)

(* The events of t that a stream still has to send.                          *)
Due(s, t) ==
    {e \in Followed(s) : e.tx = t /\ e \notin Sent(s) \cup late[s] /\ ~Tied(s, e)}

(* A stream that stays connected does not stop in front of an event: once a *)
(* transaction has committed, all its events get through, or others of the  *)
(* same instant in their place.                                             *)
EventsArrive ==
    \A s \in Streams, t \in Transactions :
        Due(s, t) # {} ~> Due(s, t) = {} \/ ~stream[s].open
=============================================================================
