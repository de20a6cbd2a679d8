--------------------------- MODULE MonitorProofs ----------------------------
(***************************************************************************)
(* Proofs about the monitor's streams, for every set of transactions,      *)
(* subjects and streams, every filter, every limit and every bound.        *)
(***************************************************************************)
EXTENDS Monitor, FiniteSetTheorems, SequenceTheorems, TLAPS

-----------------------------------------------------------------------------
(* Type correctness. *)

(* What a transaction has emitted can be counted. *)
Counted == \A t \in Transactions : IsFiniteSet(tx[t].emitted)

Typed == TypeOK /\ Counted

TxRecords == [began : 0..MaxTime, emitted : SUBSET Events, open : BOOLEAN]
StreamRecords == [cursor : 0..MaxTime, batch : SUBSET Events, open : BOOLEAN]

LEMMA InitTyped == Init => Typed
PROOF
<1> SUFFICES ASSUME Init PROVE Typed
  OBVIOUS
<1>1. \A t \in Transactions : tx[t] = Unstarted
  BY DEF Init
<1>2. now \in 1..MaxTime /\ 0 \in 0..MaxTime
  BY BoundsAssumption DEF Init
<1>3. Unstarted \in TxRecords
  BY <1>2 DEF Unstarted, TxRecords
<1>4. tx \in [Transactions -> TxRecords]
  BY <1>3 DEF Init
<1>5. stream \in [Streams -> StreamRecords]
  BY <1>2 DEF Init, StreamRecords
<1>6. sent \in [Streams -> Seq(Events)]
  BY DEF Init
<1>7. Counted
  BY <1>1, FS_EmptySet DEF Counted, Unstarted
<1> QED
  BY <1>2, <1>4, <1>5, <1>6, <1>7 DEF Init, Typed, TypeOK, TxRecords, StreamRecords

(* A transaction's own step replaces its record by another one. *)
LEMMA EmitTyped ==
    ASSUME Typed, NEW t \in Transactions, NEW about \in Subjects, EmitEvent(t, about)
    PROVE  Typed'
PROOF
<1> DEFINE n == Cardinality(tx[t].emitted)
           e == [tx |-> t, no |-> n + 1, at |-> tx[t].began, about |-> about]
<1>1. n \in Nat
  BY FS_CardinalityType DEF Typed, Counted
<1>2. /\ tx[t] \in TxRecords
      /\ tx[t].began > 0 /\ n < MaxEvents
      /\ tx' = [tx EXCEPT ![t].emitted = @ \cup {e}]
      /\ UNCHANGED <<now, events, stream, sent, late>>
  BY DEF EmitEvent, Typed, TypeOK, TxRecords
<1>3. n + 1 \in 1..MaxEvents /\ tx[t].began \in 1..MaxTime
  BY <1>1, <1>2, BoundsAssumption DEF TxRecords
<1>4. e \in Events
  BY <1>3 DEF Events
<1> HIDE DEF e
<1>5. tx' \in [Transactions -> TxRecords]
  BY <1>2, <1>4 DEF Typed, TypeOK, TxRecords
<1>6. \A u \in Transactions :
         tx'[u].emitted = IF u = t THEN tx[t].emitted \cup {e} ELSE tx[u].emitted
  BY <1>2 DEF Typed, TypeOK
<1>7. Counted'
  BY <1>6, FS_AddElement DEF Typed, Counted
<1> QED
  BY <1>2, <1>5, <1>7 DEF Typed, TypeOK, TxRecords

(* What a poll and a send do to a stream: it has a new cursor and batch. *)
LEMMA PollTyped ==
    ASSUME Typed, NEW s \in Streams, Poll(s)
    PROVE  Typed'
PROOF
<1>1. PICK B \in Fetched(s) : \E last \in B :
         stream' = [stream EXCEPT ![s].cursor = last.at, ![s].batch = B]
  BY DEF Poll
<1>2. PICK last \in B :
         stream' = [stream EXCEPT ![s].cursor = last.at, ![s].batch = B]
  BY <1>1
<1>3. B \in SUBSET Events
  BY DEF Fetched, NewEvents, Followed, Typed, TypeOK
<1>4. last.at \in 0..MaxTime
  BY <1>3 DEF Events
<1>5. stream' \in [Streams -> StreamRecords]
  BY <1>2, <1>3, <1>4 DEF Typed, TypeOK, StreamRecords
<1> QED
  BY <1>5 DEF Poll, Typed, TypeOK, Counted, StreamRecords

LEMMA SendTyped ==
    ASSUME Typed, NEW s \in Streams, Send(s)
    PROVE  Typed'
PROOF
<1>1. PICK e \in stream[s].batch :
         /\ sent' = [sent EXCEPT ![s] = Append(@, e)]
         /\ stream' = [stream EXCEPT ![s].batch = @ \ {e}]
  BY DEF Send
<1>2. e \in Events
  BY DEF Typed, TypeOK
<1>3. sent' \in [Streams -> Seq(Events)]
  BY <1>1, <1>2, AppendProperties DEF Typed, TypeOK
<1>4. stream' \in [Streams -> StreamRecords]
  BY <1>1 DEF Typed, TypeOK, StreamRecords
<1> QED
  BY <1>3, <1>4 DEF Send, Typed, TypeOK, Counted, StreamRecords

LEMMA StepTyped == Typed /\ [Next]_vars => Typed'
PROOF
<1> SUFFICES ASSUME Typed, [Next]_vars PROVE Typed'
  OBVIOUS
<1>1. CASE Tick
  BY <1>1, BoundsAssumption DEF Tick, Typed, TypeOK, Counted
<1>2. ASSUME NEW t \in Transactions, Begin(t) PROVE Typed'
  <2>1. tx' \in [Transactions -> TxRecords]
    <3>1. now \in 0..MaxTime
      BY BoundsAssumption DEF Typed, TypeOK
    <3> QED
      BY <1>2, <3>1 DEF Begin, Typed, TypeOK, TxRecords
  <2>2. \A u \in Transactions : tx'[u].emitted = tx[u].emitted
    BY <1>2 DEF Begin, Typed, TypeOK
  <2> QED
    BY <1>2, <2>1, <2>2 DEF Begin, Typed, TypeOK, Counted, TxRecords
<1>3. ASSUME NEW t \in Transactions, Commit(t) PROVE Typed'
  <2>1. tx' \in [Transactions -> TxRecords]
    BY <1>3 DEF Commit, Typed, TypeOK, TxRecords
  <2>2. \A u \in Transactions : tx'[u].emitted = tx[u].emitted
    BY <1>3 DEF Commit, Typed, TypeOK
  <2>3. events' \subseteq Events /\ late' \in [Streams -> SUBSET Events]
    BY <1>3 DEF Commit, Typed, TypeOK
  <2> QED
    BY <1>3, <2>1, <2>2, <2>3 DEF Commit, Typed, TypeOK, Counted, TxRecords
<1>4. ASSUME NEW t \in Transactions, Rollback(t) PROVE Typed'
  <2>1. tx' \in [Transactions -> TxRecords]
    BY <1>4 DEF Rollback, Typed, TypeOK, TxRecords
  <2>2. \A u \in Transactions : tx'[u].emitted = tx[u].emitted
    BY <1>4 DEF Rollback, Typed, TypeOK
  <2> QED
    BY <1>4, <2>1, <2>2 DEF Rollback, Typed, TypeOK, Counted, TxRecords
<1>5. ASSUME NEW s \in Streams, Disconnect(s) PROVE Typed'
  <2>1. stream' \in [Streams -> StreamRecords]
    BY <1>5 DEF Disconnect, Typed, TypeOK, StreamRecords
  <2> QED
    BY <1>5, <2>1 DEF Disconnect, Typed, TypeOK, Counted, StreamRecords
<1>6. CASE UNCHANGED vars
  BY <1>6 DEF vars, Typed, TypeOK, Counted
<1> QED
  BY <1>1, <1>2, <1>3, <1>4, <1>5, <1>6, EmitTyped, PollTyped, SendTyped DEF Next

(* Rows, transactions and streams keep their types.                         *)
THEOREM TypeCorrect == Spec => []TypeOK
PROOF
<1>1. Typed => TypeOK
  BY DEF Typed
<1> QED
  BY <1>1, InitTyped, StepTyped, PTL DEF Spec

-----------------------------------------------------------------------------
(* What a stream has in hand. The cursor separates what has been fetched    *)
(* from what has not: all that was sent or is in the batch is at or behind  *)
(* it, and the batch follows what was sent.                                 *)
Fetching(s) ==
    /\ stream[s].batch \subseteq Followed(s)
    /\ \A e \in stream[s].batch : e.at <= stream[s].cursor /\ e \notin Sent(s)
    /\ \A f \in Sent(s) : f.at <= stream[s].cursor
    /\ \A f \in Sent(s), e \in stream[s].batch : f.at <= e.at

Distinct(q) == \A i, j \in 1..Len(q) : q[i] = q[j] => i = j

Sorted(q) == \A i, j \in 1..Len(q) : i < j => q[i].at <= q[j].at

Reached(s) ==
    \A e \in Followed(s) :
        e.at <= stream[s].cursor =>
            e \in Sent(s) \cup stream[s].batch \cup late[s] \/ Tied(s, e)

StreamInv(s) == Fetching(s) /\ Distinct(sent[s]) /\ Sorted(sent[s]) /\ Reached(s)

IInv == Typed /\ \A s \in Streams : StreamInv(s)

LEMMA InvImplies == IInv => NeverTwice /\ InOrder /\ Accounted
PROOF
  BY DEF IInv, StreamInv, Distinct, Sorted, Reached, NeverTwice, InOrder, Accounted

LEMMA InitInv == Init => IInv
PROOF
<1> SUFFICES ASSUME Init, NEW s \in Streams PROVE StreamInv(s)
  BY InitTyped DEF IInv
<1>1. /\ sent[s] = << >> /\ events = {}
      /\ stream[s] = [cursor |-> 0, batch |-> {}, open |-> TRUE]
  BY DEF Init
<1>2. Sent(s) = {} /\ Followed(s) = {}
  BY <1>1 DEF Sent, Followed
<1> QED
  BY <1>1, <1>2 DEF StreamInv, Fetching, Distinct, Sorted, Reached

(* Sending appends one event to what was sent.                              *)
LEMMA AppendSent ==
    ASSUME NEW q \in Seq(Events), NEW e \in Events,
           \A i \in 1..Len(q) : q[i] # e /\ q[i].at <= e.at,
           Distinct(q), Sorted(q)
    PROVE  /\ Distinct(Append(q, e)) /\ Sorted(Append(q, e))
           /\ {Append(q, e)[i] : i \in 1..Len(Append(q, e))} =
                 {q[i] : i \in 1..Len(q)} \cup {e}
PROOF
<1>1. /\ Len(q) \in Nat
      /\ Len(Append(q, e)) = Len(q) + 1
      /\ \A i \in 1..Len(q) : Append(q, e)[i] = q[i]
      /\ Append(q, e)[Len(q) + 1] = e
  BY AppendProperties
<1>2. 1..(Len(q) + 1) = (1..Len(q)) \cup {Len(q) + 1}
  BY <1>1
<1>3. Distinct(Append(q, e))
  BY <1>1, <1>2 DEF Distinct
<1>4. Sorted(Append(q, e))
  BY <1>1, <1>2 DEF Sorted
<1>5. {Append(q, e)[i] : i \in 1..Len(Append(q, e))} =
          {q[i] : i \in 1..Len(q)} \cup {e}
  BY <1>1, <1>2
<1> QED
  BY <1>3, <1>4, <1>5

(* Steps that are no stream's poll or send: events may become visible, and *)
(* those behind a cursor are counted as late.                              *)
Beside ==
    /\ sent' = sent
    /\ \A s \in Streams : /\ stream'[s].cursor = stream[s].cursor
                          /\ stream'[s].batch = stream[s].batch
                          /\ late[s] \subseteq late'[s]
    /\ events \subseteq events'
    /\ \A e \in events' \ events, s \in Streams :
          e.at <= stream[s].cursor => e \in late'[s]

LEMMA BesideInv ==
    ASSUME IInv, Beside, NEW s \in Streams
    PROVE  StreamInv(s)'
PROOF
<1>1. /\ sent'[s] = sent[s] /\ Sent(s)' = Sent(s)
      /\ stream'[s].cursor = stream[s].cursor /\ stream'[s].batch = stream[s].batch
      /\ Followed(s) \subseteq Followed(s)' /\ late[s] \subseteq late'[s]
  BY DEF Beside, Sent, Followed
<1>2. StreamInv(s)
  BY DEF IInv
<1>3. Fetching(s)'
  BY <1>1, <1>2 DEF StreamInv, Fetching
<1>4. \A e : Tied(s, e) => Tied(s, e)'
  BY <1>1 DEF Tied
<1>5. \A e \in Followed(s)' : e \notin Followed(s) /\ e.at <= stream[s].cursor => e \in late'[s]
  BY DEF Beside, Followed
<1>6. Reached(s)'
  BY <1>1, <1>2, <1>4, <1>5 DEF StreamInv, Reached
<1> QED
  BY <1>1, <1>2, <1>3, <1>6 DEF StreamInv

(* The streams apart from the one that moves.                               *)
LEMMA OthersInv ==
    ASSUME IInv, NEW s \in Streams, NEW u \in Streams,
           events' = events, late' = late, sent'[u] = sent[u], stream'[u] = stream[u]
    PROVE  StreamInv(u)'
PROOF
<1>1. Followed(u)' = Followed(u) /\ Sent(u)' = Sent(u)
  BY DEF Followed, Sent
<1>2. \A e : Tied(u, e)' <=> Tied(u, e)
  BY <1>1 DEF Tied
<1> QED
  BY <1>1, <1>2 DEF IInv, StreamInv, Fetching, Reached

LEMMA PollInv ==
    ASSUME IInv, NEW s \in Streams, Poll(s)
    PROVE  StreamInv(s)'
PROOF
<1>1. PICK B \in Fetched(s) : \E last \in B :
         /\ \A e \in B : e.at <= last.at
         /\ stream' = [stream EXCEPT ![s].cursor = last.at, ![s].batch = B]
  BY DEF Poll
<1>2. PICK last \in B :
         /\ \A e \in B : e.at <= last.at
         /\ stream' = [stream EXCEPT ![s].cursor = last.at, ![s].batch = B]
  BY <1>1
<1>3. /\ UNCHANGED <<events, sent, late>> /\ stream[s].batch = {}
      /\ stream'[s].cursor = last.at /\ stream'[s].batch = B
  BY <1>2 DEF Poll, IInv, Typed, TypeOK
<1>4. Sent(s)' = Sent(s) /\ Followed(s)' = Followed(s)
  BY <1>3 DEF Sent, Followed
<1>5. /\ B \subseteq Followed(s) /\ Oldest(B, NewEvents(s))
      /\ \A e \in B : e.at > stream[s].cursor
  BY DEF Fetched, NewEvents
<1>6. /\ \A e \in Followed(s) : e.at \in Nat
      /\ \A e \in Sent(s) : e.at \in Nat
      /\ stream[s].cursor \in Nat
  <2>1. Followed(s) \subseteq Events /\ Sent(s) \subseteq Events
    BY ElementOfSeq DEF IInv, Typed, TypeOK, Followed, Sent
  <2>2. stream[s].cursor \in 0..MaxTime
    BY DEF IInv, Typed, TypeOK
  <2> QED
    BY <2>1, <2>2 DEF Events
<1>7. StreamInv(s)
  BY DEF IInv
<1>8. \A f \in Sent(s), e \in B : f.at < e.at
  BY <1>5, <1>6, <1>7 DEF StreamInv, Fetching
<1>9. Fetching(s)'
  <2>1. \A e \in B : e \notin Sent(s)
    BY <1>5, <1>6, <1>8
  <2>2. \A f \in Sent(s) : f.at <= last.at
    BY <1>5, <1>6, <1>8
  <2>3. \A f \in Sent(s), e \in B : f.at <= e.at
    BY <1>5, <1>6, <1>8
  <2> QED
    BY <1>2, <1>3, <1>4, <1>5, <2>1, <2>2, <2>3 DEF Fetching
<1>10. Reached(s)'
  <2> SUFFICES ASSUME NEW e \in Followed(s), e.at <= last.at
               PROVE  e \in Sent(s) \cup B \cup late[s] \/ Tied(s, e)'
    BY <1>3, <1>4 DEF Reached
  <2>1. CASE e.at <= stream[s].cursor
    <3>1. e \in Sent(s) \cup late[s] \/ Tied(s, e)
      BY <1>3, <1>7, <2>1 DEF StreamInv, Reached
    <3>2. Tied(s, e) => Tied(s, e)'
      BY <1>3, <1>4 DEF Tied
    <3> QED
      BY <3>1, <3>2
  <2>2. CASE e.at > stream[s].cursor /\ e \notin B
    <3>1. last.at <= e.at
      BY <1>5, <2>2 DEF Oldest, NewEvents
    <3>2. last.at = e.at /\ last # e
      BY <1>5, <1>6, <2>2, <3>1
    <3> QED
      BY <1>3, <3>2 DEF Tied
  <2> QED
    BY <1>6, <2>1, <2>2
<1> QED
  BY <1>3, <1>7, <1>9, <1>10 DEF StreamInv

LEMMA SendInv ==
    ASSUME IInv, NEW s \in Streams, Send(s)
    PROVE  StreamInv(s)'
PROOF
<1>1. PICK e \in stream[s].batch :
         /\ Oldest({e}, stream[s].batch)
         /\ sent' = [sent EXCEPT ![s] = Append(@, e)]
         /\ stream' = [stream EXCEPT ![s].batch = @ \ {e}]
  BY DEF Send
<1>2. /\ UNCHANGED <<events, late>>
      /\ stream'[s].cursor = stream[s].cursor
      /\ stream'[s].batch = stream[s].batch \ {e}
      /\ sent'[s] = Append(sent[s], e)
      /\ sent[s] \in Seq(Events) /\ e \in Events
  BY <1>1 DEF Send, IInv, Typed, TypeOK
<1>3. StreamInv(s)
  BY DEF IInv
<1>4. \A i \in 1..Len(sent[s]) : sent[s][i] # e /\ sent[s][i].at <= e.at
  BY <1>1, <1>3 DEF StreamInv, Fetching, Sent
<1>5. /\ Distinct(sent'[s]) /\ Sorted(sent'[s])
      /\ Sent(s)' = Sent(s) \cup {e}
  BY <1>2, <1>3, <1>4, AppendSent DEF StreamInv, Sent
<1>6. Followed(s)' = Followed(s)
  BY <1>2 DEF Followed
<1>7. \A f \in stream[s].batch \ {e} : e.at <= f.at
  BY <1>1 DEF Oldest
<1>8. Fetching(s)'
  BY <1>1, <1>2, <1>3, <1>5, <1>6, <1>7 DEF StreamInv, Fetching
<1>9. Sent(s)' \cup stream'[s].batch = Sent(s) \cup stream[s].batch
  BY <1>1, <1>2, <1>5
<1>10. \A f : Tied(s, f)' <=> Tied(s, f)
  BY <1>9 DEF Tied
<1>11. Reached(s)'
  BY <1>2, <1>3, <1>6, <1>9, <1>10 DEF StreamInv, Reached
<1> QED
  BY <1>5, <1>8, <1>11 DEF StreamInv

LEMMA StepInv == IInv /\ [Next]_vars => IInv'
PROOF
<1> SUFFICES ASSUME IInv, [Next]_vars PROVE \A s \in Streams : StreamInv(s)'
  BY StepTyped DEF IInv
<1>1. ASSUME NEW t \in Transactions, Commit(t) PROVE Beside
  BY <1>1 DEF Commit, Beside, IInv, Typed, TypeOK
<1>2. ASSUME NEW s \in Streams, Disconnect(s) PROVE Beside
  BY <1>2 DEF Disconnect, Beside, IInv, Typed, TypeOK
<1>3. ASSUME Tick \/ UNCHANGED vars
             \/ \E t \in Transactions :
                   \/ Begin(t) \/ Rollback(t)
                   \/ \E about \in Subjects : EmitEvent(t, about)
      PROVE  Beside
  <2>1. UNCHANGED <<events, stream, sent, late>>
    BY <1>3 DEF Tick, vars, Begin, Rollback, EmitEvent
  <2> QED
    BY <2>1 DEF Beside
<1>4. ASSUME NEW s \in Streams, Poll(s) \/ Send(s), NEW u \in Streams PROVE StreamInv(u)'
  <2>1. CASE u = s
    BY <1>4, <2>1, PollInv, SendInv
  <2>2. CASE u # s
    <3>1. /\ events' = events /\ late' = late
          /\ sent'[u] = sent[u] /\ stream'[u] = stream[u]
      BY <1>4, <2>2 DEF Poll, Send, IInv, Typed, TypeOK
    <3> QED
      BY <3>1, OthersInv
  <2> QED
    BY <2>1, <2>2
<1> QED
  BY <1>1, <1>2, <1>3, <1>4, BesideInv DEF Next

LEMMA Invariant == Spec => []IInv
PROOF
  BY InitInv, StepInv, PTL DEF Spec

(* No event is sent twice by a stream.                                      *)
THEOREM SentOnce == Spec => []NeverTwice
PROOF
  BY Invariant, InvImplies, PTL

(* What a stream sends is in the order of creation.                         *)
THEOREM SentInOrder == Spec => []InOrder
PROOF
  BY Invariant, InvImplies, PTL

(* What a stream has passed over was committed late, or shares its instant *)
(* with an event that the stream has fetched.                               *)
THEOREM NothingElseMissed == Spec => []Accounted
PROOF
  BY Invariant, InvImplies, PTL

=============================================================================
