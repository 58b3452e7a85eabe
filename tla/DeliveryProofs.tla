--------------------------- MODULE DeliveryProofs ---------------------------
(***************************************************************************)
(* Proofs about Delivery, for every log, scope, batch size, capacity and   *)
(* number of failures and stops.                                           *)
(*                                                                         *)
(* The inductive invariant relates the four positions in the log, says     *)
(* that the call in progress writes exactly what is offered and not yet    *)
(* acknowledged, that a dead loop holds nothing, and that what the loop    *)
(* holds is ordered: before a change there is nothing that was neither     *)
(* scanned nor stands in front of it.  The last part survives a rebuild,   *)
(* which offers again what the queue still holds, because a change only    *)
(* enters the queue behind all that was acknowledged.                      *)
(***************************************************************************)
EXTENDS Delivery, FiniteSetTheorems, FunctionTheorems, SequenceTheorems,
        WellFoundedInduction, TLAPS

\* A set of natural numbers that is not empty has a least element.
LEMMA LeastElement ==
  ASSUME NEW S \in SUBSET Nat, S # {}
  PROVE  \E n \in S : \A k \in S : n <= k
<1>1. PICK n \in S : \A k \in S : ~ <<k, n>> \in OpToRel(<, Nat)
  BY NatLessThanWellFounded, WFMin
<1>2. \A k \in S : <<k, n>> \in Nat \X Nat
  OBVIOUS
<1>3. \A k \in S : ~ k < n
  BY <1>1, <1>2 DEF OpToRel
<1>4. \A k \in S : k \in Nat /\ n \in Nat
  OBVIOUS
<1>5. \A k \in S : n <= k
  BY <1>3, <1>4
<1> QED
  BY <1>5

\* A set that contains 0 and with every number below n the next one contains 0..n.
LEMMA SetInduction ==
  ASSUME NEW n \in Nat, NEW G,
         0 \in G, \A k \in 1..n : k - 1 \in G => k \in G
  PROVE  \A k \in 0..n : k \in G
<1> DEFINE Bad == {k \in 0..n : k \notin G}
<1>1. SUFFICES ASSUME Bad # {}
               PROVE  FALSE
  OBVIOUS
<1>2. PICK k \in Bad : \A j \in Bad : k <= j
  <2>1. Bad \in SUBSET Nat
    OBVIOUS
  <2> HIDE DEF Bad
  <2> QED
    BY <1>1, <2>1, LeastElement
<1>3. k \in 1..n /\ k - 1 \in 0..n
  OBVIOUS
<1>4. k - 1 \in G
  BY <1>2, <1>3
<1> QED
  BY <1>3, <1>4

\* The store is behind the acknowledgements, they are behind the offers, and those are
\* behind the log.
Positions == /\ stored <= acked
             /\ acked <= offered
             /\ offered <= committed

\* A call of write_events in progress holds all that was offered and not acknowledged.
CallInProgress ==
  /\ pipe # "up" => writing = {}
  /\ pipe = "up" => writing = {e \in InScope : acked < e /\ e <= offered}

\* A dead loop holds nothing; no pipeline and no loop outlives the process.
DeadHoldsNothing ==
  /\ loop = "dead" => batch = {} /\ queue = <<>>
  /\ ~running => pipe = "over" /\ loop = "dead"

\* A pipeline that feeds a loop never offers again what is counted as lost.
LostIsOver == loop = "alive" => \A e \in lost : e <= stored

\* What is counted as lost was never scanned, and a loop that lives does not hold it.
LostIsUnscanned == /\ scanned \cap lost = {}
                   /\ loop = "alive" => Held \cap lost = {}

\* The loop only holds what is in the log.
HeldIsCommitted == \A e \in Held : e <= committed

\* What no pipeline will offer again.
Gone == {e \in lost : e <= stored}

\* Every change before one in S is in T.
Behind(S, T) == \A e \in S, f \in InScope : f < e => f \in T

\* All that is in front of the end of the i-th batch of the queue.
Before(i) == scanned \cup Gone \cup batch \cup UNION {queue[j] : j \in 1..i}

InOrder ==
  /\ Behind(scanned, scanned \cup Gone)
  /\ Behind(batch, scanned \cup Gone \cup batch)
  /\ \A i \in 1..Len(queue) : Behind(queue[i], Before(i))

DeliveryInv == /\ TypeOK
               /\ Positions
               /\ CallInProgress
               /\ DeadHoldsNothing
               /\ LostIsOver
               /\ LostIsUnscanned
               /\ HeldIsCommitted
               /\ AckedIsHeld
               /\ InOrder

---------------------------------------------------------------------------
(* Lemmas on the operators. *)

\* A batch of the pipeline has no more changes in scope than changes.
LEMMA ExtractBounded ==
  ASSUME NEW from \in Nat, NEW n \in Nat, NEW to \in Nat, to < from + n
  PROVE  /\ Extract(from, to) \subseteq InScope
         /\ IsFiniteSet(Extract(from, to))
         /\ Cardinality(Extract(from, to)) <= n
<1>1. Extract(from, to) \subseteq from..to
  <2>1. \A e \in InScope : e \in Int
    BY DeliveryAssumption DEF DeliveryAssumption
  <2> QED
    BY <2>1 DEF Extract
<1>2. IsFiniteSet(from..to) /\ Cardinality(from..to) <= n
  <2>1. from \in Int /\ to \in Int
    OBVIOUS
  <2>2. /\ IsFiniteSet(from..to)
        /\ Cardinality(from..to) = IF from > to THEN 0 ELSE to - from + 1
    BY <2>1, FS_Interval
  <2> QED
    BY <2>2
<1>3. /\ IsFiniteSet(Extract(from, to))
      /\ Cardinality(Extract(from, to)) <= Cardinality(from..to)
      /\ Cardinality(Extract(from, to)) \in Nat
  BY <1>1, <1>2, FS_Subset, FS_CardinalityType
<1>4. Cardinality(from..to) \in Nat
  BY <1>2, FS_CardinalityType
<1> QED
  BY <1>2, <1>3, <1>4 DEF Extract

\* Sets of changes are finite; those that are not empty have members to count.
LEMMA ChangesAreFinite ==
  ASSUME NEW S \in SUBSET InScope
  PROVE  /\ IsFiniteSet(S)
         /\ Cardinality(S) \in Nat
         /\ S # {} => Cardinality(S) > 0
         /\ \A T \in SUBSET S : Cardinality(T) \in Nat /\ Cardinality(T) <= Cardinality(S)
<1>1. InScope \subseteq 1..MaxCommitted /\ MaxCommitted \in Nat
  BY DeliveryAssumption DEF DeliveryAssumption
<1>2. IsFiniteSet(S)
  <2>1. IsFiniteSet(1..MaxCommitted)
    BY <1>1, FS_Interval
  <2>2. S \in SUBSET (1..MaxCommitted)
    BY <1>1
  <2> QED
    BY <2>1, <2>2, FS_Subset
<1> QED
  BY <1>2, FS_CardinalityType, FS_EmptySet, FS_Subset

\* What enqueueing and receiving do to the channel.
LEMMA EnqueueFacts ==
  ASSUME NEW S, NEW q \in Seq(S), NEW b \in S
  PROVE  /\ Append(q, b) \in Seq(S)
         /\ Len(Append(q, b)) = Len(q) + 1
         /\ Append(q, b)[Len(q) + 1] = b
         /\ \A i \in 1..Len(q) : Append(q, b)[i] = q[i]
  OBVIOUS

LEMMA DequeueFacts ==
  ASSUME NEW S, NEW q \in Seq(S), q # <<>>
  PROVE  /\ Tail(q) \in Seq(S)
         /\ Len(q) \in Nat \ {0}
         /\ Head(q) = q[1]
         /\ Len(Tail(q)) = Len(q) - 1
         /\ \A i \in 1..Len(Tail(q)) : Tail(q)[i] = q[i + 1]
  OBVIOUS

\* The loop holds changes in scope.
LEMMA HeldInScope ==
  ASSUME TypeOK
  PROVE  Held \subseteq InScope
<1>1. \A i \in DOMAIN queue : queue[i] \subseteq InScope
  BY DEF TypeOK
<1> QED
  BY <1>1 DEF TypeOK, Held

---------------------------------------------------------------------------
(* The invariant, conjunct by conjunct. *)

\* Alert channels are only called for a batch, by a loop that lives.
CallTyped == /\ call \in {"none", "timed", "untimed"}
             /\ call # "none" => loop = "alive" /\ batch # {}

LEMMA NextKeepsCall ==
  ASSUME CallTyped, [Next]_vars
  PROVE  CallTyped'
<1>1. CASE ScanNext
  BY <1>1 DEF ScanNext, CallTyped
<1>2. CASE DispatchEnds \/ Panic \/ Stop
  BY <1>2 DEF DispatchEnds, Panic, Stop, CallTyped
<1>3. CASE Receive
  BY <1>3 DEF Receive, CallTyped
<1>4. CASE Start
  BY <1>4 DEF Start, CallTyped
<1>5. CASE \/ UNCHANGED vars \/ WriteEvents \/ Send \/ SendToNobody \/ PipelineFails
           \/ Reconnect \/ UnitEnds \/ Commit \/ RecordProgress
  <2>1. UNCHANGED <<call, loop, batch>>
    BY <1>5 DEF vars, WriteEvents, Send, SendToNobody, PipelineFails, Reconnect, UnitEnds,
                Commit, RecordProgress
  <2> QED
    BY <2>1 DEF CallTyped
<1> QED
  BY <1>1, <1>2, <1>3, <1>4, <1>5 DEF Next

LEMMA NextKeepsTypes ==
  ASSUME TypeOK, [Next]_vars
  PROVE  TypeOK'
<1>0. CallTyped'
  BY NextKeepsCall DEF TypeOK, CallTyped
<1> USE DeliveryAssumption DEF DeliveryAssumption, TypeOK
<1>1. CASE UNCHANGED vars
  BY <1>1 DEF vars
<1>15. CASE ScanNext
  BY <1>0, <1>15 DEF ScanNext, CallTyped
<1>2. CASE WriteEvents
  <2>1. PICK to \in offered + 1 .. committed :
          /\ to <= offered + BatchMax
          /\ offered' = to
          /\ writing' = Extract(offered + 1, to)
          /\ IF writing' = {} THEN Ack(to) ELSE UNCHANGED acked
    BY <1>2 DEF WriteEvents
  <2>2. writing' \subseteq InScope /\ Cardinality(writing') <= BatchMax
    <3>0. offered \in Nat /\ committed \in Nat /\ BatchMax \in Nat
      OBVIOUS
    <3>1. offered + 1 \in Nat /\ to \in Nat /\ to < (offered + 1) + BatchMax
      <4> HIDE DEF TypeOK, DeliveryAssumption
      <4> QED
        BY <2>1, <3>0
    <3> HIDE DEF TypeOK, DeliveryAssumption
    <3> QED
      BY <2>1, <3>0, <3>1, ExtractBounded
  <2>3. {committed', stored', offered', acked'} \subseteq 0..MaxCommitted
    BY <1>2, <2>1 DEF WriteEvents, Ack
  <2>4. UNCHANGED <<running, pipe, queue, loop, batch, scanned, lost, failures, stops>>
    BY <1>2 DEF WriteEvents
  <2> QED
    BY <1>0, <2>2, <2>3, <2>4 DEF CallTyped
<1>3. CASE Send
  <2>1. Cardinality(writing) \in 1..BatchMax
    <3>1. writing \in SUBSET InScope /\ writing # {} /\ Cardinality(writing) <= BatchMax
      BY <1>3 DEF Send
    <3>2. Cardinality(writing) \in Nat /\ Cardinality(writing) > 0
      BY <3>1, ChangesAreFinite
    <3> QED
      BY <3>1, <3>2
  <2>2. /\ queue' \in Seq(SUBSET InScope)
        /\ Len(queue') <= Capacity
        /\ \A i \in DOMAIN queue' : Cardinality(queue'[i]) \in 1..BatchMax
    <3>1. /\ queue \in Seq(SUBSET InScope) /\ writing \in SUBSET InScope
          /\ queue' = Append(queue, writing)
          /\ Len(queue) < Capacity
      BY <1>3 DEF Send
    <3>2. /\ queue' \in Seq(SUBSET InScope)
          /\ Len(queue') = Len(queue) + 1
          /\ queue'[Len(queue) + 1] = writing
          /\ \A i \in 1..Len(queue) : queue'[i] = queue[i]
      BY <3>1, EnqueueFacts
    <3>3. /\ Len(queue) \in Nat /\ Capacity \in Nat
          /\ DOMAIN queue = 1..Len(queue) /\ DOMAIN queue' = 1..Len(queue')
      BY <3>1, <3>2
    <3>4. \A i \in DOMAIN queue' : i \in DOMAIN queue \/ i = Len(queue) + 1
      BY <3>2, <3>3
    <3>5. \A i \in DOMAIN queue' : Cardinality(queue'[i]) \in 1..BatchMax
      BY <2>1, <3>2, <3>3, <3>4
    <3>6. Len(queue') <= Capacity
      BY <3>1, <3>2, <3>3
    <3> HIDE DEF TypeOK, DeliveryAssumption
    <3> QED
      BY <3>2, <3>5, <3>6
  <2>3. writing' \subseteq InScope /\ Cardinality(writing') <= BatchMax
    BY <1>3, FS_EmptySet DEF Send
  <2>4. {committed', stored', offered', acked'} \subseteq 0..MaxCommitted
    BY <1>3 DEF Send, Ack
  <2>5. UNCHANGED <<running, pipe, loop, batch, scanned, lost, failures, stops>>
    BY <1>3 DEF Send
  <2> QED
    BY <1>0, <2>2, <2>3, <2>4, <2>5 DEF CallTyped
<1>4. CASE SendToNobody
  <2>1. lost' \subseteq InScope
    BY <1>4 DEF SendToNobody, Lose
  <2> QED
    BY <1>4, <2>1, FS_EmptySet DEF SendToNobody, Ack
<1>5. CASE Receive
  <2>1. /\ queue' \in Seq(SUBSET InScope)
        /\ Len(queue') <= Capacity
        /\ \A i \in DOMAIN queue' : Cardinality(queue'[i]) \in 1..BatchMax
    <3>1. queue \in Seq(SUBSET InScope) /\ queue # <<>> /\ queue' = Tail(queue)
      BY <1>5 DEF Receive
    <3>2. /\ queue' \in Seq(SUBSET InScope)
          /\ Len(queue) \in Nat \ {0}
          /\ Len(queue') = Len(queue) - 1
          /\ \A i \in 1..Len(queue') : queue'[i] = queue[i + 1]
      BY <3>1, DequeueFacts
    <3>3. DOMAIN queue = 1..Len(queue) /\ DOMAIN queue' = 1..Len(queue')
      BY <3>1, <3>2
    <3>4. \A i \in 1..Len(queue') : i + 1 \in 1..Len(queue)
      BY <3>2
    <3>5. Len(queue') <= Capacity
      BY <3>2
    <3>6. \A i \in 1..Len(queue') : Cardinality(queue[i + 1]) \in 1..BatchMax
      BY <3>3, <3>4
    <3> QED
      BY <3>2, <3>3, <3>5, <3>6
  <2>2. batch' \subseteq InScope /\ Cardinality(batch') <= BatchMax
    <3>1. queue \in Seq(SUBSET InScope) /\ queue # <<>> /\ batch' = Head(queue)
      BY <1>5 DEF Receive
    <3>2. 1 \in DOMAIN queue /\ batch' = queue[1] /\ queue[1] \in SUBSET InScope
      BY <3>1
    <3>3. Cardinality(queue[1]) \in 1..BatchMax
      BY <3>2
    <3> QED
      BY <3>2, <3>3
  <2> QED
    BY <1>5, <2>1, <2>2 DEF Receive
<1>6. CASE DispatchEnds
  <2>1. batch' \in SUBSET batch /\ batch' \subseteq InScope /\ scanned' \subseteq InScope
    BY <1>6 DEF DispatchEnds
  <2>2. Cardinality(batch') <= BatchMax
    <3>1. batch \in SUBSET InScope
      OBVIOUS
    <3>2. Cardinality(batch) \in Nat /\ Cardinality(batch') \in Nat
          /\ Cardinality(batch') <= Cardinality(batch)
      BY <2>1, <3>1, ChangesAreFinite
    <3> QED
      BY <3>2
  <2> QED
    BY <1>6, <2>1, <2>2 DEF DispatchEnds
<1>7. CASE Panic
  <2>1. Held \subseteq InScope
    BY HeldInScope
  <2>2. lost' \subseteq InScope
    BY <1>7, <2>1 DEF Panic, Lose
  <2> QED
    BY <1>7, <2>2, FS_EmptySet DEF Panic
<1>8. CASE PipelineFails
  BY <1>8, FS_EmptySet DEF PipelineFails
<1>9. CASE Reconnect
  BY <1>9 DEF Reconnect, Resume
<1>10. CASE UnitEnds
  BY <1>10, FS_EmptySet DEF UnitEnds
<1>11. CASE Stop
  <2>1. Held \subseteq InScope
    BY HeldInScope
  <2>2. lost' \subseteq InScope
    BY <1>11, <2>1 DEF Stop, Lose
  <2> QED
    <3>1. /\ UNCHANGED <<committed, stored, scanned, failures>>
          /\ offered' = stored /\ acked' = stored
          /\ stops' \in 0..MaxStops
          /\ running' = FALSE /\ pipe' = "over" /\ loop' = "dead"
          /\ queue' = <<>> /\ writing' = {} /\ batch' = {}
      BY <1>11 DEF Stop
    <3>2. /\ {committed', stored', offered', acked'} \subseteq 0..MaxCommitted
          /\ writing' \subseteq InScope /\ Cardinality(writing') <= BatchMax
          /\ batch' \subseteq InScope /\ Cardinality(batch') <= BatchMax
          /\ {scanned', lost'} \subseteq SUBSET InScope
      BY <2>2, <3>1, FS_EmptySet
    <3>3. /\ queue' \in Seq(SUBSET InScope) /\ Len(queue') <= Capacity
          /\ \A i \in DOMAIN queue' : Cardinality(queue'[i]) \in 1..BatchMax
      BY <3>1
    <3> QED
      BY <1>0, <3>1, <3>2, <3>3 DEF CallTyped
<1>12. CASE Start
  <2>1. /\ {committed', stored', offered', acked'} \subseteq 0..MaxCommitted
        /\ lost' \subseteq InScope
    BY <1>12 DEF Start, Resume
  <2>2. /\ UNCHANGED <<writing, queue, batch, scanned, failures, stops>>
        /\ running' = TRUE /\ pipe' = "up" /\ loop' = "alive"
    BY <1>12 DEF Start, Resume
  <2> QED
    BY <1>0, <2>1, <2>2 DEF CallTyped
<1>13. CASE Commit
  <2>1. {committed', stored', offered', acked'} \subseteq 0..MaxCommitted
    BY <1>13 DEF Commit
  <2>2. UNCHANGED <<running, pipe, writing, queue, loop, batch, scanned, lost, failures, stops>>
    BY <1>13 DEF Commit
  <2> QED
    BY <1>0, <2>1, <2>2 DEF CallTyped
<1>14. CASE RecordProgress
  BY <1>14 DEF RecordProgress
<1> HIDE DEF TypeOK, DeliveryAssumption
<1> QED
  BY <1>1, <1>2, <1>3, <1>4, <1>5, <1>6, <1>7, <1>8, <1>9, <1>10, <1>11, <1>12, <1>13, <1>14,
     <1>15 DEF Next

LEMMA NextKeepsPositions ==
  ASSUME TypeOK, Positions, [Next]_vars
  PROVE  Positions'
<1>1. /\ {committed, stored, offered, acked} \subseteq Nat
      /\ stored <= acked /\ acked <= offered /\ offered <= committed
  BY DeliveryAssumption DEF DeliveryAssumption, TypeOK, Positions
<1>2. CASE WriteEvents
  <2>1. PICK to \in offered + 1 .. committed :
          /\ offered' = to
          /\ acked' = to \/ acked' = acked
          /\ UNCHANGED <<committed, stored>>
    BY <1>2 DEF WriteEvents, Ack
  <2> QED
    BY <1>1, <2>1 DEF Positions
<1>3. CASE Send \/ SendToNobody
  BY <1>1, <1>3 DEF Send, SendToNobody, Ack, Positions
<1>4. CASE \/ UNCHANGED vars \/ ScanNext \/ Receive \/ DispatchEnds \/ Panic \/ PipelineFails
           \/ UnitEnds
  BY <1>1, <1>4 DEF vars, ScanNext, Receive, DispatchEnds, Panic, PipelineFails, UnitEnds,
                    Positions
<1>5. CASE Reconnect \/ Start \/ Stop
  BY <1>1, <1>5 DEF Reconnect, Start, Stop, Resume, Positions
<1>6. CASE Commit
  BY <1>1, <1>6 DEF Commit, Positions
<1>7. CASE RecordProgress
  BY <1>1, <1>7 DEF RecordProgress, Positions
<1> QED
  BY <1>2, <1>3, <1>4, <1>5, <1>6, <1>7 DEF Next

LEMMA NextKeepsCallInProgress ==
  ASSUME TypeOK, Positions, CallInProgress, DeadHoldsNothing, [Next]_vars
  PROVE  CallInProgress'
<1> USE DEF CallInProgress
<1>0. /\ \A e \in InScope : e \in Int
      /\ {stored, acked, offered, committed} \subseteq Int
  BY DeliveryAssumption DEF DeliveryAssumption, TypeOK
<1>1. CASE WriteEvents
  <2>1. PICK to \in offered + 1 .. committed :
          /\ offered' = to
          /\ writing' = Extract(offered + 1, to)
          /\ IF writing' = {} THEN Ack(to) ELSE UNCHANGED acked
    BY <1>1 DEF WriteEvents
  <2>2. {e \in InScope : acked < e /\ e <= offered} = {} /\ pipe' = "up"
    BY <1>1 DEF WriteEvents
  <2>3. \A e \in InScope : e \in writing' <=> offered < e /\ e <= to
    BY <1>0, <2>1 DEF Extract
  <2>4. \A e \in InScope : e \in writing' <=> acked' < e /\ e <= offered'
    BY <1>0, <2>1, <2>2, <2>3 DEF Ack, Positions
  <2>5. writing' \subseteq InScope
    BY <2>1 DEF Extract
  <2> QED
    BY <2>2, <2>4, <2>5
<1>2. CASE Send \/ SendToNobody
  <2>1. writing' = {} /\ acked' = offered /\ offered' = offered /\ pipe' = pipe
    BY <1>2 DEF Send, SendToNobody, Ack
  <2> QED
    BY <1>0, <2>1
<1>3. CASE Reconnect \/ Start
  <2>1. writing' = {} /\ acked' = stored /\ offered' = stored /\ pipe' = "up"
    BY <1>3 DEF DeadHoldsNothing, Reconnect, Start, Resume
  <2> QED
    BY <1>0, <2>1
<1>4. CASE PipelineFails \/ UnitEnds \/ Stop
  BY <1>4 DEF PipelineFails, UnitEnds, Stop
<1>5. CASE \/ UNCHANGED vars \/ ScanNext \/ Receive \/ DispatchEnds \/ Panic \/ Commit
           \/ RecordProgress
  BY <1>5 DEF vars, ScanNext, Receive, DispatchEnds, Panic, Commit, RecordProgress
<1> QED
  BY <1>1, <1>2, <1>3, <1>4, <1>5 DEF Next

LEMMA NextKeepsDeadHoldsNothing ==
  ASSUME TypeOK, DeadHoldsNothing, [Next]_vars
  PROVE  DeadHoldsNothing'
  BY DEF TypeOK, DeadHoldsNothing, Next, vars, WriteEvents, Send, SendToNobody,
         Receive, ScanNext, DispatchEnds, Panic, PipelineFails, Reconnect, UnitEnds, Stop,
         Start, Commit, RecordProgress, Resume

LEMMA NextKeepsLostIsOver ==
  ASSUME TypeOK, DeadHoldsNothing, LostIsOver, [Next]_vars
  PROVE  LostIsOver'
<1> USE DEF LostIsOver
<1>1. CASE Start \/ Reconnect
  BY <1>1 DEF Start, Reconnect, Resume
<1>2. CASE SendToNobody \/ Panic \/ Stop
  BY <1>2 DEF SendToNobody, Panic, Stop
<1>3. CASE RecordProgress
  <2>1. \A e \in lost : e \in Int
    <3>1. lost \subseteq InScope
      BY DEF TypeOK
    <3>2. \A e \in InScope : e \in Int
      BY DeliveryAssumption DEF DeliveryAssumption
    <3> QED
      BY <3>1, <3>2
  <2> QED
    BY <1>3, <2>1, DeliveryAssumption DEF RecordProgress, TypeOK, DeliveryAssumption
<1>4. CASE \/ UNCHANGED vars \/ ScanNext \/ WriteEvents \/ Send \/ Receive \/ DispatchEnds
           \/ PipelineFails
           \/ UnitEnds \/ Commit
  BY <1>4 DEF vars, ScanNext, WriteEvents, Send, Receive, DispatchEnds, PipelineFails, UnitEnds,
              Commit
<1> QED
  BY <1>1, <1>2, <1>3, <1>4 DEF Next

\* What the process holds comes out of calls of write_events, and of nowhere else.
LEMMA HeldComesFromCalls ==
  ASSUME TypeOK, [Next]_vars
  PROVE  Held' \subseteq Held \/ (Send /\ Held' \subseteq Held \cup writing)
<1>0. queue \in Seq(SUBSET InScope) /\ DOMAIN queue = 1..Len(queue)
  BY DEF TypeOK
<1>1. CASE Send
  <2>1. UNCHANGED batch
    BY <1>1 DEF Send
  <2>2. /\ Len(queue') = Len(queue) + 1
        /\ queue'[Len(queue) + 1] = writing
        /\ \A i \in 1..Len(queue) : queue'[i] = queue[i]
        /\ DOMAIN queue' = 1..Len(queue')
        /\ Len(queue) \in Nat
    <3>1. writing \in SUBSET InScope /\ queue' = Append(queue, writing)
      BY <1>1 DEF Send, TypeOK
    <3> QED
      BY <1>0, <3>1, EnqueueFacts
  <2>3. \A i \in DOMAIN queue' : i \in DOMAIN queue \/ queue'[i] = writing
    BY <1>0, <2>2
  <2>4. \A i \in DOMAIN queue' : queue'[i] \subseteq Held \cup writing
    BY <1>0, <2>2, <2>3 DEF Held
  <2> QED
    BY <1>1, <2>1, <2>4 DEF Held
<1>2. CASE Receive
  <2>1. /\ Len(queue) \in Nat \ {0}
        /\ batch' = queue[1]
        /\ Len(queue') = Len(queue) - 1
        /\ \A i \in 1..Len(queue') : queue'[i] = queue[i + 1]
        /\ DOMAIN queue' = 1..Len(queue')
    BY <1>0, <1>2, DequeueFacts DEF Receive
  <2>2. 1 \in DOMAIN queue /\ \A i \in DOMAIN queue' : i + 1 \in DOMAIN queue
    BY <1>0, <2>1
  <2>3. \A i \in DOMAIN queue' : queue'[i] \subseteq Held
    BY <2>1, <2>2 DEF Held
  <2>4. batch' \subseteq Held
    BY <2>1, <2>2 DEF Held
  <2> QED
    BY <2>3, <2>4 DEF Held
<1>3. CASE DispatchEnds
  BY <1>3 DEF DispatchEnds, Held
<1>4. CASE Panic \/ Stop
  BY <1>4 DEF Panic, Stop, Held
<1>5. CASE \/ UNCHANGED vars \/ ScanNext \/ WriteEvents \/ SendToNobody \/ PipelineFails
           \/ Reconnect
           \/ UnitEnds \/ Start \/ Commit \/ RecordProgress
  <2>1. UNCHANGED <<batch, queue>>
    BY <1>5 DEF vars, ScanNext, WriteEvents, SendToNobody, PipelineFails, Reconnect, UnitEnds,
                Start,
                Commit, RecordProgress
  <2> QED
    BY <2>1 DEF Held
<1> QED
  BY <1>1, <1>2, <1>3, <1>4, <1>5 DEF Next

LEMMA NextKeepsLostIsUnscanned ==
  ASSUME DeliveryInv, [Next]_vars
  PROVE  LostIsUnscanned'
<1> USE DEF DeliveryInv
<1>0. /\ \A e \in InScope : e \in Int
      /\ {stored, acked} \subseteq Int
      /\ lost \subseteq InScope
      /\ stored <= acked
  BY DeliveryAssumption DEF DeliveryAssumption, TypeOK, Positions
<1>1. scanned \cap lost = {} /\ (loop = "alive" => Held \cap lost = {})
  BY DEF LostIsUnscanned
<1>2. Held' \subseteq Held \/ (Send /\ Held' \subseteq Held \cup writing)
  BY HeldComesFromCalls
<1>3. CASE Send
  <2>1. UNCHANGED <<scanned, lost, loop>> /\ loop = "alive"
    BY <1>3 DEF Send
  <2>2. writing \cap lost = {}
    <3>1. writing = {e \in InScope : acked < e /\ e <= offered}
      BY <1>3 DEF CallInProgress, Send
    <3>2. \A e \in lost : e <= stored
      BY <2>1 DEF LostIsOver
    <3> QED
      BY <1>0, <3>1, <3>2
  <2> QED
    BY <1>1, <1>2, <2>1, <2>2 DEF LostIsUnscanned
<1>4. CASE DispatchEnds
  <2>1. PICK e \in batch : scanned' = scanned \cup {e}
    BY <1>4 DEF DispatchEnds
  <2>2. UNCHANGED <<lost, loop>> /\ loop = "alive" /\ ~Send
    BY <1>4 DEF DispatchEnds, Send
  <2>3. e \in Held
    BY <2>1 DEF Held
  <2>4. Held' \subseteq Held
    BY <1>4 DEF DispatchEnds, Held
  <2> QED
    BY <1>1, <2>1, <2>2, <2>3, <2>4 DEF LostIsUnscanned
<1>5. CASE SendToNobody \/ Panic \/ Stop
  <2>1. UNCHANGED scanned /\ loop' = "dead" /\ \A e \in lost' : e \in lost \/ e \notin scanned
    BY <1>5 DEF SendToNobody, Panic, Stop, Lose
  <2> QED
    BY <1>1, <2>1 DEF LostIsUnscanned
<1>6. CASE Reconnect
  BY <1>1, <1>6 DEF Reconnect, Resume, LostIsUnscanned, Held
<1>7. CASE Start
  <2>1. Held' = {}
    BY <1>7 DEF Start, DeadHoldsNothing, Held
  <2> QED
    BY <1>1, <1>7, <2>1 DEF Start, Resume, LostIsUnscanned
<1>8. CASE \/ UNCHANGED vars \/ ScanNext \/ WriteEvents \/ Receive \/ PipelineFails
           \/ UnitEnds \/ Commit
           \/ RecordProgress
  <2>1. UNCHANGED <<scanned, lost, loop>>
    BY <1>8 DEF vars, ScanNext, WriteEvents, Receive, PipelineFails, UnitEnds, Commit,
                RecordProgress
  <2> QED
    BY <1>1, <1>2, <1>3, <2>1 DEF LostIsUnscanned
<1> QED
  BY <1>3, <1>4, <1>5, <1>6, <1>7, <1>8 DEF Next

LEMMA NextKeepsHeldIsCommitted ==
  ASSUME DeliveryInv, [Next]_vars
  PROVE  HeldIsCommitted'
<1> USE DEF DeliveryInv
<1>0. /\ \A e \in InScope : e \in Int
      /\ {offered, committed} \subseteq Int
      /\ Held \subseteq InScope
      /\ offered <= committed
  <2>1. \A e \in InScope : e \in Int
    BY DeliveryAssumption DEF DeliveryAssumption
  <2>2. {offered, committed} \subseteq Int /\ offered <= committed
    BY DeliveryAssumption DEF DeliveryAssumption, TypeOK, Positions
  <2> QED
    BY <2>1, <2>2, HeldInScope
<1>1. Held' \subseteq Held \/ (Send /\ Held' \subseteq Held \cup writing)
  BY HeldComesFromCalls
<1>2. committed' = committed \/ committed' = committed + 1
  BY DEF Next, vars, ScanNext, WriteEvents, Send, SendToNobody, Receive, DispatchEnds, Panic,
         PipelineFails,
         Reconnect, UnitEnds, Stop, Start, Commit, RecordProgress
<1>3. Send => \A e \in writing : e \in InScope /\ e <= offered
  BY DEF CallInProgress, Send
<1>4. \A e \in Held' : e \in InScope /\ e <= committed
  BY <1>0, <1>1, <1>3 DEF HeldIsCommitted
<1>5. \A e \in Held' : e <= committed'
  BY <1>0, <1>2, <1>4
<1> QED
  BY <1>5 DEF HeldIsCommitted

\* Everything acknowledged is scanned, held or lost.
LEMMA NextKeepsAckedIsHeld ==
  ASSUME DeliveryInv, [Next]_vars
  PROVE  AckedIsHeld'
<1> SUFFICES ASSUME NEW e \in InScope, e <= acked'
             PROVE  e \in scanned' \cup Held' \cup lost'
  BY DEF AckedIsHeld
<1> USE DEF DeliveryInv
<1>0. /\ e \in Int
      /\ {stored, acked, offered, committed} \subseteq Int
      /\ queue \in Seq(SUBSET InScope)
  BY DeliveryAssumption DEF DeliveryAssumption, TypeOK
<1>1. e <= acked => e \in scanned \cup Held \cup lost
  BY DEF AckedIsHeld
<1>2. CASE WriteEvents
  <2>1. PICK to \in offered + 1 .. committed :
          /\ writing' = Extract(offered + 1, to)
          /\ IF writing' = {} THEN Ack(to) ELSE UNCHANGED acked
    BY <1>2 DEF WriteEvents
  <2>2. e <= acked
    <3>1. offered < e /\ e \notin Extract(offered + 1, to) => to < e
      BY <1>0, <2>1 DEF Extract
    <3>2. e \notin {f \in InScope : acked < f /\ f <= offered}
      BY <1>2 DEF WriteEvents, CallInProgress
    <3> QED
      BY <1>0, <2>1, <3>1, <3>2 DEF Ack
  <2> QED
    BY <1>1, <1>2, <2>2 DEF WriteEvents, Held
<1>3. CASE Send
  <2>1. \A f \in Held : f \in Held'
    BY <1>0, <1>3, EnqueueFacts DEF Send, Held
  <2>2. writing \subseteq Held'
    BY <1>0, <1>3, EnqueueFacts DEF Send, Held, TypeOK
  <2> QED
    BY <1>0, <1>1, <1>3, <2>1, <2>2 DEF Send, Ack, CallInProgress
<1>4. CASE SendToNobody
  BY <1>0, <1>1, <1>4 DEF SendToNobody, Ack, Lose, Held, CallInProgress
<1>5. CASE Receive
  <2>1. Held \subseteq Held'
    <3>1. /\ Len(queue) \in Nat \ {0}
          /\ Head(queue) = queue[1]
          /\ Len(Tail(queue)) = Len(queue) - 1
          /\ \A i \in 1..Len(Tail(queue)) : Tail(queue)[i] = queue[i + 1]
          /\ Tail(queue) \in Seq(SUBSET InScope)
      BY <1>0, <1>5, DequeueFacts DEF Receive
    <3>2. ASSUME NEW i \in DOMAIN queue
          PROVE  i = 1 \/ (i - 1 \in DOMAIN queue' /\ queue'[i - 1] = queue[i])
      BY <1>0, <1>5, <3>1 DEF Receive
    <3> QED
      <4>0. batch' = queue[1]
        BY <1>5, <3>1 DEF Receive
      <4>1. ASSUME NEW i \in DOMAIN queue
            PROVE  queue[i] \subseteq Held'
        BY <3>2, <4>0 DEF Held
      <4>2. UNION {queue[i] : i \in DOMAIN queue} \subseteq Held'
        BY <4>1
      <4>3. batch = {}
        BY <1>5 DEF Receive
      <4> QED
        BY <4>2, <4>3 DEF Held
  <2> QED
    BY <1>1, <1>5, <2>1 DEF Receive
<1>6. CASE DispatchEnds
  BY <1>1, <1>6 DEF DispatchEnds, Held
<1>7. CASE Panic
  BY <1>1, <1>7 DEF Panic, Lose
<1>8. CASE Reconnect \/ Start
  <2>1. e <= stored /\ UNCHANGED <<scanned, batch, queue>>
    BY <1>8 DEF Reconnect, Start, Resume
  <2> QED
    BY <1>0, <1>1, <1>8, <2>1 DEF Reconnect, Start, Resume, Held, Positions
<1>9. CASE Stop
  BY <1>0, <1>1, <1>9 DEF Stop, Lose, Positions
<1>10. CASE UNCHANGED vars \/ ScanNext \/ PipelineFails \/ UnitEnds \/ Commit \/ RecordProgress
  BY <1>1, <1>10 DEF vars, ScanNext, PipelineFails, UnitEnds, Commit, RecordProgress, Held
<1> QED
  BY <1>2, <1>3, <1>4, <1>5, <1>6, <1>7, <1>8, <1>9, <1>10 DEF Next

\* What was scanned or is gone stays so.
LEMMA GoneStaysGone ==
  ASSUME TypeOK, Positions, [Next]_vars
  PROVE  scanned \subseteq scanned' /\ Gone \subseteq Gone'
<1>0. stored \in Int /\ acked \in Int /\ \A e \in lost : e \in Int
  <2>1. lost \subseteq InScope /\ \A e \in InScope : e \in Int
    BY DeliveryAssumption DEF DeliveryAssumption, TypeOK
  <2> QED
    BY <2>1, DeliveryAssumption DEF DeliveryAssumption, TypeOK
<1>1. CASE DispatchEnds
  BY <1>1 DEF DispatchEnds, Gone
<1>2. CASE SendToNobody \/ Panic \/ Stop
  BY <1>2 DEF SendToNobody, Panic, Stop, Lose, Gone
<1>3. CASE Reconnect \/ Start
  BY <1>3 DEF Reconnect, Start, Resume, Gone
<1>4. CASE RecordProgress
  BY <1>0, <1>4 DEF RecordProgress, Gone
<1>5. CASE \/ UNCHANGED vars \/ ScanNext \/ WriteEvents \/ Send \/ Receive \/ PipelineFails
           \/ UnitEnds
           \/ Commit
  BY <1>5 DEF vars, ScanNext, WriteEvents, Send, Receive, PipelineFails, UnitEnds, Commit, Gone
<1> QED
  BY <1>1, <1>2, <1>3, <1>4, <1>5 DEF Next

LEMMA NextKeepsInOrder ==
  ASSUME DeliveryInv, [Next]_vars
  PROVE  InOrder'
<1> USE DEF DeliveryInv
<1>0. /\ \A e \in InScope : e \in Int
      /\ {stored, acked, offered, committed} \subseteq Int
      /\ queue \in Seq(SUBSET InScope)
      /\ batch \subseteq InScope
      /\ Len(queue) \in Nat
  BY DeliveryAssumption DEF DeliveryAssumption, TypeOK
<1>1. scanned \subseteq scanned' /\ Gone \subseteq Gone'
  BY GoneStaysGone
<1>2. /\ Behind(scanned, scanned \cup Gone)
      /\ Behind(batch, scanned \cup Gone \cup batch)
      /\ \A i \in 1..Len(queue) : Behind(queue[i], Before(i))
  BY DEF InOrder
<1>3. CASE Send
  <2>0. PICK n \in Nat : n = Len(queue) + 1
    BY <1>0
  <2>1. /\ UNCHANGED <<scanned, batch>>
        /\ Len(queue') = n
        /\ queue'[n] = writing
        /\ \A i \in 1..Len(queue) : queue'[i] = queue[i]
    <3>1. writing \in SUBSET InScope /\ queue' = Append(queue, writing)
      BY <1>3 DEF Send, TypeOK
    <3> QED
      BY <1>0, <1>3, <2>0, <3>1, EnqueueFacts DEF Send
  <2>2. \A i \in 1..Len(queue) : Before(i) \subseteq Before(i)'
    BY <1>1, <2>1 DEF Before
  <2>3. Behind(writing, Before(n)')
    <3>1. SUFFICES ASSUME NEW e \in writing, NEW f \in InScope, f < e
                   PROVE  f \in Before(n)'
      BY DEF Behind
    <3>2. writing = {g \in InScope : acked < g /\ g <= offered}
      BY <1>3 DEF CallInProgress, Send
    <3>3. f <= acked \/ f \in writing
      BY <1>0, <3>1, <3>2
    <3>4. f \in writing => f \in Before(n)'
      BY <1>0, <2>0, <2>1 DEF Before
    <3>5. f <= acked => f \in scanned \cup Held \cup Gone
      BY <1>3 DEF AckedIsHeld, LostIsOver, Gone, Send
    <3>6. scanned \cup Held \cup Gone \subseteq Before(n)'
      <4>1. DOMAIN queue = 1..Len(queue)
        BY <1>0
      <4> QED
        BY <1>0, <1>1, <2>0, <2>1, <4>1 DEF Before, Held
    <3> QED
      BY <3>3, <3>4, <3>5, <3>6
  <2>4. \A i \in 1..Len(queue') : i \in 1..Len(queue) \/ i = n
    BY <1>0, <2>0, <2>1
  <2>5. ASSUME NEW i \in 1..Len(queue')
        PROVE  Behind(queue'[i], Before(i)')
    <3>1. CASE i \in 1..Len(queue)
      <4>1. queue'[i] = queue[i] /\ Behind(queue[i], Before(i))
        BY <1>2, <2>1, <3>1
      <4> QED
        BY <2>2, <3>1, <4>1 DEF Behind
    <3>2. CASE i = n
      <4>1. queue'[i] = writing
        BY <2>1, <3>2
      <4>2. Before(i)' = Before(n)'
        BY <3>2
      <4> QED
        BY <2>3, <4>1, <4>2 DEF Behind
    <3> QED
      BY <2>4, <3>1, <3>2
  <2> QED
    BY <1>1, <1>2, <2>1, <2>5 DEF InOrder, Behind
<1>4. CASE Receive
  <2>1. /\ Len(queue) \in Nat \ {0}
        /\ batch = {} /\ batch' = queue[1]
        /\ Len(queue') = Len(queue) - 1
        /\ \A i \in 1..Len(queue') : queue'[i] = queue[i + 1]
        /\ UNCHANGED scanned
    BY <1>0, <1>4, DequeueFacts DEF Receive
  <2>2. Behind(batch', (scanned \cup Gone \cup batch)')
    <3>1. Before(1) \subseteq (scanned \cup Gone \cup batch)'
      BY <1>1, <2>1 DEF Before
    <3> QED
      BY <1>2, <2>1, <3>1 DEF Behind
  <2>3. ASSUME NEW i \in 1..Len(queue')
        PROVE  Behind(queue'[i], Before(i)')
    <3>1. i + 1 \in 1..Len(queue) /\ queue'[i] = queue[i + 1]
      BY <2>1
    <3>2. Before(i + 1) \subseteq Before(i)'
      <4>1. ASSUME NEW j \in 1..(i + 1)
            PROVE  queue[j] \subseteq Before(i)'
        <5>1. CASE j = 1
          BY <2>1, <5>1 DEF Before
        <5>2. CASE j # 1
          <6>1. j - 1 \in 1..i /\ j - 1 \in 1..Len(queue') /\ (j - 1) + 1 = j
            BY <2>1, <5>2
          <6>2. queue'[j - 1] = queue[j]
            BY <2>1, <6>1
          <6> QED
            BY <6>1, <6>2 DEF Before
        <5> QED
          BY <5>1, <5>2
      <4> QED
        BY <1>1, <2>1, <4>1 DEF Before
    <3> QED
      BY <1>2, <3>1, <3>2 DEF Behind
  <2> QED
    BY <1>1, <1>2, <2>1, <2>2, <2>3 DEF InOrder, Behind
<1>5. CASE DispatchEnds
  <2>1. PICK e \in batch : /\ \A f \in batch : e <= f
                           /\ scanned' = scanned \cup {e}
                           /\ batch' = batch \ {e}
    BY <1>5 DEF DispatchEnds
  <2>2. UNCHANGED queue
    BY <1>5 DEF DispatchEnds
  <2>3. Behind(scanned', (scanned \cup Gone)')
    <3>1. \A f \in InScope : f < e => f \in scanned \cup Gone
      BY <1>0, <1>2, <2>1 DEF Behind
    <3> QED
      BY <1>1, <1>2, <2>1, <3>1 DEF Behind
  <2>4. Behind(batch', (scanned \cup Gone \cup batch)')
    BY <1>1, <1>2, <2>1 DEF Behind
  <2>5. \A i \in 1..Len(queue) : Before(i) \subseteq Before(i)'
    BY <1>1, <2>1, <2>2 DEF Before
  <2> QED
    BY <1>2, <2>2, <2>3, <2>4, <2>5 DEF InOrder, Behind
<1>6. CASE Panic \/ Stop
  <2>1. UNCHANGED scanned /\ batch' = {} /\ queue' = <<>>
    BY <1>6 DEF Panic, Stop
  <2> QED
    BY <1>1, <1>2, <2>1 DEF InOrder, Behind
<1>7. CASE \/ UNCHANGED vars \/ ScanNext \/ WriteEvents \/ SendToNobody \/ PipelineFails
           \/ Reconnect
           \/ UnitEnds \/ Start \/ Commit \/ RecordProgress
  <2>1. UNCHANGED <<scanned, batch, queue>>
    BY <1>7 DEF vars, ScanNext, WriteEvents, SendToNobody, PipelineFails, Reconnect, UnitEnds,
                Start,
                Commit, RecordProgress
  <2>2. \A i \in 1..Len(queue) : Before(i) \subseteq Before(i)'
    BY <1>1, <2>1 DEF Before
  <2> QED
    BY <1>1, <1>2, <2>1, <2>2 DEF InOrder, Behind
<1> QED
  BY <1>3, <1>4, <1>5, <1>6, <1>7 DEF Next

---------------------------------------------------------------------------
(* The theorems. *)

LEMMA InitDeliveryInv == Init => DeliveryInv
<1> SUFFICES ASSUME Init
             PROVE  DeliveryInv
  OBVIOUS
<1>1. TypeOK
  <2>1. Cardinality({}) = 0
    BY FS_EmptySet
  <2> QED
    BY <2>1, DeliveryAssumption DEF DeliveryAssumption, Init, TypeOK
<1>2. Positions /\ DeadHoldsNothing /\ LostIsOver /\ LostIsUnscanned /\ HeldIsCommitted
  BY DEF Init, Positions, DeadHoldsNothing, LostIsOver, LostIsUnscanned, HeldIsCommitted, Held
<1>3. CallInProgress /\ AckedIsHeld /\ InOrder
  <2>1. \A e \in InScope : e \in Int /\ e > 0
    BY DeliveryAssumption DEF DeliveryAssumption
  <2> QED
    BY <2>1 DEF Init, CallInProgress, AckedIsHeld, InOrder, Behind
<1> QED
  BY <1>1, <1>2, <1>3 DEF DeliveryInv

\* The invariant of all positions, calls and batches of one database's delivery.
THEOREM DeliveryInvHolds == Spec => []DeliveryInv
<1>1. DeliveryInv /\ [Next]_vars => DeliveryInv'
  BY NextKeepsTypes, NextKeepsPositions, NextKeepsCallInProgress, NextKeepsDeadHoldsNothing,
     NextKeepsLostIsOver, NextKeepsLostIsUnscanned, NextKeepsHeldIsCommitted,
     NextKeepsAckedIsHeld, NextKeepsInOrder DEF DeliveryInv
<1> QED
  BY <1>1, InitDeliveryInv, PTL DEF Spec

\* Every variable keeps to its type; the channel to its capacity, a batch to its size.
THEOREM DeliveryTypes == Spec => []TypeOK
<1>1. DeliveryInv => TypeOK
  BY DEF DeliveryInv
<1> QED
  BY <1>1, DeliveryInvHolds, PTL

\* write_events acknowledges nothing before the channel has it: an acknowledged change is
\* scanned, held by the process, or was dropped by a stop or a dead loop.
THEOREM AckedIsNeverForgotten == Spec => []AckedIsHeld
<1>1. DeliveryInv => AckedIsHeld
  BY DEF DeliveryInv
<1> QED
  BY <1>1, DeliveryInvHolds, PTL

\* No pipeline that is rebuilt or restarted makes the loop skip a change: before a scanned
\* change everything is scanned, or was lost to a stop or a dead loop.
THEOREM ScansHaveNoGaps == Spec => []NoGaps
<1>1. DeliveryInv => NoGaps
  BY DEF DeliveryInv, InOrder, Behind, Gone, NoGaps
<1> QED
  BY <1>1, DeliveryInvHolds, PTL


---------------------------------------------------------------------------
(* What a stop can lose. *)

\* A sequence of no more than n sets of no more than m changes holds at most n * m.
LEMMA UnionIsBounded ==
  ASSUME NEW m \in Nat, NEW n \in Nat,
         NEW F, \A k \in 1..n : F[k] \in SUBSET InScope /\ Cardinality(F[k]) <= m
  PROVE  LET U == UNION {F[k] : k \in 1..n}
         IN  IsFiniteSet(U) /\ Cardinality(U) <= n * m
<1> DEFINE Upto(k) == UNION {F[j] : j \in 1..k}
           Bounded == {k \in 0..n : Cardinality(Upto(k)) <= k * m}
<1>1. \A k \in 0..n : Upto(k) \in SUBSET InScope
  OBVIOUS
<1>2. \A k \in 0..n : IsFiniteSet(Upto(k)) /\ Cardinality(Upto(k)) \in Nat
  <2> HIDE DEF Upto
  <2> QED
    BY <1>1, ChangesAreFinite
<1>3. 0 \in Bounded
  <2>1. Upto(0) = {}
    OBVIOUS
  <2>2. 0 * m = 0 /\ 0 <= 0 * m
    OBVIOUS
  <2>3. Cardinality(Upto(0)) <= 0 * m
    BY <2>1, <2>2, FS_EmptySet
  <2> HIDE DEF Upto
  <2> QED
    BY <2>3
<1>4. ASSUME NEW k \in 1..n, k - 1 \in Bounded
      PROVE  k \in Bounded
  <2>1. Upto(k) = Upto(k - 1) \cup F[k]
    <3>1. \A j \in 1..k : j \in 1..(k - 1) \/ j = k
      OBVIOUS
    <3>2. 1..(k - 1) \subseteq 1..k /\ k \in 1..k
      OBVIOUS
    <3> QED
      BY <3>1, <3>2
  <2> HIDE DEF Upto
  <2>2. k - 1 \in 0..n /\ k \in 0..n
    OBVIOUS
  <2>3. IsFiniteSet(F[k]) /\ Cardinality(F[k]) \in Nat /\ Cardinality(F[k]) <= m
    BY ChangesAreFinite
  <2>4. IsFiniteSet(Upto(k - 1)) /\ Cardinality(Upto(k - 1)) \in Nat
    BY <1>2, <2>2
  <2>5. Cardinality(Upto(k - 1)) <= (k - 1) * m
    BY <1>4
  <2>6. /\ Cardinality(Upto(k - 1) \cup F[k])
             = Cardinality(Upto(k - 1)) + Cardinality(F[k]) - Cardinality(Upto(k - 1) \cap F[k])
        /\ Cardinality(Upto(k - 1) \cap F[k]) \in Nat
    BY <2>3, <2>4, FS_Union, FS_Intersection, FS_CardinalityType
  <2>7. Cardinality(Upto(k)) <= Cardinality(Upto(k - 1)) + Cardinality(F[k])
    <3> DEFINE a == Cardinality(Upto(k - 1))
               b == Cardinality(F[k])
               c == Cardinality(Upto(k - 1) \cap F[k])
    <3>1. Cardinality(Upto(k)) = a + b - c /\ a \in Nat /\ b \in Nat /\ c \in Nat
      BY <2>1, <2>3, <2>4, <2>6
    <3> HIDE DEF a, b, c
    <3>2. a + b - c <= a + b
      BY <3>1
    <3> QED
      BY <3>1, <3>2 DEF a, b
  <2>8. (k - 1) * m + m = k * m
    OBVIOUS
  <2>9. (k - 1) * m \in Nat /\ k * m \in Nat
    OBVIOUS
  <2>10. Cardinality(Upto(k)) <= k * m
    BY <1>2, <2>2, <2>3, <2>4, <2>5, <2>7, <2>8, <2>9
  <2> QED
    BY <2>2, <2>10
<1>5. n \in Bounded
  <2>1. \A k \in 0..n : k \in Bounded
    <3> HIDE DEF Bounded
    <3> QED
      BY <1>3, <1>4, SetInduction
  <2> QED
    BY <2>1
<1> QED
  <2>1. n \in 0..n
    OBVIOUS
  <2> HIDE DEF Upto
  <2>2. Cardinality(Upto(n)) <= n * m
    BY <1>5
  <2>3. IsFiniteSet(Upto(n))
    BY <1>2, <2>1
  <2> QED
    BY <2>2, <2>3 DEF Upto

---------------------------------------------------------------------------
(* One log, scanned in order. *)

\* Every step of Delivery is a step of the reader of a log, or changes nothing there.
LEMMA NextImplementsLogScan ==
  ASSUME DeliveryInv, [Next]_vars
  PROVE  [Log!Next]_(Log!vars)
<1> USE DEF DeliveryInv
<1>0. /\ \A e \in InScope : e \in Int
      /\ {stored, acked, offered, committed} \subseteq Nat
      /\ stored <= acked /\ acked <= offered /\ offered <= committed
      /\ batch \subseteq InScope /\ lost \subseteq InScope /\ scanned \subseteq InScope
      /\ writing \subseteq InScope
      /\ Held \subseteq InScope
  <2>1. \A e \in InScope : e \in Int
    BY DeliveryAssumption DEF DeliveryAssumption
  <2>2. /\ {stored, acked, offered, committed} \subseteq Nat
        /\ batch \subseteq InScope /\ lost \subseteq InScope /\ scanned \subseteq InScope
        /\ writing \subseteq InScope
    BY DeliveryAssumption DEF DeliveryAssumption, TypeOK
  <2>3. stored <= acked /\ acked <= offered /\ offered <= committed
    BY DEF Positions
  <2>4. Held \subseteq InScope
    BY HeldInScope
  <2> QED
    BY <2>1, <2>2, <2>3, <2>4
<1>1. \A e \in InScope : e <= acked => e \in scanned \cup Held \cup lost
  BY DEF AckedIsHeld
<1>2. CASE Commit
  BY <1>2 DEF Commit, Log!Commit, Log!Next
<1>3. CASE DispatchEnds
  <2>1. PICK e \in batch : /\ \A f \in batch : e <= f
                           /\ scanned' = scanned \cup {e}
    BY <1>3 DEF DispatchEnds
  <2>2. UNCHANGED <<committed, lost, loop>> /\ loop = "alive"
    BY <1>3 DEF DispatchEnds
  <2>3. CASE e \in scanned
    <3>1. scanned' = scanned
      BY <2>1, <2>3
    <3> QED
      BY <2>2, <3>1 DEF Log!vars
  <2>4. CASE e \notin scanned
    <3>1. e \in InScope /\ e \notin lost
      BY <1>0, <2>2 DEF LostIsUnscanned, Held
    <3>2. e <= committed
      BY <2>1 DEF HeldIsCommitted, Held
    <3>3. \A f \in InScope : f < e => f \in scanned \cup lost
      <4>1. \A f \in InScope : f < e => f \in scanned \cup Gone \cup batch
        BY DEF InOrder, Behind
      <4>2. \A f \in batch : ~(f < e)
        BY <1>0, <2>1, <3>1
      <4> QED
        BY <4>1, <4>2 DEF Gone
    <3>4. Log!Scan
      BY <2>1, <2>2, <2>4, <3>1, <3>2, <3>3 DEF Log!Scan, Log!Settled
    <3> QED
      BY <3>4 DEF Log!Next
  <2> QED
    BY <2>3, <2>4
<1>4. CASE SendToNobody
  <2>1. /\ UNCHANGED <<committed, scanned, loop>> /\ loop = "dead"
        /\ lost' = lost \cup {e \in writing \ scanned : e <= offered}
        /\ writing = {e \in InScope : acked < e /\ e <= offered}
    BY <1>4 DEF SendToNobody, Lose, CallInProgress
  <2>2. Held = {}
    BY <2>1 DEF DeadHoldsNothing, Held
  <2>3. \A e \in InScope \ scanned : e <= offered => e \in lost \/ e \in writing
    BY <1>0, <1>1, <2>1, <2>2
  <2>4. lost' = lost \cup {e \in InScope \ scanned : e <= offered}
    BY <1>0, <2>1, <2>3
  <2>5. Log!Miss
    BY <1>0, <2>1, <2>4 DEF Log!Miss
  <2> QED
    BY <2>5 DEF Log!Next
<1>5. CASE Panic
  <2>1. /\ UNCHANGED <<committed, scanned>> /\ loop' = "dead"
        /\ lost' = lost \cup {e \in Held \ scanned : e <= acked}
    BY <1>5 DEF Panic, Lose
  <2>2. lost' = lost \cup {e \in InScope \ scanned : e <= acked}
    BY <1>0, <1>1, <2>1
  <2>3. Log!Miss
    BY <1>0, <2>1, <2>2 DEF Log!Miss
  <2> QED
    BY <2>3 DEF Log!Next
<1>6. CASE Stop
  <2>1. /\ UNCHANGED <<committed, scanned>> /\ loop' = "dead"
        /\ lost' = lost \cup {e \in Held \ scanned : e <= stored}
    BY <1>6 DEF Stop, Lose
  <2>2. \A e \in InScope : e <= stored => e <= acked
    BY <1>0
  <2>3. lost' = lost \cup {e \in InScope \ scanned : e <= stored}
    BY <1>0, <1>1, <2>1, <2>2
  <2>4. Log!Miss
    BY <1>0, <2>1, <2>3 DEF Log!Miss
  <2> QED
    BY <2>4 DEF Log!Next
<1>7. CASE Reconnect \/ Start
  <2>1. /\ UNCHANGED <<committed, scanned>>
        /\ lost' = {e \in lost : e <= stored}
        /\ loop' \in {"alive", "dead"}
        /\ loop = "alive" => loop' = "alive"
    BY <1>7 DEF Reconnect, Start, Resume, TypeOK
  <2>2. CASE loop = "alive"
    <3>1. lost' = lost
      BY <2>1, <2>2 DEF LostIsOver
    <3> QED
      BY <2>1, <2>2, <3>1 DEF Log!vars
  <2>3. CASE loop # "alive"
    <3>1. ASSUME NEW e \in lost \ lost', NEW s \in scanned
          PROVE  s < e
      <4>1. e \in InScope /\ s \in InScope /\ ~(e <= stored) /\ e \notin scanned
        BY <1>0, <2>1, <3>1 DEF LostIsUnscanned
      <4>2. ~(e < s)
        BY <4>1 DEF InOrder, Behind, Gone
      <4> QED
        BY <1>0, <4>1, <4>2
    <3>2. stored \in 0..committed
      BY <1>0
    <3>3. Log!TakeBack
      BY <2>1, <2>3, <3>1, <3>2 DEF Log!TakeBack
    <3> QED
      BY <3>3 DEF Log!Next
  <2> QED
    BY <2>2, <2>3
<1>8. CASE \/ UNCHANGED vars \/ ScanNext \/ WriteEvents \/ Send \/ Receive \/ PipelineFails
           \/ UnitEnds
           \/ RecordProgress
  BY <1>8 DEF vars, ScanNext, WriteEvents, Send, Receive, PipelineFails, UnitEnds,
              RecordProgress, Log!vars
<1> QED
  BY <1>2, <1>3, <1>4, <1>5, <1>6, <1>7, <1>8 DEF Next

\* Delivery, with its batches, channel, acknowledgements and rebuilt pipelines, is a
\* reader of one log: first scans go forward, nothing is passed over while the loop
\* lives, and what is lost is one stretch of the log each time.
THEOREM ImplementsLogScan == Spec => LogSpec
<1>1. Init => Log!Init
  BY DEF Init, Log!Init
<1>2. DeliveryInv /\ [Next]_vars => [Log!Next]_(Log!vars)
  BY NextImplementsLogScan
<1> QED
  BY <1>1, <1>2, DeliveryInvHolds, PTL DEF Spec, LogSpec, Log!Spec

\* A reader of one log leaves no gap: with a change everything before it is settled.
\* So what LogScan promises contains NoGaps.
THEOREM ReadersLeaveNoGaps == LogSpec => []NoGaps
<1> DEFINE Prefix == /\ scanned \subseteq InScope /\ lost \subseteq InScope
                     /\ Behind(scanned \cup lost, scanned \cup lost)
<1>0. \A e \in InScope : e \in Int
  BY DeliveryAssumption DEF DeliveryAssumption
<1>1. Log!Init => Prefix
  BY DEF Log!Init, Behind
<1>2. Prefix /\ [Log!Next]_(Log!vars) => Prefix'
  <2> SUFFICES ASSUME Prefix, [Log!Next]_(Log!vars)
               PROVE  Prefix'
    OBVIOUS
  <2>1. CASE UNCHANGED Log!vars
    BY <2>1 DEF Log!vars, Behind
  <2>2. CASE Log!Commit
    BY <2>2 DEF Log!Commit, Behind
  <2>3. CASE Log!Scan
    <3>1. PICK e \in InScope : /\ \A f \in InScope : f < e => f \in scanned \cup lost
                               /\ scanned' = scanned \cup {e}
      BY <2>3 DEF Log!Scan, Log!Settled
    <3>2. UNCHANGED lost
      BY <2>3 DEF Log!Scan
    <3> QED
      BY <3>1, <3>2 DEF Behind
  <2>4. CASE Log!Miss
    <3>1. PICK last \in 0..committed :
            lost' = lost \cup {e \in InScope \ scanned : e <= last}
      BY <2>4 DEF Log!Miss
    <3>2. UNCHANGED scanned
      BY <2>4 DEF Log!Miss
    <3>3. ASSUME NEW e \in (scanned \cup lost)', NEW f \in InScope, f < e
          PROVE  f \in (scanned \cup lost)'
      <4>1. CASE e \in scanned \cup lost
        BY <3>1, <3>2, <3>3, <4>1 DEF Behind
      <4>2. CASE e \notin scanned \cup lost
        <5>1. e \in InScope /\ e <= last /\ last \in Int
          BY <3>1, <3>2, <3>3, <4>2
        <5>2. f <= last
          BY <1>0, <3>3, <5>1
        <5> QED
          BY <3>1, <3>2, <5>2
      <4> QED
        BY <4>1, <4>2
    <3> QED
      BY <3>1, <3>2, <3>3 DEF Behind
  <2>5. CASE Log!TakeBack
    <3>1. PICK last \in 0..committed :
            /\ lost' = {e \in lost : e <= last}
            /\ \A e \in lost \ lost', s \in scanned : s < e
      BY <2>5 DEF Log!TakeBack
    <3>2. UNCHANGED scanned
      BY <2>5 DEF Log!TakeBack
    <3>3. ASSUME NEW e \in (scanned \cup lost)', NEW f \in InScope, f < e
          PROVE  f \in (scanned \cup lost)'
      <4>1. e \in InScope /\ e \in scanned \cup lost /\ f \in scanned \cup lost
        BY <3>1, <3>2, <3>3 DEF Behind
      <4>2. e \in Int /\ f \in Int /\ last \in Int
        BY <1>0, <4>1
      <4>3. CASE f \in lost \ lost'
        <5>1. ~(f <= last) /\ \A s \in scanned : s < f
          BY <3>1, <4>3
        <5>2. e \notin scanned
          BY <3>3, <4>2, <5>1
        <5>3. e <= last
          BY <3>1, <3>2, <3>3, <5>2
        <5> QED
          BY <3>3, <4>2, <5>1, <5>3
      <4> QED
        BY <3>2, <4>1, <4>3
    <3> QED
      BY <3>1, <3>2, <3>3 DEF Behind
  <2> QED
    BY <2>1, <2>2, <2>3, <2>4, <2>5 DEF Log!Next
<1>3. Prefix => NoGaps
  BY DEF Behind, NoGaps
<1> QED
  BY <1>1, <1>2, <1>3, PTL DEF LogSpec, Log!Spec

=============================================================================
