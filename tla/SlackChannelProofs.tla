------------------------- MODULE SlackChannelProofs -------------------------
(***************************************************************************)
(* Proofs about SlackChannel, for every set of scan loops, batch size and  *)
(* number of retries and of findings.                                      *)
(*                                                                         *)
(* OnePlaceEach counts; the invariant says it by exclusion: what is in the *)
(* buffer is not settled, and what a caller holds is neither buffered nor  *)
(* settled nor held by another.  Draining keeps it because only a caller   *)
(* that holds nothing drains (HoldsWhilePosting), and a new finding does   *)
(* because nothing is shown that has not entered (ShownHaveEntered).       *)
(***************************************************************************)
EXTENDS SlackChannel, FiniteSetTheorems, SequenceTheorems, TLAPS

\* What a caller holds, and the scan loops about to drain.
Holds(c) == ToSet(inFlight[c])
FullSenders == {s \in Senders : doing[s] = "full"}

\* A caller holds findings while it posts them, and only then.
HoldsWhilePosting == \A c \in Callers : (inFlight[c] # <<>>) <=> (doing[c] = "posting")

\* Only a finding that entered the buffer is on Slack.
ShownHaveEntered == \A f \in Findings : f > entered => posts[f] = 0

\* An error is counted at most once for each batch dropped.
ErrorsAreDrops == errors <= Cardinality(exhausted \cup failed)

OnePlace ==
  \A f \in 1..entered :
    /\ f \in ToSet(buffer) => f \notin Settled
    /\ \A c \in Callers : f \in Holds(c) =>
         /\ f \notin ToSet(buffer) \cup Settled
         /\ \A d \in Callers : f \in Holds(d) => d = c
    /\ f \in ToSet(buffer) \cup Settled \/ \E c \in Callers : f \in Holds(c)

SlackInv == /\ TypeOK
            /\ HoldsWhilePosting
            /\ TimerMeansWaiting
            /\ ShownHaveEntered
            /\ OnePlace
            /\ NeverPostedTwice
            /\ ErrorsAreDrops
            /\ MessageIsBounded

---------------------------------------------------------------------------
(* Lemmas on sequences of findings. *)

LEMMA ToSetFacts ==
  ASSUME NEW S, NEW q \in Seq(S)
  PROVE  /\ ToSet(q) \subseteq S
         /\ ToSet(<<>>) = {}
         /\ q # <<>> => ToSet(q) # {}
<1>1. DOMAIN q = 1..Len(q) /\ Len(q) \in Nat /\ \A i \in 1..Len(q) : q[i] \in S
  OBVIOUS
<1>2. q # <<>> => 1 \in DOMAIN q
  BY <1>1
<1>3. DOMAIN <<>> = {}
  OBVIOUS
<1> QED
  BY <1>1, <1>2, <1>3 DEF ToSet

LEMMA PushFacts ==
  ASSUME NEW S, NEW q \in Seq(S), NEW b \in S
  PROVE  /\ Append(q, b) \in Seq(S)
         /\ Append(q, b) # <<>>
         /\ Len(Append(q, b)) = Len(q) + 1
         /\ ToSet(Append(q, b)) = ToSet(q) \cup {b}
<1>1. /\ Append(q, b) \in Seq(S)
      /\ Len(q) \in Nat
      /\ Len(Append(q, b)) = Len(q) + 1
      /\ Append(q, b)[Len(q) + 1] = b
      /\ \A i \in 1..Len(q) : Append(q, b)[i] = q[i]
  OBVIOUS
<1>2. /\ DOMAIN q = 1..Len(q)
      /\ DOMAIN Append(q, b) = 1..(Len(q) + 1)
  BY <1>1
<1>3. 1..(Len(q) + 1) = (1..Len(q)) \cup {Len(q) + 1}
  BY <1>1
<1>4. ToSet(Append(q, b)) = {Append(q, b)[i] : i \in 1..Len(q)} \cup {b}
  BY <1>1, <1>2, <1>3 DEF ToSet
<1>5. {Append(q, b)[i] : i \in 1..Len(q)} = ToSet(q)
  BY <1>1, <1>2 DEF ToSet
<1>6. Append(q, b) # <<>>
  BY <1>1
<1> QED
  BY <1>1, <1>4, <1>5, <1>6

LEMMA SeqGrows ==
  ASSUME NEW m \in Nat, NEW n \in Nat, m <= n
  PROVE  /\ 1..m \subseteq 1..n
         /\ Seq(1..m) \subseteq Seq(1..n)
<1>1. 1..m \subseteq 1..n
  OBVIOUS
<1> QED
  BY <1>1

\* The ticker and the command are callers and no scan loops.
LEMMA CallersFacts ==
  /\ Senders \subseteq Callers
  /\ Ticker \in Callers /\ Main \in Callers
  /\ Ticker \notin Senders /\ Main \notin Senders
  /\ IsFiniteSet(Senders) /\ Cardinality(Senders) \in Nat
  BY SlackAssumption, FS_CardinalityType DEF SlackAssumption, Callers

\* Some of the scan loops are about to drain.
LEMMA FullSendersFacts ==
  /\ IsFiniteSet(FullSenders)
  /\ Cardinality(FullSenders) \in Nat
  /\ Cardinality(FullSenders) <= Cardinality(Senders)
<1>1. FullSenders \subseteq Senders
  BY DEF FullSenders
<1> QED
  BY <1>1, CallersFacts, FS_Subset, FS_CardinalityType

---------------------------------------------------------------------------
(* The steps, by what they do to the findings. *)

\* A batch is settled one way or another.
Settles(c) ==
  /\ c \in Callers
  /\ doing[c] = "posting"
  /\ Settle(c)
  /\ UNCHANGED <<buffer, timer, entered>>
  /\ \/ Shown(c) /\ UNCHANGED <<exhausted, failed, errors>>
     \/ /\ UNCHANGED <<posts, failed>>
        /\ exhausted' = exhausted \cup ToSet(inFlight[c])
        /\ CountError(c)
     \/ /\ Shown(c) \/ UNCHANGED posts
        /\ failed' = failed \cup ToSet(inFlight[c])
        /\ UNCHANGED exhausted
        /\ CountError(c)

Drains(c) == /\ c \in Callers
             /\ doing[c] \in {"idle", "full"}
             /\ buffer # <<>>
             /\ Drain(c)

Retries(c) == /\ c \in Callers
              /\ doing[c] = "posting"
              /\ attempt[c] < MaxRetries
              /\ attempt' = [attempt EXCEPT ![c] = @ + 1]
              /\ UNCHANGED <<buffer, timer, entered, doing, inFlight, posts, exhausted, failed,
                             errors>>

Returns(c) == /\ c \in Callers
              /\ doing[c] \in {"idle", "full"}
              /\ buffer = <<>>
              /\ doing' = [doing EXCEPT ![c] = Return(c)]
              /\ UNCHANGED <<buffer, timer, entered, inFlight, attempt, posts, exhausted, failed,
                             errors>>

LEMMA StepCases ==
  ASSUME TimerMeansWaiting, [Next]_vars
  PROVE  \/ UNCHANGED vars
         \/ WindowElapses
         \/ \E s \in Senders : Send(s)
         \/ \E c \in Callers : Drains(c) \/ Returns(c) \/ Retries(c) \/ Settles(c)
<1>1. ASSUME NEW c \in Senders \cup {Main}, ForcedFlush(c)
      PROVE  Drains(c) \/ Returns(c)
  BY <1>1, CallersFacts DEF ForcedFlush, Drains, Returns
<1>2. Tick => Drains(Ticker)
  BY CallersFacts DEF Tick, Drains, TimerMeansWaiting
<1>3. ASSUME NEW c \in Callers, Post(c)
      PROVE  Retries(c) \/ Settles(c)
  <2>1. CASE Posted(c)
    BY <2>1 DEF Posted, Settles
  <2>2. CASE RateLimited(c)
    BY <2>2 DEF RateLimited, Retries, Settles
  <2>3. CASE RequestFails(c)
    BY <2>3 DEF RequestFails, Settles
  <2> QED
    BY <1>3, <2>1, <2>2, <2>3 DEF Post
<1> QED
  BY <1>1, <1>2, <1>3, CallersFacts DEF Next

LEMMA SettlesFacts ==
  ASSUME TypeOK, HoldsWhilePosting, NEW c, Settles(c)
  PROVE  /\ c \in Callers
         /\ UNCHANGED <<buffer, timer, entered>>
         /\ inFlight' = [inFlight EXCEPT ![c] = <<>>]
         /\ Holds(c) \subseteq 1..entered /\ Holds(c) # {}
         /\ Settled' = Settled \cup Holds(c)
         /\ posts' \in [Findings -> Nat]
         /\ \A f \in Findings : posts'[f] = posts[f] \/ (f \in Holds(c) /\ posts'[f] = posts[f] + 1)
<1>1. /\ c \in Callers
      /\ UNCHANGED <<buffer, timer, entered>>
      /\ inFlight' = [inFlight EXCEPT ![c] = <<>>]
      /\ inFlight[c] # <<>> /\ inFlight[c] \in Seq(1..entered)
      /\ entered \in 0..MaxFindings /\ MaxFindings \in Nat
      /\ posts \in [Findings -> Nat]
  BY SlackAssumption DEF SlackAssumption, Settles, Settle, HoldsWhilePosting, TypeOK
<1>2. Holds(c) \subseteq 1..entered /\ Holds(c) # {}
  BY <1>1, ToSetFacts DEF Holds
<1>3. Holds(c) \subseteq Findings
  BY <1>1, <1>2 DEF Findings
<1>4. ASSUME Shown(c)
      PROVE  /\ posts' \in [Findings -> Nat]
             /\ \A f \in Findings :
                  posts'[f] = IF f \in Holds(c) THEN posts[f] + 1 ELSE posts[f]
             /\ {f \in Findings : posts'[f] > 0} = {f \in Findings : posts[f] > 0} \cup Holds(c)
  <2>1. posts' = [f \in Findings |-> IF f \in Holds(c) THEN posts[f] + 1 ELSE posts[f]]
    BY <1>4 DEF Shown, Holds
  <2>2. \A f \in Findings : posts[f] \in Nat
    BY <1>1
  <2>3. \A f \in Findings :
          posts'[f] = IF f \in Holds(c) THEN posts[f] + 1 ELSE posts[f]
    BY <2>1
  <2>4. posts' \in [Findings -> Nat]
    BY <2>1, <2>2
  <2>5. \A f \in Findings : posts'[f] > 0 <=> posts[f] > 0 \/ f \in Holds(c)
    BY <2>2, <2>3
  <2> QED
    BY <1>3, <2>3, <2>4, <2>5
<1>5. Settled' = Settled \cup Holds(c)
  <2>1. CASE Shown(c) /\ UNCHANGED <<exhausted, failed>>
    BY <1>4, <2>1 DEF Settled, Findings
  <2>2. CASE UNCHANGED <<posts, failed>> /\ exhausted' = exhausted \cup ToSet(inFlight[c])
    BY <2>2 DEF Settled, Findings, Holds
  <2>3. CASE UNCHANGED posts /\ failed' = failed \cup ToSet(inFlight[c]) /\ UNCHANGED exhausted
    BY <2>3 DEF Settled, Findings, Holds
  <2>4. CASE Shown(c) /\ failed' = failed \cup ToSet(inFlight[c]) /\ UNCHANGED exhausted
    BY <1>4, <2>4 DEF Settled, Findings, Holds
  <2> QED
    BY <2>1, <2>2, <2>3, <2>4 DEF Settles
<1>6. Shown(c) \/ UNCHANGED posts
  BY DEF Settles
<1> QED
  BY <1>1, <1>2, <1>4, <1>5, <1>6

LEMMA SendFacts ==
  ASSUME TypeOK, NEW s \in Senders, Send(s)
  PROVE  /\ entered' = entered + 1 /\ entered \in Nat /\ entered' \in 1..MaxFindings
         /\ buffer' \in Seq(1..entered') /\ buffer' # <<>>
         /\ Len(buffer) \in Nat /\ Len(buffer') = Len(buffer) + 1
         /\ ToSet(buffer') = ToSet(buffer) \cup {entered'}
         /\ UNCHANGED <<inFlight, posts, exhausted, failed, errors, attempt>>
         /\ Settled' = Settled
<1>1. /\ entered \in Nat /\ entered < MaxFindings /\ MaxFindings \in Nat
      /\ entered' = entered + 1
      /\ buffer \in Seq(1..entered)
      /\ buffer' = Append(buffer, entered')
      /\ UNCHANGED <<inFlight, posts, exhausted, failed, errors, attempt>>
  BY SlackAssumption DEF SlackAssumption, TypeOK, Send
<1>2. buffer \in Seq(1..entered') /\ entered' \in 1..entered'
  BY <1>1, SeqGrows
<1>3. Settled' = Settled
  BY <1>1 DEF Settled, Findings
<1> QED
  BY <1>1, <1>2, <1>3, PushFacts

---------------------------------------------------------------------------
(* The invariant, conjunct by conjunct. *)

LEMMA NextKeepsHoldsWhilePosting ==
  ASSUME TypeOK, HoldsWhilePosting, TimerMeansWaiting, [Next]_vars
  PROVE  HoldsWhilePosting'
<1> USE DEF HoldsWhilePosting, TypeOK
<1>1. CASE UNCHANGED vars \/ WindowElapses
  BY <1>1 DEF vars, WindowElapses
<1>2. ASSUME NEW s \in Senders, Send(s)
      PROVE  HoldsWhilePosting'
  BY <1>2, CallersFacts DEF Send
<1>3. ASSUME NEW c \in Callers, Drains(c)
      PROVE  HoldsWhilePosting'
  BY <1>3 DEF Drains, Drain
<1>4. ASSUME NEW c \in Callers, Returns(c) \/ Retries(c)
      PROVE  HoldsWhilePosting'
  BY <1>4 DEF Returns, Return, Retries
<1>5. ASSUME NEW c \in Callers, Settles(c)
      PROVE  HoldsWhilePosting'
  BY <1>5 DEF Settles, Settle, Return
<1> QED
  BY <1>1, <1>2, <1>3, <1>4, <1>5, StepCases

LEMMA NextKeepsTimerMeansWaiting ==
  ASSUME TypeOK, TimerMeansWaiting, [Next]_vars
  PROVE  TimerMeansWaiting'
<1> USE DEF TimerMeansWaiting
<1>1. CASE UNCHANGED vars \/ WindowElapses
  BY <1>1 DEF vars, WindowElapses
<1>2. ASSUME NEW s \in Senders, Send(s)
      PROVE  TimerMeansWaiting'
  <2>1. buffer' # <<>>
    BY <1>2, SendFacts
  <2>2. timer' # "off"
    BY <1>2 DEF Send
  <2> QED
    BY <2>1, <2>2
<1>3. ASSUME NEW c \in Callers, Drains(c) \/ Returns(c) \/ Retries(c) \/ Settles(c)
      PROVE  TimerMeansWaiting'
  BY <1>3 DEF Drains, Drain, Returns, Retries, Settles
<1> QED
  BY <1>1, <1>2, <1>3, StepCases

LEMMA NextKeepsShownHaveEntered ==
  ASSUME TypeOK, HoldsWhilePosting, TimerMeansWaiting, ShownHaveEntered, [Next]_vars
  PROVE  ShownHaveEntered'
<1> USE DEF ShownHaveEntered
<1>1. CASE UNCHANGED vars \/ WindowElapses
  BY <1>1 DEF vars, WindowElapses, Findings
<1>2. ASSUME NEW s \in Senders, Send(s)
      PROVE  ShownHaveEntered'
  BY <1>2, SendFacts DEF Findings
<1>3. ASSUME NEW c \in Callers, Drains(c) \/ Returns(c) \/ Retries(c)
      PROVE  ShownHaveEntered'
  BY <1>3 DEF Drains, Drain, Returns, Retries, Findings
<1>4. ASSUME NEW c \in Callers, Settles(c)
      PROVE  ShownHaveEntered'
  BY <1>4, SettlesFacts DEF TypeOK, Findings
<1> QED
  BY <1>1, <1>2, <1>3, <1>4, StepCases

LEMMA NextKeepsNeverPostedTwice ==
  ASSUME TypeOK, HoldsWhilePosting, TimerMeansWaiting, OnePlace, NeverPostedTwice, [Next]_vars
  PROVE  NeverPostedTwice'
<1> USE DEF NeverPostedTwice
<1>1. CASE UNCHANGED vars \/ WindowElapses \/ \E s \in Senders : Send(s)
  BY <1>1 DEF vars, WindowElapses, Send, Findings
<1>2. ASSUME NEW c \in Callers, Drains(c) \/ Returns(c) \/ Retries(c)
      PROVE  NeverPostedTwice'
  BY <1>2 DEF Drains, Drain, Returns, Retries, Findings
<1>3. ASSUME NEW c \in Callers, Settles(c)
      PROVE  NeverPostedTwice'
  <2>1. SUFFICES ASSUME NEW f \in Findings
                 PROVE  posts'[f] <= 1
    BY DEF Findings
  <2>2. posts'[f] = posts[f] \/ (f \in Holds(c) /\ posts'[f] = posts[f] + 1)
    BY <1>3, SettlesFacts
  <2>3. posts[f] \in Nat /\ posts[f] <= 1
    BY DEF TypeOK
  <2>4. f \in Holds(c) => f \in 1..entered /\ f \notin Settled
    BY <1>3, SettlesFacts DEF OnePlace
  <2>5. f \notin Settled => ~ posts[f] > 0
    BY DEF Settled
  <2> QED
    BY <2>2, <2>3, <2>4, <2>5
<1> QED
  BY <1>1, <1>2, <1>3, StepCases

LEMMA NextKeepsOnePlace ==
  ASSUME TypeOK, HoldsWhilePosting, TimerMeansWaiting, ShownHaveEntered, OnePlace, [Next]_vars
  PROVE  OnePlace'
<1>1. CASE \/ UNCHANGED vars
           \/ WindowElapses
           \/ \E c \in Callers : Returns(c) \/ Retries(c)
  <2>1. UNCHANGED <<buffer, entered, inFlight, posts, exhausted, failed>>
    BY <1>1 DEF vars, WindowElapses, Returns, Retries
  <2>2. UNCHANGED Settled /\ \A c \in Callers : Holds(c)' = Holds(c)
    BY <2>1 DEF Settled, Findings, Holds
  <2> QED
    BY <2>1, <2>2 DEF OnePlace
<1>2. ASSUME NEW s \in Senders, Send(s)
      PROVE  OnePlace'
  <2>1. /\ entered \in Nat /\ entered' = entered + 1 /\ entered' \in 1..MaxFindings
        /\ ToSet(buffer') = ToSet(buffer) \cup {entered'}
        /\ Settled' = Settled
        /\ \A c \in Callers : Holds(c)' = Holds(c)
    BY <1>2, SendFacts DEF Holds
  <2>2. /\ entered' \notin Settled
        /\ \A c \in Callers : entered' \notin Holds(c)
        /\ ToSet(buffer) \subseteq 1..entered
    <3>1. entered' \notin exhausted \cup failed
      BY <2>1 DEF TypeOK
    <3>2. ~ posts[entered'] > 0
      BY <2>1 DEF ShownHaveEntered, Findings
    <3>3. \A c \in Callers : Holds(c) \subseteq 1..entered
      BY ToSetFacts DEF TypeOK, Holds
    <3>4. ToSet(buffer) \subseteq 1..entered
      BY ToSetFacts DEF TypeOK
    <3> QED
      BY <2>1, <3>1, <3>2, <3>3, <3>4 DEF Settled
  <2>3. \A f \in 1..entered' : f \in 1..entered \/ f = entered'
    BY <2>1
  <2>4. \A f \in 1..entered : f # entered'
    BY <2>1
  <2> QED
    BY <2>1, <2>2, <2>3, <2>4 DEF OnePlace
<1>3. ASSUME NEW c \in Callers, Drains(c)
      PROVE  OnePlace'
  <2>1. /\ UNCHANGED <<entered, posts, exhausted, failed>>
        /\ buffer' = <<>>
        /\ inFlight' = [inFlight EXCEPT ![c] = buffer]
        /\ inFlight[c] = <<>>
        /\ DOMAIN inFlight = Callers
    BY <1>3 DEF Drains, Drain, HoldsWhilePosting, TypeOK
  <2>2. /\ UNCHANGED Settled
        /\ ToSet(buffer') = {} /\ Holds(c) = {}
        /\ Holds(c)' = ToSet(buffer)
        /\ \A d \in Callers \ {c} : Holds(d)' = Holds(d)
    BY <2>1, ToSetFacts DEF Settled, Findings, Holds, TypeOK
  <2> QED
    BY <2>1, <2>2 DEF OnePlace
<1>4. ASSUME NEW c \in Callers, Settles(c)
      PROVE  OnePlace'
  <2>1. /\ UNCHANGED <<buffer, entered>>
        /\ inFlight' = [inFlight EXCEPT ![c] = <<>>]
        /\ Settled' = Settled \cup Holds(c)
        /\ DOMAIN inFlight = Callers
    BY <1>4, SettlesFacts DEF TypeOK
  <2>2. /\ Holds(c)' = {}
        /\ \A d \in Callers \ {c} : Holds(d)' = Holds(d)
    BY <2>1, ToSetFacts DEF Holds, TypeOK
  <2> QED
    BY <2>1, <2>2 DEF OnePlace
<1> QED
  BY <1>1, <1>2, <1>3, <1>4, StepCases

LEMMA NextKeepsErrorsAreDrops ==
  ASSUME TypeOK, HoldsWhilePosting, TimerMeansWaiting, OnePlace, ErrorsAreDrops, [Next]_vars
  PROVE  ErrorsAreDrops'
<1>1. CASE UNCHANGED <<exhausted, failed, errors>>
  BY <1>1 DEF ErrorsAreDrops
<1>2. ASSUME NEW c \in Callers, Settles(c), CountError(c),
             exhausted' \cup failed' = exhausted \cup failed \cup Holds(c)
      PROVE  ErrorsAreDrops'
  <2> DEFINE D == exhausted \cup failed
  <2>1. D \cap Holds(c) = {} /\ Holds(c) # {} /\ Holds(c) \subseteq 1..entered
    BY <1>2, SettlesFacts DEF OnePlace, Settled
  <2>2. IsFiniteSet(D) /\ IsFiniteSet(Holds(c))
    <3>1. 0 <= entered /\ entered \in Int /\ IsFiniteSet(1..entered)
      BY SlackAssumption, FS_Interval DEF SlackAssumption, TypeOK
    <3>2. D \subseteq 1..entered
      BY DEF TypeOK
    <3> QED
      BY <2>1, <3>1, <3>2, FS_Subset
  <2>3. PICK f \in Holds(c) : f \notin D
    BY <2>1
  <2>4. /\ IsFiniteSet(D \cup {f}) /\ Cardinality(D \cup {f}) = Cardinality(D) + 1
        /\ Cardinality(D) \in Nat
    BY <2>2, <2>3, FS_AddElement, FS_CardinalityType
  <2>5. IsFiniteSet(D \cup Holds(c)) /\ D \cup {f} \subseteq D \cup Holds(c)
    BY <2>2, <2>3, FS_Union
  <2>6. /\ Cardinality(D \cup {f}) <= Cardinality(D \cup Holds(c))
        /\ Cardinality(D \cup Holds(c)) \in Nat
    BY <2>5, FS_Subset, FS_CardinalityType
  <2>7. errors' <= errors + 1 /\ errors' \in Nat /\ errors \in Nat
    BY <1>2, SlackAssumption DEF CountError, TypeOK, SlackAssumption
  <2>8. exhausted' \cup failed' = D \cup Holds(c)
    BY <1>2
  <2> HIDE DEF D
  <2>9. errors <= Cardinality(D)
    BY DEF ErrorsAreDrops, D
  <2>10. errors' <= Cardinality(D \cup Holds(c))
    BY <2>4, <2>6, <2>7, <2>9
  <2> QED
    BY <2>8, <2>10 DEF ErrorsAreDrops
<1>3. ASSUME NEW c \in Callers, Settles(c)
      PROVE  ErrorsAreDrops'
  <2>1. CASE UNCHANGED <<exhausted, failed, errors>>
    BY <1>1, <2>1
  <2>2. CASE /\ CountError(c)
             /\ exhausted' \cup failed' = exhausted \cup failed \cup Holds(c)
    BY <1>2, <1>3, <2>2
  <2> QED
    BY <1>3, <2>1, <2>2 DEF Settles, Holds
<1>4. ASSUME NEW c \in Callers, Drains(c) \/ Returns(c) \/ Retries(c)
      PROVE  ErrorsAreDrops'
  BY <1>1, <1>4 DEF Drains, Drain, Returns, Retries
<1> QED
  BY <1>1, <1>3, <1>4, StepCases DEF vars, WindowElapses, Send

LEMMA NextKeepsMessageIsBounded ==
  ASSUME TypeOK, HoldsWhilePosting, TimerMeansWaiting, MessageIsBounded, [Next]_vars
  PROVE  MessageIsBounded'
<1> DEFINE Room == Len(buffer) <= BatchSize - 1 + Cardinality(FullSenders)
           Sized == \A c \in Callers : Len(inFlight[c]) <= BatchSize + Cardinality(Senders) - 1
<1>1. MessageIsBounded <=> Room /\ Sized
  BY DEF MessageIsBounded, FullSenders
<1>2. MessageIsBounded' <=> Room' /\ Sized'
  BY DEF MessageIsBounded, FullSenders
<1>0. BatchSize \in Nat \ {0} /\ Len(buffer) \in Nat
  BY SlackAssumption DEF SlackAssumption, TypeOK
<1>a. \A n \in Nat : n <= BatchSize - 1 + Cardinality(FullSenders)
        => n <= BatchSize + Cardinality(Senders) - 1
  BY <1>0, FullSendersFacts, CallersFacts
<1>b. IsFiniteSet(FullSenders') /\ Cardinality(FullSenders') \in Nat
  <2>1. FullSenders' \subseteq Senders
    BY DEF FullSenders
  <2> QED
    BY <2>1, CallersFacts, FS_Subset, FS_CardinalityType
<1>3. CASE UNCHANGED <<buffer, inFlight, doing>>
  BY <1>3 DEF MessageIsBounded
<1>4. ASSUME NEW s \in Senders, Send(s)
      PROVE  MessageIsBounded'
  <2>1. /\ Len(buffer') = Len(buffer) + 1
        /\ UNCHANGED inFlight
        /\ doing[s] = "idle"
        /\ doing' = [doing EXCEPT ![s] = IF Full(Len(buffer')) THEN "full" ELSE "idle"]
        /\ s \in Callers
    BY <1>4, SendFacts, CallersFacts DEF Send
  <2>2. CASE Full(Len(buffer'))
    <3>1. FullSenders' = FullSenders \cup {s} /\ s \notin FullSenders
      BY <2>1, <2>2, CallersFacts DEF FullSenders, TypeOK
    <3>2. Cardinality(FullSenders') = Cardinality(FullSenders) + 1
      BY <3>1, FullSendersFacts, FS_AddElement
    <3> QED
      BY <1>0, <1>1, <1>2, <2>1, <3>2, FullSendersFacts
  <2>3. CASE ~ Full(Len(buffer'))
    <3>1. Len(buffer') <= BatchSize - 1
      BY <1>0, <2>1, <2>3 DEF Full
    <3> QED
      BY <1>0, <1>1, <1>2, <1>b, <2>1, <3>1
  <2> QED
    BY <2>2, <2>3
<1>5. ASSUME NEW c \in Callers, Drains(c)
      PROVE  MessageIsBounded'
  <2>1. /\ buffer' = <<>>
        /\ inFlight' = [inFlight EXCEPT ![c] = buffer]
        /\ DOMAIN inFlight = Callers
    BY <1>5 DEF Drains, Drain, TypeOK
  <2>2. Len(buffer) <= BatchSize + Cardinality(Senders) - 1
    BY <1>0, <1>1, <1>a
  <2>3. Len(buffer') = 0
    BY <2>1
  <2>4. Room'
    BY <1>0, <1>b, <2>3
  <2>5. Sized'
    BY <1>1, <2>1, <2>2
  <2> QED
    BY <1>2, <2>4, <2>5
<1>6. ASSUME NEW c \in Callers, Returns(c)
      PROVE  MessageIsBounded'
  <2>1. Len(buffer') = 0 /\ UNCHANGED inFlight
    BY <1>6 DEF Returns
  <2>2. Room'
    BY <1>0, <1>b, <2>1
  <2> QED
    BY <1>1, <1>2, <2>1, <2>2
<1>7. ASSUME NEW c \in Callers, Settles(c)
      PROVE  MessageIsBounded'
  <2>1. /\ UNCHANGED buffer
        /\ inFlight' = [inFlight EXCEPT ![c] = <<>>]
        /\ DOMAIN inFlight = Callers
        /\ FullSenders' = FullSenders
    BY <1>7, CallersFacts DEF Settles, Settle, Return, TypeOK, FullSenders
  <2>2. Sized'
    BY <1>0, <1>1, <2>1, CallersFacts
  <2> QED
    BY <1>1, <1>2, <2>1, <2>2
<1> QED
  BY <1>3, <1>4, <1>5, <1>6, <1>7, StepCases DEF vars, WindowElapses, Retries

LEMMA NextKeepsTypes ==
  ASSUME SlackInv, ErrorsAreDrops', [Next]_vars
  PROVE  TypeOK'
<1> USE DEF SlackInv
<1>0. /\ MaxFindings \in Nat /\ MaxRetries \in Nat
      /\ entered \in 0..MaxFindings
      /\ buffer \in Seq(1..entered)
      /\ doing \in [Callers -> {"idle", "full", "posting", "done"}]
      /\ DOMAIN inFlight = Callers
      /\ \A c \in Callers : inFlight[c] \in Seq(1..entered)
      /\ attempt \in [Callers -> 0..MaxRetries]
      /\ posts \in [Findings -> Nat]
      /\ exhausted \subseteq 1..entered /\ failed \subseteq 1..entered
      /\ timer \in {"off", "running", "due"}
      /\ errors \in 0..MaxFindings
  BY SlackAssumption DEF SlackAssumption, TypeOK
<1>1. CASE UNCHANGED vars \/ WindowElapses
  BY <1>0, <1>1 DEF vars, WindowElapses, TypeOK
<1>2. ASSUME NEW s \in Senders, Send(s)
      PROVE  TypeOK'
  <2>1. /\ entered' \in 0..MaxFindings
        /\ entered' = entered + 1
        /\ buffer' \in Seq(1..entered')
        /\ UNCHANGED <<inFlight, posts, exhausted, failed, errors, attempt>>
    BY <1>0, <1>2, SendFacts
  <2>2. 1..entered \subseteq 1..entered' /\ Seq(1..entered) \subseteq Seq(1..entered')
    BY <1>0, <2>1, SeqGrows
  <2>3. doing' \in [Callers -> {"idle", "full", "posting", "done"}]
    BY <1>0, <1>2 DEF Send
  <2>4. timer' \in {"off", "running", "due"}
    BY <1>0, <1>2 DEF Send
  <2>5. \A c \in Callers : inFlight'[c] \in Seq(1..entered')
    BY <1>0, <2>1, <2>2
  <2>6. {exhausted', failed'} \subseteq SUBSET (1..entered')
    BY <1>0, <2>1, <2>2
  <2> QED
    BY <1>0, <2>1, <2>3, <2>4, <2>5, <2>6 DEF TypeOK, Findings
<1>3. ASSUME NEW c \in Callers, Drains(c)
      PROVE  TypeOK'
  <2>1. /\ timer' = "off" /\ buffer' = <<>>
        /\ inFlight' = [inFlight EXCEPT ![c] = buffer]
        /\ doing' = [doing EXCEPT ![c] = "posting"]
        /\ attempt' = [attempt EXCEPT ![c] = 0]
        /\ UNCHANGED <<entered, posts, exhausted, failed, errors>>
    BY <1>3 DEF Drains, Drain
  <2>2. buffer' \in Seq(1..entered')
    BY <2>1
  <2>3. DOMAIN inFlight' = Callers /\ \A d \in Callers : inFlight'[d] \in Seq(1..entered')
    BY <1>0, <2>1
  <2>4. /\ attempt' \in [Callers -> 0..MaxRetries]
        /\ doing' \in [Callers -> {"idle", "full", "posting", "done"}]
    BY <1>0, <2>1
  <2> QED
    BY <1>0, <2>1, <2>2, <2>3, <2>4 DEF TypeOK, Findings
<1>4. ASSUME NEW c \in Callers, Returns(c) \/ Retries(c)
      PROVE  TypeOK'
  <2>1. UNCHANGED <<buffer, timer, entered, inFlight, posts, exhausted, failed, errors>>
    BY <1>4 DEF Returns, Retries
  <2>2. attempt' \in [Callers -> 0..MaxRetries]
    <3>1. CASE Returns(c)
      BY <1>0, <3>1 DEF Returns
    <3>2. CASE Retries(c)
      <4>1. attempt[c] \in 0..MaxRetries /\ attempt[c] < MaxRetries
        BY <1>0, <3>2 DEF Retries
      <4>2. attempt[c] + 1 \in 0..MaxRetries
        BY <1>0, <4>1
      <4> QED
        BY <1>0, <3>2, <4>2 DEF Retries
    <3> QED
      BY <1>4, <3>1, <3>2
  <2>3. doing' \in [Callers -> {"idle", "full", "posting", "done"}]
    BY <1>0, <1>4 DEF Returns, Retries, Return
  <2> QED
    BY <1>0, <2>1, <2>2, <2>3 DEF TypeOK, Findings
<1>5. ASSUME NEW c \in Callers, Settles(c)
      PROVE  TypeOK'
  <2>1. /\ UNCHANGED <<buffer, timer, entered>>
        /\ inFlight' = [inFlight EXCEPT ![c] = <<>>]
        /\ Holds(c) \subseteq 1..entered
        /\ posts' \in [Findings -> Nat]
    BY <1>5, SettlesFacts
  <2>2. /\ doing' \in [Callers -> {"idle", "full", "posting", "done"}]
        /\ attempt' \in [Callers -> 0..MaxRetries]
    BY <1>0, <1>5 DEF Settles, Settle, Return
  <2>3. DOMAIN inFlight' = Callers /\ \A d \in Callers : inFlight'[d] \in Seq(1..entered')
    <3>1. <<>> \in Seq(1..entered)
      OBVIOUS
    <3>2. ASSUME NEW d \in Callers
          PROVE  inFlight'[d] \in Seq(1..entered)
      BY <1>0, <2>1, <3>1
    <3> QED
      BY <1>0, <2>1, <3>2
  <2>4. exhausted' \subseteq 1..entered' /\ failed' \subseteq 1..entered'
    BY <1>0, <1>5, <2>1 DEF Settles, Holds
  <2>5. errors' \in Nat
    BY <1>0, <1>5 DEF Settles, CountError
  <2>6. errors' \in 0..MaxFindings
    <3> DEFINE D == exhausted' \cup failed'
    <3>1. IsFiniteSet(1..entered) /\ Cardinality(1..entered) = entered
      <4>1. 1 \in Int /\ entered \in Int /\ entered >= 0
        BY <1>0
      <4> QED
        BY <4>1, FS_Interval
    <3>2. D \in SUBSET (1..entered)
      BY <2>1, <2>4
    <3> HIDE DEF D
    <3>3. Cardinality(D) <= entered /\ Cardinality(D) \in Nat
      BY <3>1, <3>2, FS_Subset, FS_CardinalityType
    <3>4. errors' <= Cardinality(D)
      BY DEF ErrorsAreDrops, D
    <3> QED
      BY <1>0, <2>5, <3>3, <3>4
  <2> QED
    BY <1>0, <2>1, <2>2, <2>3, <2>4, <2>6 DEF TypeOK, Findings
<1> QED
  BY <1>1, <1>2, <1>3, <1>4, <1>5, StepCases

---------------------------------------------------------------------------
(* The theorems. *)

LEMMA InitSlackInv == Init => SlackInv
<1> SUFFICES ASSUME Init
             PROVE  SlackInv
  OBVIOUS
<1> USE SlackAssumption DEF SlackAssumption, Init
<1>1. TypeOK /\ HoldsWhilePosting /\ TimerMeansWaiting /\ ShownHaveEntered
  BY DEF TypeOK, HoldsWhilePosting, TimerMeansWaiting, ShownHaveEntered, Findings
<1>2. OnePlace /\ NeverPostedTwice
  BY DEF OnePlace, NeverPostedTwice, Findings
<1>3. ErrorsAreDrops
  BY FS_EmptySet DEF ErrorsAreDrops
<1>4. MessageIsBounded
  <2>1. FullSenders = {}
    BY CallersFacts DEF FullSenders
  <2>2. Cardinality({s \in Senders : doing[s] = "full"}) = 0
    BY <2>1, FS_EmptySet DEF FullSenders
  <2> QED
    BY <2>2, CallersFacts DEF MessageIsBounded
<1> QED
  BY <1>1, <1>2, <1>3, <1>4 DEF SlackInv

\* The invariant of the buffer, its timer and the batches its callers hold.
THEOREM SlackInvHolds == Spec => []SlackInv
<1>1. SlackInv /\ [Next]_vars => SlackInv'
  BY NextKeepsTypes, NextKeepsHoldsWhilePosting, NextKeepsTimerMeansWaiting,
     NextKeepsShownHaveEntered, NextKeepsOnePlace, NextKeepsNeverPostedTwice,
     NextKeepsErrorsAreDrops, NextKeepsMessageIsBounded DEF SlackInv
<1> QED
  BY <1>1, InitSlackInv, PTL DEF Spec

\* Every variable keeps to its type; no more errors are counted than findings dropped.
THEOREM SlackTypes == Spec => []TypeOK
<1>1. SlackInv => TypeOK
  BY DEF SlackInv
<1> QED
  BY <1>1, SlackInvHolds, PTL

\* flush drains the buffer under the mutex that pushing takes: whatever the interleaving of
\* scan loops, ticker and final flush, a finding is in the buffer, in one caller's batch or
\* settled, and in no two of these.
THEOREM FindingsAreInOnePlace == Spec => []OnePlaceEach
<1>1. SlackInv => OnePlaceEach
  <2> SUFFICES ASSUME OnePlace, NEW f \in 1..entered
               PROVE  Cardinality({c \in Callers : f \in ToSet(inFlight[c])})
                        + (IF f \in ToSet(buffer) THEN 1 ELSE 0)
                        + (IF f \in Settled THEN 1 ELSE 0) = 1
    BY DEF SlackInv, OnePlaceEach
  <2> DEFINE H == {c \in Callers : f \in ToSet(inFlight[c])}
  <2>1. CASE H = {}
    <3>1. Cardinality(H) = 0
      BY <2>1, FS_EmptySet
    <3>2. f \in ToSet(buffer) \cup Settled /\ (f \in ToSet(buffer) => f \notin Settled)
      BY <2>1 DEF OnePlace, Holds
    <3> QED
      BY <3>1, <3>2
  <2>2. CASE H # {}
    <3>1. PICK c \in Callers : f \in Holds(c)
      BY <2>2 DEF Holds
    <3>2. f \notin ToSet(buffer) /\ f \notin Settled
      BY <3>1 DEF OnePlace
    <3>3. H = {c}
      BY <3>1 DEF OnePlace, Holds
    <3>4. Cardinality(H) = 1
      BY <3>3, FS_Singleton
    <3> QED
      BY <3>2, <3>4
  <2> QED
    BY <2>1, <2>2
<1> QED
  BY <1>1, SlackInvHolds, PTL

\* Pushing starts the timer with the buffer's first finding and draining stops it: what
\* waits is timed, and no timer outlives the batch it was started for.
THEOREM TimerIsOfTheBuffer == Spec => []TimerMeansWaiting
<1>1. SlackInv => TimerMeansWaiting
  BY DEF SlackInv
<1> QED
  BY <1>1, SlackInvHolds, PTL

\* A message holds at most batch_size findings, and one more for every other scan loop
\* that pushed before the buffer was drained.
THEOREM MessagesAreBounded == Spec => []MessageIsBounded
<1>1. SlackInv => MessageIsBounded
  BY DEF SlackInv
<1> QED
  BY <1>1, SlackInvHolds, PTL

\* send_batch retries only what Slack refused, and no two callers post the same finding:
\* no finding is shown twice.
THEOREM NothingIsPostedTwice == Spec => []NeverPostedTwice
<1>1. SlackInv => NeverPostedTwice
  BY DEF SlackInv
<1> QED
  BY <1>1, SlackInvHolds, PTL

=============================================================================
