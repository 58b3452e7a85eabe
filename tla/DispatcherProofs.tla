------------------------- MODULE DispatcherProofs -------------------------
(***************************************************************************)
(* Proofs about Dispatcher, for every set of loops, alert configuration,   *)
(* versions of the rules, batches, keys, window and pruning threshold.     *)
(*                                                                         *)
(* The deduplicator is shared by the loops; what its own proofs show of it *)
(* is used here through an instance, whose definitions are those of the    *)
(* dispatcher's own (the Same... lemmas).  The inductive invariant adds to *)
(* it the versions in use, all of them checked and their warnings written, *)
(* and of a loop that calls a channel what it has called so far and that   *)
(* its key has alerted since.                                              *)
(***************************************************************************)
EXTENDS Dispatcher, WellFoundedInduction, FiniteSetTheorems, SequenceTheorems, TLAPS

Cache == INSTANCE DeduplicatorProofs

\* A set of natural numbers that is not empty has a least element.
LEMMA LeastElement ==
  ASSUME NEW S \in SUBSET Nat, S # {}
  PROVE  \E n \in S : \A k \in S : n <= k
<1>1. PICK n \in S : \A k \in S : ~ <<k, n>> \in OpToRel(<, Nat)
  BY NatLessThanWellFounded, WFMin
<1>2. \A k \in S : <<k, n>> \in Nat \X Nat
  OBVIOUS
<1>3. \A k \in S : ~ k < n
  BY <1>1, <1>2 DEF OpToRel
<1>4. \A k \in S : k \in Nat /\ n \in Nat
  OBVIOUS
<1>5. \A k \in S : n <= k
  BY <1>3, <1>4
<1> QED
  BY <1>5

\* What a loop may be at, and what it notes of a call.
LoopStates == [rules : 0..Len(Routes), batch : Seq(Events), findings : Seq(Keys), at : 1..Done]
Calls == [channel : Channels, answer : UNION {ChannelSend(KindOf[c]) : c \in Channels}]

LoopTypes == /\ loop \in [Loops -> LoopStates]
             /\ answers \in [Loops -> Seq(Calls)]
             /\ alertedAt \in [Loops -> 0..MaxTime]
             /\ \A l \in Loops : loop[l].rules = 0 => loop[l] = Idle
             /\ failed \subseteq Keys

DeadAreIdle == \A l \in Loops : l \in dead => loop[l] = Idle

\* A loop's findings are of the keys that its rules find.
Found(l) == loop[l].rules # 0 => loop[l].findings \in Seq(DOMAIN Routes[loop[l].rules])
FoundByRules == \A l \in Loops : Found(l)

\* No version is in use, or was when a batch that is still scanned arrived, whose routing
\* has not been checked.
UsedAreChecked == /\ checked \subseteq DOMAIN Routes
                  /\ rules \in checked
                  /\ \A l \in Loops : loop[l].rules # 0 => loop[l].rules \in checked

\* The checks warned of all they had to, and of nothing else.
CheckedWereWarned == /\ \A v \in checked : Warnings(v) \subseteq warned
                     /\ \A w \in warned : w[1] \in checked

\* The calls of a sequence of answers, and what makes them complete up to a channel.
Called(calls) == {calls[i].channel : i \in DOMAIN calls}
Ascending(calls) == \A i, j \in DOMAIN calls : i < j => calls[i].channel < calls[j].channel
RoutedBefore(route, n) == {c \in Channels : c < n /\ Routed(route, c)}

\* A loop that is to call a channel on the route has called those before it, in order, for
\* a key that has alerted, then or again since.
CallsInOrder ==
  \A l \in Loops :
    Calling(l) => /\ loop[l].findings # <<>>
                  /\ Routed(RouteOf(l), loop[l].at)
                  /\ Called(answers[l]) = RoutedBefore(RouteOf(l), loop[l].at)
                  /\ Ascending(answers[l])
                  /\ KeyOf(l) \in DOMAIN lastAlert
                  /\ alertedAt[l] <= lastAlert[KeyOf(l)]

DispatcherInv == /\ Cache!CacheInv
                 /\ LoopTypes
                 /\ DeadAreIdle
                 /\ FoundByRules
                 /\ UsedAreChecked
                 /\ CheckedWereWarned
                 /\ CallsInOrder
                 /\ MissedWasWarned
                 /\ OneAlertInFlight

---------------------------------------------------------------------------
(* The instances agree. *)

LEMMA SameCardinality ==
  ASSUME NEW S
  PROVE  /\ Dedup!Cardinality(S) = Cache!Cardinality(S)
         /\ IsFiniteSet(S) <=> Cache!IsFiniteSet(S)
<1>1. Dedup!Cardinality(S) = Cache!Cardinality(S)
  BY Zenon DEF Dedup!Cardinality, Cache!Cardinality
<1>2. IsFiniteSet(S) <=> Cache!IsFiniteSet(S)
  BY Zenon DEF IsFiniteSet, Cache!IsFiniteSet
<1> QED
  BY <1>1, <1>2

LEMMA CacheAssumption == Cache!DedupAssumption
  BY SameCardinality, DispatcherAssumption DEF DispatcherAssumption, Cache!DedupAssumption

LEMMA SameCall ==
  ASSUME NEW k, Dedup!ShouldAlert(k)
  PROVE  Cache!ShouldAlert(k)
<1>1. \A map, n : Dedup!Pruned(map, n) = Cache!Pruned(map, n)
  BY SameCardinality DEF Dedup!Pruned, Dedup!Retain, Cache!Pruned, Cache!Retain
<1>2. \A map, j : Dedup!InWindow(map, j) = Cache!InWindow(map, j)
  BY DEF Dedup!InWindow, Cache!InWindow
<1>3. \A map, j, n : Dedup!Insert(map, j, n) = Cache!Insert(map, j, n)
  BY DEF Dedup!Insert, Cache!Insert
<1>4. \A map, j, alerts : Dedup!Stamp(map, j, alerts) = Cache!Stamp(map, j, alerts)
  BY <1>3 DEF Dedup!Stamp, Cache!Stamp
<1> QED
  BY <1>1, <1>2, <1>3, <1>4 DEF Dedup!ShouldAlert, Cache!ShouldAlert

LEMMA SameInit ==
  ASSUME Dedup!Init
  PROVE  Cache!Init
  BY DEF Dedup!Init, Dedup!NoVerdict, Cache!Init, Cache!NoVerdict

LEMMA SameTypes ==
  ASSUME Cache!TypeOK
  PROVE  Dedup!TypeOK
  BY DEF Dedup!TypeOK, Dedup!NoVerdict, Cache!TypeOK, Cache!NoVerdict

---------------------------------------------------------------------------
(* Names and routes. *)

IsSequence(s) == \E S : s \in Seq(S)

LEMMA ConcatIsSequence ==
  ASSUME NEW s, NEW t, IsSequence(s), IsSequence(t)
  PROVE  IsSequence(s \o t)
<1>1. PICK A : s \in Seq(A)
  BY DEF IsSequence
<1>2. PICK B : t \in Seq(B)
  BY DEF IsSequence
<1>3. s \in Seq(A \cup B) /\ t \in Seq(A \cup B)
  BY <1>1, <1>2
<1>4. s \o t \in Seq(A \cup B)
  BY <1>3
<1> QED
  BY <1>4 DEF IsSequence

LEMMA FunctionIsSequence ==
  ASSUME NEW S, NEW s \in Seq(S), NEW f, f = [i \in DOMAIN s |-> f[i]]
  PROVE  IsSequence(f)
<1>1. Len(s) \in Nat /\ DOMAIN s = 1..Len(s)
  OBVIOUS
<1>2. f \in [1..Len(s) -> {f[i] : i \in 1..Len(s)}]
  BY <1>1
<1>3. f \in Seq({f[i] : i \in 1..Len(s)})
  BY <1>1, <1>2
<1> QED
  BY <1>3 DEF IsSequence

LEMMA AppendFacts ==
  ASSUME NEW S, NEW s \in Seq(S), NEW e \in S
  PROVE  /\ Append(s, e) \in Seq(S)
         /\ Len(s) \in Nat /\ DOMAIN s = 1..Len(s)
         /\ DOMAIN Append(s, e) = (1..Len(s)) \cup {Len(s) + 1}
         /\ Append(s, e)[Len(s) + 1] = e
         /\ \A i \in 1..Len(s) : Append(s, e)[i] = s[i]
<1>1. /\ Append(s, e) \in Seq(S)
      /\ Len(s) \in Nat /\ DOMAIN s = 1..Len(s)
      /\ Len(Append(s, e)) = Len(s) + 1
      /\ Append(s, e)[Len(s) + 1] = e
      /\ \A i \in 1..Len(s) : Append(s, e)[i] = s[i]
  OBVIOUS
<1>2. DOMAIN Append(s, e) = 1..(Len(s) + 1)
  BY <1>1
<1>3. 1..(Len(s) + 1) = (1..Len(s)) \cup {Len(s) + 1}
  BY <1>1
<1> QED
  BY <1>1, <1>2, <1>3

\* The channels are numbered from 1; Done is the number after the last.
LEMMA ChannelsAreNumbered ==
  /\ Done \in Nat \ {0}
  /\ Channels = 1..(Done - 1)
  /\ Names = <<>> <=> Channels = {}
<1> DEFINE a == Alerts
           j == [i \in DOMAIN a.jsonl |-> Given(a.jsonl[i], <<"jsonl">>)]
           w == [i \in DOMAIN a.webhooks |-> Given(a.webhooks[i], Default("webhook", a.webhooks, i))]
           s == [i \in DOMAIN a.slack |-> Given(a.slack[i], Default("slack", a.slack, i))]
           p == [i \in DOMAIN a.postgres |-> Given(a.postgres[i], <<"postgres">>)]
<1>1. /\ a.jsonl \in Seq(GivenNames) /\ a.webhooks \in Seq(GivenNames)
      /\ a.slack \in Seq(GivenNames) /\ a.postgres \in Seq(GivenNames)
  BY DispatcherAssumption DEF DispatcherAssumption
<1>2. IsSequence(j) /\ IsSequence(w) /\ IsSequence(s) /\ IsSequence(p)
  <2>1. IsSequence(j)
    BY <1>1, FunctionIsSequence
  <2>2. IsSequence(w)
    BY <1>1, FunctionIsSequence
  <2>3. IsSequence(s)
    BY <1>1, FunctionIsSequence
  <2>4. IsSequence(p)
    BY <1>1, FunctionIsSequence
  <2> QED
    BY <2>1, <2>2, <2>3, <2>4
<1>3. ASSUME NEW on, NEW kind
      PROVE  IsSequence(Switch(on, kind))
  <2>1. << <<kind>> >> \in Seq({<<kind>>}) /\ <<>> \in Seq({})
    OBVIOUS
  <2> QED
    BY <2>1 DEF Switch, IsSequence
<1>4. IsSequence(Names)
  <2>1. Names = Switch(a.log, "log") \o Switch(a.stdout, "stdout") \o j \o w \o s \o p
    BY DEF Names, DispatcherNames
  <2> HIDE DEF j, w, s, p, a
  <2>2. IsSequence(Switch(a.log, "log") \o Switch(a.stdout, "stdout"))
    BY <1>3, ConcatIsSequence
  <2>3. IsSequence(Switch(a.log, "log") \o Switch(a.stdout, "stdout") \o j)
    BY <1>2, <2>2, ConcatIsSequence
  <2>4. IsSequence(Switch(a.log, "log") \o Switch(a.stdout, "stdout") \o j \o w)
    BY <1>2, <2>3, ConcatIsSequence
  <2>5. IsSequence(Switch(a.log, "log") \o Switch(a.stdout, "stdout") \o j \o w \o s)
    BY <1>2, <2>4, ConcatIsSequence
  <2> QED
    BY <1>2, <2>1, <2>5, ConcatIsSequence
<1>5. PICK S : Names \in Seq(S)
  BY <1>4 DEF IsSequence
<1>6. Len(Names) \in Nat /\ DOMAIN Names = 1..Len(Names) /\ (Names = <<>> <=> Len(Names) = 0)
  BY <1>5
<1>7. Done = Len(Names) + 1 /\ Channels = DOMAIN Names
  BY DEF Done, Channels
<1>8. Done - 1 = Len(Names) /\ Done \in Nat \ {0}
  BY <1>6, <1>7
<1>9. Channels = 1..(Done - 1)
  BY <1>6, <1>7, <1>8
<1>10. Channels = {} <=> Len(Names) = 0
  <2>1. Channels = 1..Len(Names)
    BY <1>6, <1>7
  <2>2. Len(Names) # 0 => 1 \in 1..Len(Names)
    BY <1>6
  <2>3. Len(Names) = 0 => 1..Len(Names) = {}
    OBVIOUS
  <2> QED
    BY <2>1, <2>2, <2>3
<1> QED
  BY <1>6, <1>8, <1>9, <1>10

\* The next call is the first routed channel at or after c, or there is none.
LEMMA NextCallFacts ==
  ASSUME NEW route, NEW c \in 1..Done
  PROVE  LET n == NextCall(route, c)
         IN  /\ n \in c..Done
             /\ n # Done => n \in Channels /\ Routed(route, n)
             /\ \A d \in Channels : c <= d /\ d < n => ~ Routed(route, d)
<1> DEFINE S == {d \in Channels : d >= c /\ Routed(route, d)} \cup {Done}
           n == NextCall(route, c)
<1>1. Done \in Nat \ {0} /\ Channels = 1..(Done - 1)
  BY ChannelsAreNumbered
<1>2. S \in SUBSET Nat /\ S # {} /\ \A d \in S : d \in c..Done
  BY <1>1
<1>3. \E x \in S : \A y \in S : x <= y
  <2> HIDE DEF S
  <2> QED
    BY <1>2, LeastElement
<1>4. n = CHOOSE x \in S : \A y \in S : x <= y
  BY DEF NextCall, Min
<1>5. n \in S /\ \A y \in S : n <= y
  <2> HIDE DEF S, n
  <2> QED
    BY <1>3, <1>4
<1>6. n \in c..Done
  BY <1>2, <1>5
<1>7. n # Done => n \in Channels /\ Routed(route, n)
  BY <1>5
<1>8. ASSUME NEW d \in Channels, c <= d, d < n, Routed(route, d)
      PROVE  FALSE
  <2>1. d \in S
    BY <1>1, <1>8
  <2>2. n <= d
    BY <1>5, <2>1
  <2> QED
    BY <1>1, <1>6, <1>8, <2>2
<1> QED
  BY <1>6, <1>7, <1>8

---------------------------------------------------------------------------
(* The steps, by what they do to the loops. *)

\* A step that no loop takes: time, the reload, stuttering.
Quiet == UNCHANGED <<loop, dead, answers, alertedAt, failed, missed, lastAlert>>

OthersStay(l) ==
  \A m \in Loops \ {l} :
    loop'[m] = loop[m] /\ answers'[m] = answers[m] /\ alertedAt'[m] = alertedAt[m]

LEMMA StepCases ==
  ASSUME [Next]_vars
  PROVE  \/ Quiet
         \/ \E l \in Loops : Receive(l) \/ ScanEvent(l) \/ Dispatch(l) \/ Send(l) \/ Panic(l)
<1>1. CASE Tick
  BY <1>1 DEF Tick, Dedup!Tick, Quiet, histories
<1>2. CASE CheckRouting \/ SwapRules \/ UNCHANGED vars
  BY <1>2 DEF CheckRouting, SwapRules, vars, dedupVars, histories, Quiet
<1> QED
  BY <1>1, <1>2 DEF Next, LoopStep

\* What the types say of a loop with something to do.
LEMMA LoopFacts ==
  ASSUME LoopTypes, NEW l \in Loops
  PROVE  /\ loop[l] \in LoopStates
         /\ Done \in 1..Done
         /\ loop[l].rules # 0 => loop[l].rules \in DOMAIN Routes
         /\ loop[l].findings # <<>> => loop[l].rules # 0 /\ KeyOf(l) \in Keys
         /\ loop[l].findings # <<>> => Tail(loop[l].findings) \in Seq(Keys)
         /\ Calling(l) => loop[l].at \in Channels /\ loop[l].at + 1 \in 1..Done
<1>1. loop[l] \in LoopStates
  BY DEF LoopTypes
<1>2. Done \in Nat \ {0} /\ Channels = 1..(Done - 1)
  BY ChannelsAreNumbered
<1>3. loop[l].rules # 0 => loop[l].rules \in DOMAIN Routes
  BY <1>1, DispatcherAssumption DEF DispatcherAssumption, LoopStates
<1>4. loop[l].findings # <<>> => loop[l].rules # 0
  BY DEF LoopTypes, Idle
<1>5. loop[l].findings \in Seq(Keys)
  BY <1>1 DEF LoopStates
<1>6. loop[l].findings # <<>> => KeyOf(l) \in Keys /\ Tail(loop[l].findings) \in Seq(Keys)
  BY <1>5 DEF KeyOf
<1>7. loop[l].at \in 1..Done
  BY <1>1 DEF LoopStates
<1>8. Calling(l) => loop[l].at \in Channels /\ loop[l].at + 1 \in 1..Done
  BY <1>2, <1>7 DEF Calling
<1> QED
  BY <1>1, <1>2, <1>3, <1>4, <1>6, <1>8

LEMMA ReceiveFacts ==
  ASSUME LoopTypes, UsedAreChecked, NEW l \in Loops, Receive(l)
  PROVE  /\ loop' \in [Loops -> LoopStates] /\ answers' = answers
         /\ OthersStay(l)
         /\ loop'[l].rules = rules /\ rules # 0
         /\ loop'[l].at = Done /\ loop'[l].findings = <<>>
         /\ l \notin dead
         /\ UNCHANGED <<dedupVars, checked, warned, rules, dead, alertedAt, failed, missed>>
<1>1. PICK b \in Batches :
        loop' = [loop EXCEPT ![l] = [rules |-> rules, batch |-> b, findings |-> <<>>, at |-> Done]]
  BY DEF Receive
<1>3. rules \in 0..Len(Routes) /\ rules # 0 /\ b \in Seq(Events) /\ <<>> \in Seq(Keys)
  BY DispatcherAssumption DEF DispatcherAssumption, UsedAreChecked
<1>4. Done \in 1..Done
  BY LoopFacts
<1>5. [rules |-> rules, batch |-> b, findings |-> <<>>, at |-> Done] \in LoopStates
  BY <1>3, <1>4 DEF LoopStates
<1>6. loop \in [Loops -> LoopStates]
  BY DEF LoopTypes
<1>8. /\ UNCHANGED <<dedupVars, checked, warned, rules, dead, answers, alertedAt, failed, missed>>
      /\ l \notin dead
  BY DEF Receive, routing, histories
<1>9. loop'[l] = [rules |-> rules, batch |-> b, findings |-> <<>>, at |-> Done]
  BY <1>1, <1>6
<1> QED
  BY <1>1, <1>3, <1>5, <1>6, <1>8, <1>9 DEF OthersStay

LEMMA ScanEventFacts ==
  ASSUME LoopTypes, CallsInOrder, NEW l \in Loops, ScanEvent(l)
  PROVE  /\ loop' \in [Loops -> LoopStates] /\ answers' = answers
         /\ OthersStay(l)
         /\ \/ loop'[l] = Idle
            \/ /\ loop'[l].rules = loop[l].rules
               /\ loop'[l].findings \in Seq(DOMAIN Routes[loop[l].rules])
         /\ loop[l].rules # 0
         /\ loop[l].at = Done /\ loop'[l].at = Done
         /\ UNCHANGED <<dedupVars, checked, warned, rules, dead, alertedAt, failed, missed>>
<1>0. /\ loop \in [Loops -> LoopStates] /\ loop[l] \in LoopStates
      /\ loop[l].rules # 0 /\ loop[l].rules \in DOMAIN Routes
      /\ loop[l].findings = <<>>
      /\ UNCHANGED <<dedupVars, checked, warned, rules, dead, answers, alertedAt, failed, missed>>
      /\ Done \in 1..Done
  BY LoopFacts DEF LoopTypes, ScanEvent, routing, histories
<1>1. loop[l].at = Done
  BY <1>0 DEF CallsInOrder, Calling
<1>2. CASE loop[l].batch = <<>>
  <2>1. loop' = [loop EXCEPT ![l] = Idle]
    BY <1>2 DEF ScanEvent
  <2>2. Idle \in LoopStates /\ Idle.at = Done
    BY <1>0, DispatcherAssumption DEF DispatcherAssumption, Idle, LoopStates
  <2> QED
    BY <1>0, <1>1, <2>1, <2>2 DEF OthersStay
<1>3. CASE loop[l].batch # <<>>
  <2> DEFINE found == Head(loop[l].batch)[loop[l].rules]
             rest == Tail(loop[l].batch)
             new == [loop[l] EXCEPT !.batch = rest, !.findings = found]
  <2>1. loop[l].batch \in Seq(Events)
    BY <1>0 DEF LoopStates
  <2>2. Head(loop[l].batch) \in Events /\ Tail(loop[l].batch) \in Seq(Events)
    BY <1>3, <2>1
  <2>3. found \in Seq(Keys) /\ found \in Seq(DOMAIN Routes[loop[l].rules])
    BY <1>0, <2>2 DEF Events
  <2>4. /\ new \in LoopStates /\ new.rules = loop[l].rules /\ new.at = loop[l].at
        /\ new.findings = found
    <3> HIDE DEF found, rest
    <3> QED
      BY <1>0, <2>2, <2>3 DEF LoopStates, rest
  <2>5. loop' = [loop EXCEPT ![l].batch = Tail(@), ![l].findings = found]
    BY <1>3 DEF ScanEvent
  <2>6. loop' = [loop EXCEPT ![l] = new]
    BY <2>5
  <2> HIDE DEF new
  <2>7. loop'[l] = new /\ loop' \in [Loops -> LoopStates]
    BY <1>0, <2>4, <2>6
  <2> QED
    BY <1>0, <1>1, <2>3, <2>4, <2>6, <2>7 DEF OthersStay
<1> QED
  BY <1>2, <1>3

LEMMA PanicFacts ==
  ASSUME LoopTypes, NEW l \in Loops, Panic(l)
  PROVE  /\ loop' \in [Loops -> LoopStates] /\ answers' = answers
         /\ OthersStay(l)
         /\ loop'[l] = Idle
         /\ Calling(l)
         /\ dead' = dead \cup {l}
         /\ UNCHANGED <<dedupVars, checked, warned, rules, alertedAt, failed, missed>>
<1>1. /\ loop' = [loop EXCEPT ![l] = Idle] /\ Calling(l) /\ dead' = dead \cup {l}
      /\ UNCHANGED <<dedupVars, checked, warned, rules, answers, alertedAt, failed, missed>>
  BY DEF Panic, Calling, routing, histories
<1>2. Idle \in LoopStates
  BY LoopFacts, DispatcherAssumption DEF DispatcherAssumption, Idle, LoopStates
<1>3. loop \in [Loops -> LoopStates]
  BY DEF LoopTypes
<1> QED
  BY <1>1, <1>2, <1>3 DEF OthersStay

\* A loop is through with a finding.
Ends(l) == /\ loop'[l].rules = loop[l].rules
           /\ loop'[l].findings = Tail(loop[l].findings)
           /\ loop'[l].at = Done

LEMMA FinishedFacts ==
  ASSUME LoopTypes, NEW l \in Loops, loop[l].findings # <<>>, loop' = Finished(l)
  PROVE  loop' \in [Loops -> LoopStates] /\ Ends(l) /\ \A m \in Loops \ {l} : loop'[m] = loop[m]
<1> DEFINE rest == Tail(loop[l].findings)
           new == [loop[l] EXCEPT !.findings = rest, !.at = Done]
<1>1. loop \in [Loops -> LoopStates] /\ loop[l] \in LoopStates
  BY DEF LoopTypes
<1>2. loop' = [loop EXCEPT ![l] = new]
  BY DEF Finished
<1>3. rest \in Seq(Keys) /\ Done \in 1..Done
  BY LoopFacts
<1>4. /\ new \in LoopStates /\ new.rules = loop[l].rules /\ new.at = Done
      /\ new.findings = rest
  <2> HIDE DEF rest
  <2> QED
    BY <1>1, <1>3 DEF LoopStates
<1> HIDE DEF new
<1>5. loop'[l] = new
  BY <1>1, <1>2
<1> QED
  BY <1>1, <1>2, <1>4, <1>5 DEF Ends

LEMMA CallFacts ==
  ASSUME LoopTypes, NEW l \in Loops, NEW n \in 1..Done, loop' = [loop EXCEPT ![l].at = n]
  PROVE  /\ loop' \in [Loops -> LoopStates] /\ \A m \in Loops \ {l} : loop'[m] = loop[m]
         /\ loop'[l].rules = loop[l].rules /\ loop'[l].findings = loop[l].findings
         /\ loop'[l].at = n
<1> DEFINE new == [rules |-> loop[l].rules, batch |-> loop[l].batch,
                   findings |-> loop[l].findings, at |-> n]
<1>1. loop \in [Loops -> LoopStates] /\ loop[l] \in LoopStates
  BY DEF LoopTypes
<1>2. loop' = [loop EXCEPT ![l] = new]
  <2>1. loop' = [loop EXCEPT ![l] = [loop[l] EXCEPT !.at = n]]
    OBVIOUS
  <2>2. [loop[l] EXCEPT !.at = n] = new
    BY <1>1 DEF LoopStates
  <2> QED
    BY <2>1, <2>2
<1>3. new \in LoopStates
  BY <1>1 DEF LoopStates
<1> QED
  BY <1>1, <1>2, <1>3

\* A loop is about to call channel n for the finding it is at.
Starts(l, n) == /\ loop'[l].rules = loop[l].rules
                /\ loop'[l].findings = loop[l].findings
                /\ loop'[l].at = n
                /\ n # Done

LEMMA DispatchFacts ==
  ASSUME LoopTypes, NEW l \in Loops, Dispatch(l)
  PROVE  /\ loop' \in [Loops -> LoopStates] /\ answers' = [answers EXCEPT ![l] = <<>>]
         /\ OthersStay(l)
         /\ loop[l].findings # <<>> /\ KeyOf(l) \in Keys
         /\ loop[l].at = Done
         /\ loop[l].rules # 0 /\ loop[l].rules \in DOMAIN Routes
         /\ Cache!ShouldAlert(KeyOf(l))
         /\ alertedAt' = IF verdict'.alert THEN [alertedAt EXCEPT ![l] = now] ELSE alertedAt
         /\ UNCHANGED <<checked, warned, rules, dead>>
         /\ \/ /\ verdict'.alert
               /\ Starts(l, NextCall(RouteOf(l), 1))
               /\ UNCHANGED <<failed, missed>>
            \/ Ends(l) /\ UNCHANGED <<failed, missed>>
            \/ /\ Ends(l)
               /\ NextCall(RouteOf(l), 1) = Done
               /\ failed' = failed \cup {KeyOf(l)}
               /\ missed' = missed \cup Unserved(l, {})
<1> DEFINE first == NextCall(RouteOf(l), 1)
<1>1. /\ loop[l].findings # <<>> /\ loop[l].at = Done
      /\ Dedup!ShouldAlert(KeyOf(l))
      /\ answers' = [answers EXCEPT ![l] = <<>>]
      /\ alertedAt' = IF verdict'.alert THEN [alertedAt EXCEPT ![l] = now] ELSE alertedAt
      /\ IF verdict'.alert /\ first # Done
         THEN loop' = [loop EXCEPT ![l].at = first]
         ELSE loop' = Finished(l)
      /\ IF verdict'.alert /\ first = Done
         THEN failed' = failed \cup {KeyOf(l)} /\ missed' = missed \cup Unserved(l, {})
         ELSE UNCHANGED <<failed, missed>>
      /\ UNCHANGED <<checked, warned, rules, dead>>
  BY DEF Dispatch, routing
<1>2. first \in 1..Done
  BY ChannelsAreNumbered, NextCallFacts
<1> HIDE DEF first
<1>5. \A m \in Loops \ {l} : answers'[m] = answers[m] /\ alertedAt'[m] = alertedAt[m]
  BY <1>1 DEF LoopTypes
<1>3. CASE verdict'.alert /\ first # Done
  <2>1. /\ loop' \in [Loops -> LoopStates] /\ \A m \in Loops \ {l} : loop'[m] = loop[m]
        /\ Starts(l, first)
    BY <1>1, <1>2, <1>3, CallFacts DEF Starts
  <2>2. UNCHANGED <<failed, missed>>
    BY <1>1, <1>3
  <2> QED
    BY <1>1, <1>3, <1>5, <2>1, <2>2, LoopFacts, SameCall DEF OthersStay, first
<1>4. CASE ~ (verdict'.alert /\ first # Done)
  <2>1. /\ loop' \in [Loops -> LoopStates] /\ \A m \in Loops \ {l} : loop'[m] = loop[m]
        /\ Ends(l)
    BY <1>1, <1>4, FinishedFacts
  <2>2. \/ UNCHANGED <<failed, missed>>
        \/ /\ first = Done
           /\ failed' = failed \cup {KeyOf(l)}
           /\ missed' = missed \cup Unserved(l, {})
    BY <1>1
  <2> QED
    BY <1>1, <1>5, <2>1, <2>2, LoopFacts, SameCall DEF OthersStay, first
<1> QED
  BY <1>3, <1>4

\* A call at a channel behind those called keeps the calls in order.
LEMMA AnswerFacts ==
  ASSUME NEW q \in Seq(Calls), NEW b \in Calls
  PROVE  /\ Append(q, b) \in Seq(Calls)
         /\ Called(Append(q, b)) = Called(q) \cup {b.channel}
         /\ (\A d \in Called(q) : d < b.channel) /\ Ascending(q) => Ascending(Append(q, b))
<1>1. /\ Append(q, b) \in Seq(Calls)
      /\ Len(q) \in Nat /\ DOMAIN q = 1..Len(q)
      /\ DOMAIN Append(q, b) = (1..Len(q)) \cup {Len(q) + 1}
      /\ Append(q, b)[Len(q) + 1] = b
      /\ \A i \in 1..Len(q) : Append(q, b)[i] = q[i]
  <2> DEFINE S == Calls
  <2>1. q \in Seq(S) /\ b \in S
    OBVIOUS
  <2> HIDE DEF S
  <2>2. /\ Append(q, b) \in Seq(S)
        /\ Len(q) \in Nat /\ DOMAIN q = 1..Len(q)
        /\ DOMAIN Append(q, b) = (1..Len(q)) \cup {Len(q) + 1}
        /\ Append(q, b)[Len(q) + 1] = b
        /\ \A i \in 1..Len(q) : Append(q, b)[i] = q[i]
    BY <2>1, AppendFacts
  <2> QED
    BY <2>2 DEF S
<1> DEFINE r == Append(q, b)
           n == Len(q)
<1>2. n \in Nat /\ DOMAIN q = 1..n /\ DOMAIN r = (1..n) \cup {n + 1}
      /\ r[n + 1] = b /\ \A i \in 1..n : r[i] = q[i]
  BY <1>1
<1> HIDE DEF r, n
<1>3. Called(r) = Called(q) \cup {b.channel}
  <2>1. Called(r) = {r[i].channel : i \in 1..n} \cup {b.channel}
    BY <1>2 DEF Called
  <2>2. {r[i].channel : i \in 1..n} = Called(q)
    BY <1>2 DEF Called
  <2> QED
    BY <2>1, <2>2
<1>4. ASSUME \A d \in Called(q) : d < b.channel, Ascending(q)
      PROVE  Ascending(r)
  <2> SUFFICES ASSUME NEW i \in DOMAIN r, NEW j \in DOMAIN r, i < j
               PROVE  r[i].channel < r[j].channel
    BY DEF Ascending
  <2>1. i \in 1..n /\ (j \in 1..n \/ j = n + 1)
    <3>1. (i \in 1..n \/ i = n + 1) /\ (j \in 1..n \/ j = n + 1)
      BY <1>2
    <3>2. ~ (n + 1 < j)
      BY <1>2, <3>1
    <3> QED
      BY <3>1, <3>2
  <2>2. CASE j \in 1..n
    BY <1>2, <1>4, <2>1, <2>2 DEF Ascending
  <2>3. CASE j = n + 1
    <3>1. q[i].channel \in Called(q)
      BY <1>2, <2>1 DEF Called
    <3> QED
      BY <1>2, <1>4, <2>1, <2>3, <3>1
  <2> QED
    BY <2>1, <2>2, <2>3
<1> QED
  BY <1>1, <1>3, <1>4 DEF r

LEMMA SendFacts ==
  ASSUME LoopTypes, CallsInOrder, NEW l \in Loops, Send(l)
  PROVE  /\ loop' \in [Loops -> LoopStates] /\ answers' \in [Loops -> Seq(Calls)]
         /\ OthersStay(l)
         /\ Calling(l) /\ loop[l].at \in Channels /\ loop[l].at + 1 \in 1..Done
         /\ Called(answers'[l]) = Called(answers[l]) \cup {loop[l].at}
         /\ (\A d \in Called(answers[l]) : d < loop[l].at) /\ Ascending(answers[l])
              => Ascending(answers'[l])
         /\ \/ /\ Starts(l, NextCall(RouteOf(l), loop[l].at + 1))
               /\ missed' = missed
            \/ /\ Ends(l) /\ NextCall(RouteOf(l), loop[l].at + 1) = Done
               /\ missed' = missed \cup Unserved(l, Called(answers'[l]))
         /\ KeyOf(l) \in Keys /\ failed' \subseteq failed \cup {KeyOf(l)}
         /\ UNCHANGED <<dedupVars, checked, warned, rules, dead, alertedAt>>
<1> DEFINE c == loop[l].at
           next == NextCall(RouteOf(l), c + 1)
<1>1. PICK answer \in ChannelSend(KindOf[c]) :
        LET all == Append(answers[l], [channel |-> c, answer |-> answer])
        IN  /\ answers' = [answers EXCEPT ![l] = all]
            /\ loop' = IF next = Done THEN Finished(l) ELSE [loop EXCEPT ![l].at = next]
            /\ failed' \subseteq failed \cup {KeyOf(l)}
            /\ missed' = IF next = Done THEN missed \cup Unserved(l, Called(all)) ELSE missed
  <2>1. PICK answer \in ChannelSend(KindOf[c]) \ {"panic"} :
          LET all == Append(answers[l], [channel |-> c, answer |-> answer])
          IN  /\ answers' = [answers EXCEPT ![l] = all]
              /\ IF next = Done
                 THEN /\ loop' = Finished(l)
                      /\ failed' = IF \A i \in DOMAIN all : all[i].answer = "error"
                                   THEN failed \cup {KeyOf(l)} ELSE failed \ {KeyOf(l)}
                      /\ missed' = missed \cup Unserved(l, Called(all))
                 ELSE /\ loop' = [loop EXCEPT ![l].at = next]
                      /\ UNCHANGED <<failed, missed>>
    BY DEF Send, AfterSend, Called
  <2> HIDE DEF next
  <2>2. failed' \subseteq failed \cup {KeyOf(l)}
    BY <2>1
  <2> QED
    BY <2>1, <2>2
<1>2. /\ Calling(l) /\ loop[l].findings # <<>>
      /\ UNCHANGED <<dedupVars, checked, warned, rules, dead, alertedAt>>
  BY DEF Send, Calling, CallsInOrder, routing
<1>3. c \in Channels /\ c + 1 \in 1..Done /\ KeyOf(l) \in Keys
  BY <1>2, LoopFacts
<1> DEFINE call == [channel |-> c, answer |-> answer]
<1>4. call \in Calls /\ call.channel = c
  BY <1>3 DEF Calls
<1>5. answers \in [Loops -> Seq(Calls)] /\ answers' = [answers EXCEPT ![l] = Append(answers[l], call)]
  BY <1>1 DEF LoopTypes
<1> HIDE DEF call
<1>6. /\ Append(answers[l], call) \in Seq(Calls)
      /\ Called(Append(answers[l], call)) = Called(answers[l]) \cup {c}
      /\ (\A d \in Called(answers[l]) : d < c) /\ Ascending(answers[l])
           => Ascending(Append(answers[l], call))
  BY <1>4, <1>5, AnswerFacts
<1>7. /\ answers' \in [Loops -> Seq(Calls)] /\ answers'[l] = Append(answers[l], call)
      /\ \A m \in Loops \ {l} : answers'[m] = answers[m]
  BY <1>5, <1>6
<1>8. next \in 1..Done
  BY <1>3, ChannelsAreNumbered, NextCallFacts
<1>9. failed' \subseteq failed \cup {KeyOf(l)}
  BY <1>1
<1>10. /\ loop' = IF next = Done THEN Finished(l) ELSE [loop EXCEPT ![l].at = next]
       /\ missed' = IF next = Done THEN missed \cup Unserved(l, Called(answers'[l])) ELSE missed
  BY <1>1, <1>7 DEF call
<1>11. /\ loop' \in [Loops -> LoopStates] /\ \A m \in Loops \ {l} : loop'[m] = loop[m]
       /\ \/ Starts(l, next) /\ missed' = missed
          \/ /\ Ends(l) /\ next = Done
             /\ missed' = missed \cup Unserved(l, Called(answers'[l]))
  <2> HIDE DEF next
  <2>1. CASE next = Done
    BY <1>2, <1>10, <2>1, FinishedFacts
  <2>2. CASE next # Done
    BY <1>8, <1>10, <2>2, CallFacts DEF Starts
  <2> QED
    BY <2>1, <2>2
<1> QED
  BY <1>2, <1>3, <1>6, <1>7, <1>9, <1>11 DEF OthersStay

---------------------------------------------------------------------------
(* The invariant is kept, part by part. *)

LEMMA InitDispatcherInv ==
  ASSUME Init
  PROVE  DispatcherInv
<1>1. Cache!CacheInv
  BY CacheAssumption, SameInit, Cache!InitCacheInv DEF Init
<1>2. Idle \in LoopStates /\ Idle.rules = 0 /\ Idle.at = Done
  BY ChannelsAreNumbered, DispatcherAssumption DEF DispatcherAssumption, Idle, LoopStates
<1>3. \A l \in Loops : loop[l] = Idle
  BY DEF Init
<1>4. LoopTypes
  <2>1. loop \in [Loops -> LoopStates] /\ answers \in [Loops -> Seq(Calls)]
    BY <1>2 DEF Init
  <2>2. alertedAt \in [Loops -> 0..MaxTime]
    BY DispatcherAssumption DEF Init, DispatcherAssumption
  <2> QED
    BY <1>3, <2>1, <2>2 DEF Init, LoopTypes
<1>5. UsedAreChecked
  BY <1>2, <1>3, DispatcherAssumption DEF DispatcherAssumption, Init, UsedAreChecked
<1>6. CallsInOrder /\ MissedWasWarned /\ OneAlertInFlight
  BY <1>2, <1>3 DEF Init, CallsInOrder, Calling, MissedWasWarned, OneAlertInFlight
<1>7. DeadAreIdle /\ FoundByRules
  BY <1>2, <1>3 DEF Init, DeadAreIdle, FoundByRules, Found
<1>8. CheckedWereWarned
  BY DEF Init, CheckedWereWarned, Warnings
<1> QED
  BY <1>1, <1>4, <1>5, <1>6, <1>7, <1>8 DEF DispatcherInv

\* What a step does to the cache.
LEMMA CacheSteps ==
  ASSUME LoopTypes, CallsInOrder, [Next]_vars
  PROVE  \/ Cache!Tick
         \/ UNCHANGED dedupVars
         \/ \E l \in Loops : KeyOf(l) \in Keys /\ Cache!ShouldAlert(KeyOf(l)) /\ Dispatch(l)
<1>1. CASE Tick
  BY <1>1 DEF Tick, Dedup!Tick, Cache!Tick
<1>2. CASE CheckRouting \/ SwapRules \/ UNCHANGED vars
  BY <1>2 DEF CheckRouting, SwapRules, vars
<1>3. ASSUME NEW l \in Loops, Receive(l) \/ ScanEvent(l) \/ Send(l) \/ Panic(l)
      PROVE  UNCHANGED dedupVars
  BY <1>3 DEF Receive, ScanEvent, Send, Panic
<1>4. ASSUME NEW l \in Loops, Dispatch(l)
      PROVE  KeyOf(l) \in Keys /\ Cache!ShouldAlert(KeyOf(l))
  BY <1>4, DispatchFacts
<1> QED
  BY <1>1, <1>2, <1>3, <1>4 DEF Next, LoopStep

LEMMA NextKeepsCacheInv ==
  ASSUME DispatcherInv, [Next]_vars
  PROVE  Cache!CacheInv'
<1>1. CASE Cache!Tick
  BY <1>1, CacheAssumption, Cache!TickKeepsCacheInv DEF DispatcherInv
<1>2. CASE UNCHANGED dedupVars
  BY <1>2, CacheAssumption, Cache!StutterKeepsCacheInv DEF DispatcherInv, dedupVars, Cache!vars
<1>3. ASSUME NEW k \in Keys, Cache!ShouldAlert(k)
      PROVE  Cache!CacheInv'
  BY <1>3, CacheAssumption, Cache!ShouldAlertKeepsCacheInv DEF DispatcherInv
<1> QED
  BY <1>1, <1>2, <1>3, CacheSteps DEF DispatcherInv

\* The history of alerts only grows, in keys and in instants.
LEMMA HistoryGrows ==
  ASSUME DispatcherInv, [Next]_vars
  PROVE  \A k \in DOMAIN lastAlert :
           /\ k \in DOMAIN lastAlert'
           /\ lastAlert[k] \in Nat /\ lastAlert'[k] \in Nat
           /\ lastAlert[k] <= lastAlert'[k]
<1>1. \A k \in DOMAIN lastAlert : lastAlert[k] \in Nat /\ lastAlert[k] <= now
  BY DispatcherAssumption DEF DispatcherInv, Cache!CacheInv, Cache!TypeOK, DispatcherAssumption
<1>2. CASE Cache!Tick \/ UNCHANGED dedupVars
  BY <1>1, <1>2 DEF Cache!Tick, dedupVars
<1>3. ASSUME NEW j \in Keys, Cache!ShouldAlert(j)
      PROVE  \A k \in DOMAIN lastAlert :
               /\ k \in DOMAIN lastAlert'
               /\ lastAlert[k] \in Nat /\ lastAlert'[k] \in Nat
               /\ lastAlert[k] <= lastAlert'[k]
  <2>1. /\ verdict'.alert =>
             /\ DOMAIN lastAlert' = DOMAIN lastAlert \cup {j}
             /\ lastAlert'[j] = now
             /\ \A k \in DOMAIN lastAlert \ {j} : lastAlert'[k] = lastAlert[k]
        /\ ~ verdict'.alert => lastAlert' = lastAlert
        /\ now \in Nat
    BY <1>3, CacheAssumption, Cache!CallFacts DEF DispatcherInv
  <2> QED
    BY <1>1, <2>1
<1> QED
  BY <1>2, <1>3, CacheSteps DEF DispatcherInv

LEMMA NextKeepsLoopTypes ==
  ASSUME DispatcherInv, [Next]_vars
  PROVE  LoopTypes'
<1>1. /\ LoopTypes /\ UsedAreChecked /\ CallsInOrder
      /\ answers \in [Loops -> Seq(Calls)]
      /\ alertedAt \in [Loops -> 0..MaxTime]
      /\ now \in 0..MaxTime
      /\ failed \subseteq Keys
      /\ Idle.rules = 0
      /\ \A m \in Loops : loop[m].rules = 0 => loop[m] = Idle
  BY DEF DispatcherInv, LoopTypes, Idle, Cache!CacheInv, Cache!TypeOK
<1>2. CASE Quiet
  BY <1>1, <1>2 DEF Quiet, LoopTypes, Idle, Done
<1>3. ASSUME NEW l \in Loops, loop' \in [Loops -> LoopStates], answers' \in [Loops -> Seq(Calls)],
             OthersStay(l), loop'[l].rules = 0 => loop'[l] = Idle,
             alertedAt' \in [Loops -> 0..MaxTime], failed' \subseteq Keys
      PROVE  LoopTypes'
  <2>1. \A m \in Loops : loop'[m].rules = 0 => loop'[m] = Idle
    BY <1>1, <1>3 DEF OthersStay
  <2> QED
    BY <1>3, <2>1 DEF LoopTypes, LoopStates, Calls, Idle, Done
<1>4. ASSUME NEW l \in Loops, Receive(l)
      PROVE  LoopTypes'
  BY <1>1, <1>3, <1>4, ReceiveFacts
<1>5. ASSUME NEW l \in Loops, ScanEvent(l)
      PROVE  LoopTypes'
  BY <1>1, <1>3, <1>5, ScanEventFacts
<1>6. ASSUME NEW l \in Loops, Dispatch(l)
      PROVE  LoopTypes'
  <2>1. answers' = [answers EXCEPT ![l] = <<>>] /\ <<>> \in Seq(Calls)
    BY <1>1, <1>6, DispatchFacts
  <2>2. answers' \in [Loops -> Seq(Calls)]
    BY <1>1, <2>1
  <2>3. /\ loop' \in [Loops -> LoopStates] /\ OthersStay(l)
        /\ KeyOf(l) \in Keys /\ loop[l].rules # 0
        /\ loop'[l].rules = loop[l].rules
        /\ alertedAt' = IF verdict'.alert THEN [alertedAt EXCEPT ![l] = now] ELSE alertedAt
        /\ failed' = failed \/ failed' = failed \cup {KeyOf(l)}
    BY <1>1, <1>6, DispatchFacts DEF Starts, Ends
  <2>4. failed' \subseteq Keys
    BY <1>1, <2>3
  <2>5. alertedAt' \in [Loops -> 0..MaxTime]
    BY <1>1, <2>3
  <2> QED
    BY <1>3, <2>2, <2>3, <2>4, <2>5
<1>7. ASSUME NEW l \in Loops, Send(l)
      PROVE  LoopTypes'
  <2>1. loop[l].rules # 0
    <3>1. loop[l].findings # <<>>
      BY <1>1, <1>7, SendFacts DEF CallsInOrder
    <3> QED
      BY <1>1, <3>1, LoopFacts
  <2>2. loop'[l].rules = loop[l].rules
    BY <1>1, <1>7, SendFacts DEF Starts, Ends
  <2> QED
    BY <1>1, <1>3, <1>7, <2>1, <2>2, SendFacts
<1>8. ASSUME NEW l \in Loops, Panic(l)
      PROVE  LoopTypes'
  BY <1>1, <1>3, <1>8, PanicFacts
<1> QED
  BY <1>2, <1>4, <1>5, <1>6, <1>7, <1>8, StepCases

\* What a loop's step leaves it with: nothing, or findings of its rules.
LEMMA NextKeepsFoundByRules ==
  ASSUME DispatcherInv, [Next]_vars
  PROVE  FoundByRules'
<1>1. /\ LoopTypes /\ UsedAreChecked /\ CallsInOrder
      /\ \A m \in Loops : Found(m)
      /\ Idle.rules = 0
  BY DEF DispatcherInv, FoundByRules, Idle
<1>2. ASSUME NEW m \in Loops, loop'[m] = loop[m]
      PROVE  Found(m)'
  BY <1>1, <1>2 DEF Found
<1>3. ASSUME NEW l \in Loops, OthersStay(l), Found(l)'
      PROVE  FoundByRules'
  BY <1>2, <1>3 DEF OthersStay, FoundByRules
<1>4. CASE Quiet
  BY <1>2, <1>4 DEF Quiet, FoundByRules
<1>5. ASSUME NEW l \in Loops, Receive(l)
      PROVE  FoundByRules'
  <2>1. OthersStay(l) /\ loop'[l].findings = <<>>
    BY <1>1, <1>5, ReceiveFacts
  <2>2. \A S : <<>> \in Seq(S)
    OBVIOUS
  <2>3. Found(l)'
    BY <2>1, <2>2 DEF Found
  <2> QED
    BY <1>3, <2>1, <2>3
<1>6. ASSUME NEW l \in Loops, ScanEvent(l)
      PROVE  FoundByRules'
  BY <1>1, <1>3, <1>6, ScanEventFacts DEF Found
<1>7. ASSUME NEW l \in Loops, NEW n, loop[l].findings # <<>>, Ends(l) \/ Starts(l, n)
      PROVE  Found(l)'
  <2> DEFINE S == DOMAIN Routes[loop[l].rules]
             f == loop[l].findings
  <2>1. loop[l].rules # 0 => loop'[l].findings \in Seq(S)
    <3>1. loop[l].rules # 0 => f \in Seq(S)
      BY <1>1 DEF Found
    <3>2. f # <<>> /\ (loop'[l].findings = f \/ loop'[l].findings = Tail(f))
      BY <1>7 DEF Ends, Starts
    <3> DEFINE g == loop'[l].findings
    <3> HIDE DEF S, f, g
    <3>3. f \in Seq(S) /\ f # <<>> => Tail(f) \in Seq(S)
      OBVIOUS
    <3>4. g = f \/ g = Tail(f)
      BY <3>2 DEF g
    <3>5. loop[l].rules # 0 => g \in Seq(S)
      BY <3>1, <3>2, <3>3, <3>4
    <3> QED
      BY <3>5 DEF g
  <2> QED
    BY <1>7, <2>1 DEF Found, Ends, Starts
<1>8. ASSUME NEW l \in Loops, Dispatch(l)
      PROVE  FoundByRules'
  BY <1>1, <1>3, <1>7, <1>8, DispatchFacts
<1>9. ASSUME NEW l \in Loops, Send(l)
      PROVE  FoundByRules'
  BY <1>1, <1>3, <1>7, <1>9, SendFacts DEF CallsInOrder
<1>10. ASSUME NEW l \in Loops, Panic(l)
       PROVE  FoundByRules'
  BY <1>1, <1>3, <1>10, PanicFacts DEF Found
<1> QED
  BY <1>4, <1>5, <1>6, <1>8, <1>9, <1>10, StepCases

LEMMA NextKeepsDeadAreIdle ==
  ASSUME DispatcherInv, [Next]_vars
  PROVE  DeadAreIdle'
<1>1. /\ LoopTypes /\ UsedAreChecked /\ CallsInOrder
      /\ \A m \in Loops : m \in dead => loop[m] = Idle
      /\ Idle.rules = 0 /\ Idle.findings = <<>> /\ Idle' = Idle
  BY DEF DispatcherInv, DeadAreIdle, Idle, Done, Names
<1>2. CASE Quiet
  BY <1>1, <1>2 DEF Quiet, DeadAreIdle
<1>3. ASSUME NEW l \in Loops, OthersStay(l), dead' = dead, l \notin dead
      PROVE  DeadAreIdle'
  BY <1>1, <1>3 DEF OthersStay, DeadAreIdle
<1>4. ASSUME NEW l \in Loops, Receive(l)
      PROVE  DeadAreIdle'
  BY <1>1, <1>3, <1>4, ReceiveFacts
<1>5. ASSUME NEW l \in Loops, ScanEvent(l)
      PROVE  DeadAreIdle'
  BY <1>1, <1>3, <1>5, ScanEventFacts
<1>6. ASSUME NEW l \in Loops, Dispatch(l)
      PROVE  DeadAreIdle'
  BY <1>1, <1>3, <1>6, DispatchFacts
<1>7. ASSUME NEW l \in Loops, Send(l)
      PROVE  DeadAreIdle'
  BY <1>1, <1>3, <1>7, SendFacts DEF CallsInOrder
<1>8. ASSUME NEW l \in Loops, Panic(l)
      PROVE  DeadAreIdle'
  BY <1>1, <1>8, PanicFacts DEF OthersStay, DeadAreIdle
<1> QED
  BY <1>2, <1>4, <1>5, <1>6, <1>7, <1>8, StepCases

LEMMA NextKeepsUsedAreChecked ==
  ASSUME DispatcherInv, [Next]_vars
  PROVE  UsedAreChecked'
<1>1. /\ LoopTypes /\ UsedAreChecked /\ CallsInOrder
      /\ checked \subseteq DOMAIN Routes /\ rules \in checked
      /\ \A m \in Loops : loop[m].rules # 0 => loop[m].rules \in checked
  BY DEF DispatcherInv, UsedAreChecked
<1>2. CASE CheckRouting
  BY <1>1, <1>2 DEF CheckRouting, UsedAreChecked
<1>3. CASE SwapRules
  BY <1>1, <1>3 DEF SwapRules, UsedAreChecked
<1>4. CASE Tick \/ UNCHANGED vars
  BY <1>1, <1>4 DEF Tick, vars, routing, UsedAreChecked
<1>5. ASSUME NEW l \in Loops, UNCHANGED <<checked, rules>>, OthersStay(l),
             loop'[l].rules \in {0, rules, loop[l].rules}
      PROVE  UsedAreChecked'
  BY <1>1, <1>5 DEF OthersStay, UsedAreChecked
<1>6. ASSUME NEW l \in Loops, Receive(l) \/ ScanEvent(l) \/ Panic(l)
      PROVE  UsedAreChecked'
  BY <1>1, <1>5, <1>6, ReceiveFacts, ScanEventFacts, PanicFacts DEF Idle
<1>7. ASSUME NEW l \in Loops, Dispatch(l)
      PROVE  UsedAreChecked'
  BY <1>1, <1>5, <1>7, DispatchFacts DEF Starts, Ends
<1>8. ASSUME NEW l \in Loops, Send(l)
      PROVE  UsedAreChecked'
  BY <1>1, <1>5, <1>8, SendFacts DEF Starts, Ends
<1> QED
  BY <1>2, <1>3, <1>4, <1>6, <1>7, <1>8 DEF Next, LoopStep

\* The warnings and the check of a version are one step.
LEMMA NextKeepsCheckedWereWarned ==
  ASSUME DispatcherInv, [Next]_vars
  PROVE  CheckedWereWarned' /\ warned \subseteq warned'
<1>1. /\ LoopTypes /\ UsedAreChecked /\ CallsInOrder
      /\ \A v \in checked : Warnings(v) \subseteq warned
      /\ \A w \in warned : w[1] \in checked
  BY DEF DispatcherInv, CheckedWereWarned
<1>2. CASE CheckRouting
  <2> DEFINE v == rules + 1
  <2>1. checked' = checked \cup {v} /\ warned' = warned \cup Warnings(v)
    BY <1>2 DEF CheckRouting
  <2>2. \A w \in Warnings(v) : w[1] = v
    BY DEF Warnings
  <2> HIDE DEF v
  <2>3. \A w \in warned' : w[1] \in checked'
    BY <1>1, <2>1, <2>2
  <2>4. \A u \in checked' : Warnings(u) \subseteq warned'
    BY <1>1, <2>1
  <2> QED
    BY <2>1, <2>3, <2>4 DEF CheckedWereWarned, Warnings, Names
<1>3. CASE UNCHANGED <<checked, warned>>
  BY <1>1, <1>3 DEF CheckedWereWarned, Warnings, Names
<1>4. CASE SwapRules \/ Tick \/ UNCHANGED vars
  BY <1>3, <1>4 DEF SwapRules, Tick, vars, routing
<1>5. ASSUME NEW l \in Loops, Receive(l) \/ LoopStep(l)
      PROVE  UNCHANGED <<checked, warned>>
  BY <1>5 DEF Receive, LoopStep, ScanEvent, Dispatch, Send, Panic, routing
<1> QED
  BY <1>2, <1>3, <1>4, <1>5 DEF Next

\* Past the next call, the channels before it are the ones before c and c itself.
LEMMA RoutedBeforeNext ==
  ASSUME NEW route, NEW c \in Channels, Routed(route, c)
  PROVE  RoutedBefore(route, NextCall(route, c + 1)) = RoutedBefore(route, c) \cup {c}
<1> DEFINE n == NextCall(route, c + 1)
<1>1. Done \in Nat \ {0} /\ Channels = 1..(Done - 1)
  BY ChannelsAreNumbered
<1>2. c + 1 \in 1..Done
  BY <1>1
<1>3. n \in (c + 1)..Done /\ \A d \in Channels : c + 1 <= d /\ d < n => ~ Routed(route, d)
  BY <1>2, NextCallFacts
<1> HIDE DEF n
<1>4. ASSUME NEW d \in Channels, Routed(route, d)
      PROVE  d < n <=> d < c \/ d = c
  <2>1. d \in Nat /\ c \in Nat /\ n \in Nat /\ c < n
    BY <1>1, <1>3
  <2>2. c + 1 <= d => ~ (d < n)
    BY <1>3, <1>4
  <2> QED
    BY <2>1, <2>2
<1>5. RoutedBefore(route, n) = RoutedBefore(route, c) \cup {c}
  BY <1>4 DEF RoutedBefore
<1> QED
  BY <1>5 DEF n

LEMMA RoutedBeforeFirst ==
  ASSUME NEW route
  PROVE  RoutedBefore(route, NextCall(route, 1)) = {}
<1>1. Done \in Nat \ {0} /\ Channels = 1..(Done - 1)
  BY ChannelsAreNumbered
<1>2. \A d \in Channels : 1 <= d /\ d < NextCall(route, 1) => ~ Routed(route, d)
  BY <1>1, NextCallFacts
<1> QED
  BY <1>1, <1>2 DEF RoutedBefore

\* What CallsInOrder says of one loop.
InOrder(l) == /\ loop[l].findings # <<>>
              /\ Routed(RouteOf(l), loop[l].at)
              /\ Called(answers[l]) = RoutedBefore(RouteOf(l), loop[l].at)
              /\ Ascending(answers[l])
              /\ KeyOf(l) \in DOMAIN lastAlert
              /\ alertedAt[l] <= lastAlert[KeyOf(l)]

LEMMA NextKeepsCallsInOrder ==
  ASSUME DispatcherInv, [Next]_vars
  PROVE  CallsInOrder'
<1>1. /\ LoopTypes /\ UsedAreChecked /\ CallsInOrder /\ Cache!CacheInv
      /\ \A m \in Loops : Calling(m) => InOrder(m)
      /\ alertedAt \in [Loops -> 0..MaxTime]
      /\ MaxTime \in Nat
  BY DispatcherAssumption DEF DispatcherInv, CallsInOrder, InOrder, LoopTypes, DispatcherAssumption
<1>0. ASSUME NEW m \in Loops, KeyOf(m) \in DOMAIN lastAlert, alertedAt[m] <= lastAlert[KeyOf(m)],
             alertedAt'[m] = alertedAt[m], KeyOf(m)' = KeyOf(m)
      PROVE  KeyOf(m)' \in DOMAIN lastAlert' /\ alertedAt'[m] <= lastAlert'[KeyOf(m)']
  <2> DEFINE k == KeyOf(m)
  <2>1. /\ k \in DOMAIN lastAlert'
        /\ lastAlert[k] \in Nat /\ lastAlert'[k] \in Nat
        /\ lastAlert[k] <= lastAlert'[k]
    BY <1>0, HistoryGrows
  <2>2. alertedAt[m] \in Nat /\ alertedAt[m] <= lastAlert[k]
    BY <1>0, <1>1
  <2> HIDE DEF k
  <2>3. alertedAt[m] <= lastAlert'[k]
    BY <2>1, <2>2
  <2> QED
    BY <1>0, <2>1, <2>3 DEF k
<1>2. ASSUME NEW m \in Loops, loop'[m] = loop[m], answers'[m] = answers[m],
             alertedAt'[m] = alertedAt[m]
      PROVE  Calling(m)' => InOrder(m)'
  <2>1. KeyOf(m)' = KeyOf(m) /\ RouteOf(m)' = RouteOf(m) /\ (Calling(m)' <=> Calling(m))
    BY <1>2 DEF KeyOf, RouteOf, Calling, Done, Names
  <2>2. Calling(m) => KeyOf(m)' \in DOMAIN lastAlert' /\ alertedAt'[m] <= lastAlert'[KeyOf(m)']
    BY <1>0, <1>1, <1>2, <2>1 DEF InOrder
  <2> QED
    BY <1>1, <1>2, <2>1, <2>2 DEF InOrder, Routed, RoutedBefore, Called, Ascending,
                                  Names, Channels
<1>3. ASSUME NEW l \in Loops, OthersStay(l), Calling(l)' => InOrder(l)'
      PROVE  CallsInOrder'
  BY <1>2, <1>3 DEF OthersStay, CallsInOrder, InOrder
<1>4. CASE Quiet
  BY <1>2, <1>4 DEF Quiet, CallsInOrder, InOrder
<1>5. ASSUME NEW l \in Loops, Receive(l) \/ ScanEvent(l) \/ Panic(l)
      PROVE  CallsInOrder'
  BY <1>1, <1>3, <1>5, ReceiveFacts, ScanEventFacts, PanicFacts DEF Calling, Idle, Done
<1>6. ASSUME NEW l \in Loops, Ends(l), OthersStay(l)
      PROVE  CallsInOrder'
  BY <1>3, <1>6 DEF Ends, Calling, Done
<1>7. ASSUME NEW l \in Loops, Dispatch(l)
      PROVE  CallsInOrder'
  <2> DEFINE n == NextCall(RouteOf(l), 1)
  <2>1. /\ OthersStay(l) /\ Cache!ShouldAlert(KeyOf(l)) /\ KeyOf(l) \in Keys
        /\ loop[l].findings # <<>>
        /\ answers' = [answers EXCEPT ![l] = <<>>]
        /\ alertedAt' = IF verdict'.alert THEN [alertedAt EXCEPT ![l] = now] ELSE alertedAt
        /\ Ends(l) \/ (Starts(l, n) /\ verdict'.alert)
    BY <1>1, <1>7, DispatchFacts
  <2>2. CASE Starts(l, n) /\ verdict'.alert
    <3>1. /\ RouteOf(l)' = RouteOf(l) /\ KeyOf(l)' = KeyOf(l) /\ loop'[l].at = n /\ n # Done
          /\ loop'[l].findings # <<>>
      BY <2>1, <2>2 DEF Starts, RouteOf, KeyOf
    <3>2. Routed(RouteOf(l), n) /\ RoutedBefore(RouteOf(l), n) = {}
      <4>1. 1 \in 1..Done
        BY ChannelsAreNumbered
      <4> QED
        BY <3>1, <4>1, NextCallFacts, RoutedBeforeFirst
    <3>3. answers'[l] = <<>>
      BY <1>1, <2>1 DEF LoopTypes
    <3>4. Called(answers'[l]) = {} /\ Ascending(answers'[l])
      BY <3>3 DEF Called, Ascending
    <3>5. KeyOf(l) \in DOMAIN lastAlert' /\ alertedAt'[l] <= lastAlert'[KeyOf(l)]
      <4>1. /\ DOMAIN lastAlert' = DOMAIN lastAlert \cup {KeyOf(l)}
            /\ lastAlert'[KeyOf(l)] = now /\ now \in Nat
        BY <1>1, <2>1, <2>2, CacheAssumption, Cache!CallFacts
      <4>2. alertedAt'[l] = now
        BY <1>1, <2>1, <2>2
      <4> QED
        BY <4>1, <4>2
    <3> HIDE DEF n
    <3>6. InOrder(l)'
      BY <3>1, <3>2, <3>4, <3>5 DEF InOrder, Routed, RoutedBefore, Called, Ascending, Names, Channels
    <3> QED
      BY <1>3, <2>1, <3>6
  <2> QED
    BY <1>6, <2>1, <2>2
<1>8. ASSUME NEW l \in Loops, Send(l)
      PROVE  CallsInOrder'
  <2> DEFINE c == loop[l].at
             n == NextCall(RouteOf(l), c + 1)
  <2>1. /\ OthersStay(l) /\ Calling(l) /\ c \in Channels /\ c + 1 \in 1..Done
        /\ Called(answers'[l]) = Called(answers[l]) \cup {c}
        /\ (\A d \in Called(answers[l]) : d < c) /\ Ascending(answers[l])
             => Ascending(answers'[l])
        /\ Ends(l) \/ Starts(l, n)
        /\ alertedAt' = alertedAt
    BY <1>1, <1>8, SendFacts
  <2>2. InOrder(l)
    BY <1>1, <2>1
  <2>3. CASE Starts(l, n)
    <3>1. /\ RouteOf(l)' = RouteOf(l) /\ KeyOf(l)' = KeyOf(l) /\ loop'[l].at = n /\ n # Done
          /\ loop'[l].findings # <<>>
      BY <2>2, <2>3 DEF Starts, RouteOf, KeyOf, InOrder
    <3>2. Routed(RouteOf(l), n)
      BY <2>1, <3>1, NextCallFacts
    <3>3. Called(answers'[l]) = RoutedBefore(RouteOf(l), n)
      BY <2>1, <2>2, RoutedBeforeNext DEF InOrder
    <3>4. Ascending(answers'[l])
      BY <2>1, <2>2 DEF InOrder, RoutedBefore
    <3>5. KeyOf(l) \in DOMAIN lastAlert' /\ alertedAt'[l] <= lastAlert'[KeyOf(l)]
      BY <1>0, <2>1, <2>2, <3>1 DEF InOrder
    <3> HIDE DEF n
    <3>6. InOrder(l)'
      BY <3>1, <3>2, <3>3, <3>4, <3>5
      DEF InOrder, Routed, RoutedBefore, Called, Ascending, Names, Channels
    <3> QED
      BY <1>3, <2>1, <3>6
  <2> QED
    BY <1>6, <2>1, <2>3
<1> QED
  BY <1>4, <1>5, <1>7, <1>8, StepCases

\* A name on a route that no called channel has, when all channels on the route have been
\* called, is the name of none: the check of the loop's rules warned of it.
LEMMA UnservedWasWarned ==
  ASSUME DispatcherInv, NEW l \in Loops, loop[l].findings # <<>>, NEW called,
         \A c \in Channels : Routed(RouteOf(l), c) => c \in called
  PROVE  Unserved(l, called) \subseteq warned
<1> DEFINE v == loop[l].rules
           k == KeyOf(l)
           route == Routes[v][k]
<1>1. RouteOf(l) = route
  BY DEF RouteOf
<1>2. v \in checked
  BY LoopFacts DEF DispatcherInv, UsedAreChecked
<1>3. k \in DOMAIN Routes[v]
  <2>1. loop[l].findings \in Seq(DOMAIN Routes[v])
    BY LoopFacts DEF DispatcherInv, FoundByRules, Found
  <2>2. Head(loop[l].findings) \in DOMAIN Routes[v]
    BY <2>1
  <2> QED
    BY <2>2 DEF KeyOf
<1>4. Warnings(v) \subseteq warned
  BY <1>2 DEF DispatcherInv, CheckedWereWarned
<1>5. ASSUME NEW w \in Unserved(l, called)
      PROVE  w \in Warnings(v)
  <2>1. route # AllChannels
    BY <1>1, <1>5 DEF Unserved
  <2>2. PICK n \in route \ {Names[c] : c \in called} : w = <<v, k, n>>
    BY <1>1, <1>5, <2>1 DEF Unserved
  <2>3. n \notin ToSet(Names)
    <3> SUFFICES ASSUME NEW c \in Channels, n = Names[c]
                 PROVE  FALSE
      BY DEF ToSet, Channels
    <3>1. Routed(RouteOf(l), c)
      BY <1>1, <2>2 DEF Routed
    <3> QED
      BY <2>2, <3>1
  <2>4. n \in UnknownChannels(route, Names)
    BY <2>1, <2>2, <2>3 DEF UnknownChannels
  <2> QED
    BY <1>3, <2>2, <2>4 DEF Warnings
<1> QED
  BY <1>4, <1>5

LEMMA NextKeepsMissedWarned ==
  ASSUME DispatcherInv, [Next]_vars
  PROVE  MissedWasWarned'
<1>1. LoopTypes /\ UsedAreChecked /\ CallsInOrder /\ missed \subseteq warned
  BY DEF DispatcherInv, MissedWasWarned
<1>2. warned \subseteq warned'
  BY NextKeepsCheckedWereWarned
<1>3. CASE missed' = missed
  BY <1>1, <1>2, <1>3 DEF MissedWasWarned
<1>4. ASSUME NEW l \in Loops, Dispatch(l), missed' # missed
      PROVE  MissedWasWarned'
  <2>1. /\ NextCall(RouteOf(l), 1) = Done
        /\ missed' = missed \cup Unserved(l, {})
        /\ loop[l].findings # <<>>
    BY <1>1, <1>4, DispatchFacts
  <2>2. \A c \in Channels : ~ Routed(RouteOf(l), c)
    BY <2>1, ChannelsAreNumbered, NextCallFacts
  <2>3. Unserved(l, {}) \subseteq warned
    BY <2>1, <2>2, UnservedWasWarned
  <2> QED
    BY <1>1, <1>2, <2>1, <2>3 DEF MissedWasWarned
<1>5. ASSUME NEW l \in Loops, Send(l), missed' # missed
      PROVE  MissedWasWarned'
  <2> DEFINE c == loop[l].at
  <2>1. /\ Calling(l) /\ c \in Channels
        /\ Called(answers'[l]) = Called(answers[l]) \cup {c}
        /\ NextCall(RouteOf(l), c + 1) = Done
        /\ missed' = missed \cup Unserved(l, Called(answers'[l]))
    BY <1>1, <1>5, SendFacts
  <2>2. InOrder(l)
    BY <1>1, <2>1 DEF CallsInOrder, InOrder
  <2>3. Called(answers'[l]) = RoutedBefore(RouteOf(l), Done)
    BY <2>1, <2>2, RoutedBeforeNext DEF InOrder
  <2>4. \A d \in Channels : Routed(RouteOf(l), d) => d \in Called(answers'[l])
    BY <2>3, ChannelsAreNumbered DEF RoutedBefore
  <2>5. Unserved(l, Called(answers'[l])) \subseteq warned
    BY <2>2, <2>4, UnservedWasWarned DEF InOrder
  <2> QED
    BY <1>1, <1>2, <2>1, <2>5 DEF MissedWasWarned
<1>6. ASSUME NEW l \in Loops, Receive(l) \/ ScanEvent(l) \/ Panic(l)
      PROVE  missed' = missed
  BY <1>6 DEF Receive, ScanEvent, Panic, histories
<1> QED
  BY <1>3, <1>4, <1>5, <1>6, StepCases DEF Quiet

LEMMA NextKeepsOneAlertInFlight ==
  ASSUME DispatcherInv, [Next]_vars
  PROVE  OneAlertInFlight'
<1> DEFINE Apart(l, m) == \/ alertedAt[l] - alertedAt[m] >= Window
                          \/ alertedAt[m] - alertedAt[l] >= Window
<1>1. /\ LoopTypes /\ UsedAreChecked /\ CallsInOrder /\ Cache!CacheInv
      /\ Window \in Nat /\ MaxTime \in Nat
      /\ alertedAt \in [Loops -> 0..MaxTime]
      /\ \A l, m \in Loops : l # m /\ Calling(l) /\ Calling(m) /\ KeyOf(l) = KeyOf(m) => Apart(l, m)
  BY DispatcherAssumption DEF DispatcherInv, LoopTypes, OneAlertInFlight, DispatcherAssumption
<1> SUFFICES ASSUME NEW l \in Loops, NEW m \in Loops, l # m,
                    Calling(l)', Calling(m)', KeyOf(l)' = KeyOf(m)'
             PROVE  Apart(l, m)'
  BY DEF OneAlertInFlight
<1>2. \A j \in Loops : Calling(j) => KeyOf(j) \in DOMAIN lastAlert /\ alertedAt[j] <= lastAlert[KeyOf(j)]
  BY <1>1 DEF CallsInOrder
<1>3. \* A pair that was calling for one key, and has not changed.
      ASSUME Calling(l), Calling(m), KeyOf(l)' = KeyOf(l), KeyOf(m)' = KeyOf(m),
             alertedAt'[l] = alertedAt[l], alertedAt'[m] = alertedAt[m]
      PROVE  Apart(l, m)'
  <2>1. Apart(l, m)
    BY <1>1, <1>3
  <2> QED
    BY <1>3, <2>1
<1>4. ASSUME NEW j \in Loops, loop'[j] = loop[j]
      PROVE  KeyOf(j)' = KeyOf(j) /\ (Calling(j)' <=> Calling(j))
  BY <1>4 DEF KeyOf, Calling, Done, Names
<1>5. CASE Quiet
  BY <1>3, <1>4, <1>5 DEF Quiet
<1>6. \* The step of a loop that calls no channel after it, or the same finding's next.
      ASSUME NEW i \in Loops, OthersStay(i),
             Calling(i)' => Calling(i) /\ KeyOf(i)' = KeyOf(i) /\ alertedAt'[i] = alertedAt[i]
      PROVE  Apart(l, m)'
  <2>1. \A j \in Loops : Calling(j)' => Calling(j) /\ KeyOf(j)' = KeyOf(j) /\ alertedAt'[j] = alertedAt[j]
    BY <1>4, <1>6 DEF OthersStay
  <2> QED
    BY <1>3, <2>1
<1>7. ASSUME NEW i \in Loops, Receive(i) \/ ScanEvent(i) \/ Panic(i)
      PROVE  Apart(l, m)'
  <2>1. OthersStay(i) /\ loop'[i].at = Done
    BY <1>1, <1>7, ReceiveFacts, ScanEventFacts, PanicFacts DEF Idle
  <2>2. ~ Calling(i)'
    BY <2>1 DEF Calling, Done, Names
  <2> QED
    BY <1>6, <2>1, <2>2
<1>8. ASSUME NEW i \in Loops, Send(i)
      PROVE  Apart(l, m)'
  <2>1. /\ OthersStay(i) /\ Calling(i) /\ alertedAt' = alertedAt
        /\ Ends(i) \/ Starts(i, NextCall(RouteOf(i), loop[i].at + 1))
    BY <1>1, <1>8, SendFacts
  <2>2. Calling(i)' => KeyOf(i)' = KeyOf(i)
    BY <2>1 DEF Ends, Starts, Calling, KeyOf, Done, Names
  <2> QED
    BY <1>6, <2>1, <2>2
<1>9. ASSUME NEW i \in Loops, Dispatch(i)
      PROVE  Apart(l, m)'
  <2>1. /\ OthersStay(i) /\ KeyOf(i) \in Keys /\ Cache!ShouldAlert(KeyOf(i))
        /\ alertedAt' = IF verdict'.alert THEN [alertedAt EXCEPT ![i] = now] ELSE alertedAt
        /\ Ends(i) \/ (verdict'.alert /\ Starts(i, NextCall(RouteOf(i), 1)))
    BY <1>1, <1>9, DispatchFacts
  <2>2. CASE Ends(i)
    <3>1. ~ Calling(i)'
      BY <2>2 DEF Ends, Calling, Done, Names
    <3> QED
      BY <1>6, <2>1, <3>1
  <2>3. CASE i \notin {l, m}
    BY <1>3, <1>4, <2>1, <2>3 DEF OthersStay
  <2>4. CASE verdict'.alert /\ Starts(i, NextCall(RouteOf(i), 1)) /\ i \in {l, m}
    <3>1. KeyOf(i)' = KeyOf(i)
      BY <2>4 DEF Starts, KeyOf
    <3>2. PICK j \in Loops : j # i /\ {i, j} = {l, m}
      BY <2>4
    <3>3. Calling(j) /\ KeyOf(j) = KeyOf(i)
      BY <1>4, <2>1, <2>4, <3>1, <3>2 DEF OthersStay
    <3>4. KeyOf(i) \in DOMAIN lastAlert /\ alertedAt[j] <= lastAlert[KeyOf(i)]
      BY <1>2, <3>3
    <3>5. /\ now - lastAlert[KeyOf(i)] >= Window
          /\ now \in Nat /\ lastAlert[KeyOf(i)] \in 0..now
      BY <1>1, <2>1, <2>4, <3>4, CacheAssumption, Cache!CallFacts
    <3>6. alertedAt'[i] = now /\ alertedAt'[j] = alertedAt[j] /\ alertedAt[j] \in Nat
      BY <1>1, <2>1, <2>4, <3>2 DEF OthersStay
    <3>7. alertedAt'[i] - alertedAt'[j] >= Window
      BY <1>1, <3>4, <3>5, <3>6
    <3> QED
      BY <3>2, <3>7
  <2> QED
    BY <2>1, <2>2, <2>3, <2>4
<1> QED
  BY <1>5, <1>7, <1>8, <1>9, StepCases

LEMMA NextKeepsDispatcherInv ==
  ASSUME DispatcherInv, [Next]_vars
  PROVE  DispatcherInv'
<1>1. Cache!CacheInv' /\ LoopTypes' /\ UsedAreChecked' /\ CallsInOrder'
  BY NextKeepsCacheInv, NextKeepsLoopTypes, NextKeepsUsedAreChecked, NextKeepsCallsInOrder
<1>2. MissedWasWarned' /\ OneAlertInFlight'
  BY NextKeepsMissedWarned, NextKeepsOneAlertInFlight
<1>3. DeadAreIdle' /\ FoundByRules' /\ CheckedWereWarned'
  BY NextKeepsDeadAreIdle, NextKeepsFoundByRules, NextKeepsCheckedWereWarned
<1> QED
  BY <1>1, <1>2, <1>3 DEF DispatcherInv

---------------------------------------------------------------------------
(* The theorems. *)

\* The invariant holds in every reachable state: the shared cache is a faithful part of
\* the history, every version in use is checked, and every loop's calls are in order.
THEOREM DispatcherInvHolds == Spec => []DispatcherInv
<1>1. Init => DispatcherInv
  BY InitDispatcherInv
<1>2. DispatcherInv /\ [Next]_vars => DispatcherInv'
  BY NextKeepsDispatcherInv
<1> QED
  BY <1>1, <1>2, PTL DEF Spec

\* The variables keep their types, and a loop that calls a channel has called no later one
\* for the same finding (the order of dispatch's for loop).
THEOREM DispatcherTypes == Spec => []TypeOK
<1>1. DispatcherInv => TypeOK
  <2> SUFFICES ASSUME DispatcherInv
               PROVE  TypeOK
    OBVIOUS
  <2>1. Cache!CacheInv /\ LoopTypes /\ UsedAreChecked /\ CallsInOrder
    BY DEF DispatcherInv
  <2>2. Dedup!TypeOK
    BY <2>1, SameTypes DEF Cache!CacheInv
  <2>3. Done \in Nat \ {0} /\ Channels = 1..(Done - 1)
    BY ChannelsAreNumbered
  <2>4. ASSUME NEW l \in Loops
        PROVE  /\ loop[l].rules \in {0} \cup DOMAIN Routes
               /\ loop[l].rules = 0 => loop[l] = Idle
               /\ l \in dead => loop[l] = Idle
               /\ loop[l].findings \in Seq(Keys)
               /\ loop[l].at \in Channels \cup {Done}
               /\ Calling(l) => \A i \in DOMAIN answers[l] : answers[l][i].channel < loop[l].at
               /\ alertedAt[l] \in 0..MaxTime
    <3>1. loop[l] \in LoopStates
      BY <2>1 DEF LoopTypes
    <3>2. loop[l].at \in Channels \cup {Done} /\ loop[l].findings \in Seq(Keys)
      BY <2>3, <3>1 DEF LoopStates
    <3>3. Calling(l) => \A i \in DOMAIN answers[l] : answers[l][i].channel < loop[l].at
      BY <2>1 DEF CallsInOrder, Called, RoutedBefore
    <3>4. l \in dead => loop[l] = Idle
      BY DEF DispatcherInv, DeadAreIdle
    <3> QED
      BY <2>1, <3>2, <3>3, <3>4, LoopFacts DEF LoopTypes
  <2>5. rules \in DOMAIN Routes /\ checked \subseteq DOMAIN Routes
    BY <2>1 DEF UsedAreChecked
  <2>6. failed \subseteq Keys /\ \A w \in warned \cup missed : w[1] \in checked
    BY <2>1 DEF LoopTypes, DispatcherInv, CheckedWereWarned, MissedWasWarned
  <2> QED
    BY <2>2, <2>4, <2>5, <2>6 DEF TypeOK
<1> QED
  BY <1>1, DispatcherInvHolds, PTL

\* For every name on the route of an alerted finding that none of the called channels has,
\* validate_channel_routing had warned, under the rules the finding was found with (its
\* comparison of names and dispatch's skip the same ones, and the check comes before the swap).
THEOREM MissedNamesWereWarned == Spec => []MissedWasWarned
<1>1. DispatcherInv => MissedWasWarned
  BY DEF DispatcherInv
<1> QED
  BY <1>1, DispatcherInvHolds, PTL

\* Two loops are calling channels for one key only for alerts a window apart: the stamp of
\* should_alert comes before the first await of dispatch, and no step between removes it.
THEOREM AlertsDoNotOverlap == Spec => []OneAlertInFlight
<1>1. DispatcherInv => OneAlertInFlight
  BY DEF DispatcherInv
<1> QED
  BY <1>1, DispatcherInvHolds, PTL

\* When dispatch is through with a finding it has called every channel on its route, each
\* once and in order, whatever they answered and whatever was reloaded meanwhile.
THEOREM EveryRoutedChannelIsCalled == Spec => FanOutIsComplete
<1> DEFINE Complete ==
      \A l \in Loops :
        Calling(l) /\ loop'[l].at = Done /\ l \notin dead' =>
          /\ {answers'[l][i].channel : i \in DOMAIN answers'[l]}
               = {c \in Channels : RouteOf(l) = AllChannels \/ Names[c] \in RouteOf(l)}
          /\ \A i, j \in DOMAIN answers'[l] :
               i < j => answers'[l][i].channel < answers'[l][j].channel
<1>1. DispatcherInv /\ [Next]_vars => [Complete]_vars
  <2> SUFFICES ASSUME DispatcherInv, [Next]_vars,
                      NEW l \in Loops, Calling(l), loop'[l].at = Done, l \notin dead'
               PROVE  /\ Called(answers'[l]) = {c \in Channels : Routed(RouteOf(l), c)}
                      /\ Ascending(answers'[l])
    BY DEF Calling, Called, Ascending, Routed
  <2>1. /\ LoopTypes /\ UsedAreChecked /\ CallsInOrder
        /\ InOrder(l)
        /\ Done \in Nat \ {0} /\ Channels = 1..(Done - 1)
    BY ChannelsAreNumbered DEF DispatcherInv, CallsInOrder, InOrder
  <2>2. CASE Quiet
    BY <2>2 DEF Quiet, Calling
  <2>3. ASSUME NEW m \in Loops, OthersStay(m), m # l
        PROVE  FALSE
    BY <2>3 DEF OthersStay, Calling
  <2>4. ASSUME NEW m \in Loops, Receive(m)
        PROVE  FALSE
    <3>1. OthersStay(m) /\ loop[m] = Idle
      BY <2>1, <2>4, ReceiveFacts DEF Receive
    <3> QED
      BY <2>3, <3>1 DEF Calling, Idle
  <2>5. ASSUME NEW m \in Loops, ScanEvent(m) \/ Dispatch(m)
        PROVE  FALSE
    <3>1. OthersStay(m) /\ loop[m].at = Done
      BY <2>1, <2>5, ScanEventFacts, DispatchFacts
    <3> QED
      BY <2>3, <3>1 DEF Calling
  <2>6. ASSUME NEW m \in Loops, Send(m)
        PROVE  /\ Called(answers'[l]) = {c \in Channels : Routed(RouteOf(l), c)}
               /\ Ascending(answers'[l])
    <3> DEFINE c == loop[l].at
               n == NextCall(RouteOf(l), c + 1)
    <3>1. m = l
      BY <2>1, <2>3, <2>6, SendFacts
    <3>2. /\ c \in Channels
          /\ Called(answers'[l]) = Called(answers[l]) \cup {c}
          /\ (\A d \in Called(answers[l]) : d < c) /\ Ascending(answers[l])
               => Ascending(answers'[l])
          /\ Starts(l, n) \/ (Ends(l) /\ n = Done)
      BY <2>1, <2>6, <3>1, SendFacts
    <3>3. n = Done
      BY <3>2 DEF Starts
    <3>4. Called(answers'[l]) = RoutedBefore(RouteOf(l), Done)
      BY <2>1, <3>2, <3>3, RoutedBeforeNext DEF InOrder
    <3>5. RoutedBefore(RouteOf(l), Done) = {d \in Channels : Routed(RouteOf(l), d)}
      BY <2>1 DEF RoutedBefore
    <3>6. Ascending(answers'[l])
      BY <2>1, <3>2 DEF InOrder, RoutedBefore
    <3> QED
      BY <3>4, <3>5, <3>6
  <2>7. ASSUME NEW m \in Loops, Panic(m)
        PROVE  FALSE
    BY <2>1, <2>3, <2>7, PanicFacts
  <2> QED
    BY <2>2, <2>4, <2>5, <2>6, <2>7, StepCases
<1> QED
  BY <1>1, DispatcherInvHolds, PTL DEF Spec, FanOutIsComplete

=============================================================================
