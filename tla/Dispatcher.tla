----------------------------- MODULE Dispatcher -----------------------------
(***************************************************************************)
(* alerts/dispatcher.rs under the scan loops of                            *)
(* pipeline/supervisor/database_unit.rs and the reload of commands/scan.rs *)
(* : from a batch to the calls of the alert channels.  The loops share the *)
(* dispatcher and run between each other's awaits, which are the calls of  *)
(* channels; the rules are replaced under them, the dispatcher never is.   *)
(*                                                                         *)
(* A finding is its dedup key; an event is a function from the versions of *)
(* the rules to the keys they find in it, in order.  Version v finds keys  *)
(* in the domain of Routes[v] and routes them to the given names.          *)
(***************************************************************************)
EXTENDS AlertNames, Integers, FiniteSets, FiniteSetsExt

CONSTANTS Loops,          \* the scan loops, one per database
          Alerts,         \* the AlertsConfig
          Routes,         \* one function per version of the rules: key -> set of names, or AllChannels
          Batches,        \* the batches a loop may receive: sequences of events
          MaxBatches,     \* bound on the batches received
          Keys, Window, PruneThreshold, MaxTime   \* the deduplicator's

\* What an event may be.
Events == {e \in [DOMAIN Routes -> Seq(Keys)] :
             \A v \in DOMAIN Routes : e[v] \in Seq(DOMAIN Routes[v])}

\* What a `name` in the configuration may be.
GivenNames == Seq(STRING)

ASSUME DispatcherAssumption ==
  /\ Alerts \in [log : BOOLEAN, stdout : BOOLEAN, jsonl : Seq(GivenNames),
                 webhooks : Seq(GivenNames), slack : Seq(GivenNames), postgres : Seq(GivenNames)]
  /\ DOMAIN Routes = 1..Len(Routes)
  /\ Len(Routes) \in Nat \ {0}
  /\ Batches \subseteq Seq(Events)
  /\ IsFiniteSet(Keys)
  /\ {Window, PruneThreshold, MaxTime} \subseteq Nat

VARIABLES now, seen, lastCall, prunedAt, verdict, lastAlert,   \* the deduplicator's
          checked,  \* versions whose routing has been checked against the channels
          warned,   \* what the checks warned of: (version, key, name without a channel)
          rules,    \* the active version, behind the ArcSwap
          loop,     \* per loop: its rules, what is left of batch and event, the call it is in
          dead,     \* the loops whose task has panicked
          received, \* batches received so far
          answers,  \* history, per loop: the channels called for its last finding, their answers
          alertedAt, \* history, per loop: the instant of its last alert
          failed,   \* history: keys whose last alert no channel accepted
          missed    \* history: (version, key, name on the route) alerted without a call for it

Dedup == INSTANCE Deduplicator

dedupVars == <<now, seen, lastCall, prunedAt, verdict, lastAlert>>
routing == <<checked, warned, rules>>
histories == <<answers, alertedAt, failed, missed>>
vars == <<dedupVars, routing, loop, dead, received, histories>>

Names == DispatcherNames(Alerts)
KindOf == Kinds(Alerts)
Channels == DOMAIN Names
Done == Len(Names) + 1

Idle == [rules |-> 0, batch |-> <<>>, findings |-> <<>>, at |-> Done]

\* The channel that Names[c] stands for is on the route.
Routed(route, c) == route = AllChannels \/ Names[c] \in route

\* The next channel to call at or after c.
NextCall(route, c) == Min({d \in Channels : d >= c /\ Routed(route, d)} \cup {Done})

KeyOf(l) == Head(loop[l].findings)
RouteOf(l) == Routes[loop[l].rules][KeyOf(l)]

\* What validate_channel_routing warns of: the names on the routes that no channel has.
Warnings(v) ==
  UNION {{<<v, k, n>> : n \in UnknownChannels(Routes[v][k], Names)} : k \in DOMAIN Routes[v]}

Init == /\ Dedup!Init
        /\ checked = {1}
        /\ warned = Warnings(1)
        /\ rules = 1
        /\ loop = [l \in Loops |-> Idle]
        /\ dead = {}
        /\ received = 0
        /\ answers = [l \in Loops |-> <<>>]
        /\ alertedAt = [l \in Loops |-> 0]
        /\ failed = {}
        /\ missed = {}

---------------------------------------------------------------------------
(***************************************************************************)
(* The scan loop.  A definition whose name starts with Mut is a            *)
(* deliberately wrong variant of the one that follows it, used nowhere.    *)
(***************************************************************************)

\* recv, and the scanner is loaded for the whole batch.
Receive(l) ==
  /\ loop[l] = Idle
  /\ l \notin dead
  /\ received < MaxBatches
  /\ \E b \in Batches :
       loop' = [loop EXCEPT ![l] = [rules |-> rules, batch |-> b, findings |-> <<>>, at |-> Done]]
  /\ received' = received + 1
  /\ UNCHANGED <<dedupVars, routing, dead, histories>>

\* The next event is scanned; the batch ends after its last.
ScanEvent(l) ==
  /\ loop[l].rules # 0
  /\ loop[l].findings = <<>>
  /\ IF loop[l].batch = <<>>
     THEN loop' = [loop EXCEPT ![l] = Idle]
     ELSE loop' = [loop EXCEPT ![l].batch = Tail(@),
                               ![l].findings = Head(loop[l].batch)[loop[l].rules]]
  /\ UNCHANGED <<dedupVars, routing, dead, received, histories>>

Finished(l) == [loop EXCEPT ![l].findings = Tail(@), ![l].at = Done]

\* The names on the route of a loop's finding for which none of the called channels stands.
Unserved(l, called) ==
  IF RouteOf(l) = AllChannels THEN {}
  ELSE {<<loop[l].rules, KeyOf(l), n>> : n \in RouteOf(l) \ {Names[c] : c \in called}}

\* dispatch up to its first await: the key is stamped before any channel is called.
Dispatch(l) ==
  /\ loop[l].findings # <<>>
  /\ loop[l].at = Done
  /\ LET k == KeyOf(l)
         first == NextCall(RouteOf(l), 1)
     IN  /\ Dedup!ShouldAlert(k)
         /\ answers' = [answers EXCEPT ![l] = <<>>]
         /\ alertedAt' = IF verdict'.alert THEN [alertedAt EXCEPT ![l] = now] ELSE alertedAt
         /\ IF verdict'.alert /\ first # Done
            THEN loop' = [loop EXCEPT ![l].at = first]
            ELSE loop' = Finished(l)
         /\ IF verdict'.alert /\ first = Done
            THEN failed' = failed \cup {k} /\ missed' = missed \cup Unserved(l, {})
            ELSE UNCHANGED <<failed, missed>>
  /\ UNCHANGED <<routing, dead, received>>

(***************************************************************************)
(* The channels, by what a call of send can come to.  log writes to a      *)
(* buffer that drops what it has no room for; stdout's println! panics     *)
(* when the reader of the pipe is gone; jsonl may fail to write or flush;  *)
(* a webhook answers with something else than success or not before its    *)
(* timeout; SlackChannel has the details of Slack's.  An insert, and a     *)
(* println! into a full pipe, may also take for ever: no timeout bounds    *)
(* them.                                                                   *)
(***************************************************************************)
LogSend == {"ok"}
StdoutSend == {"ok", "panic"}
JsonlSend == {"ok", "error"}
\* With a client that has no timeout, an endpoint that never answers.
MutWebhookSend == {}
WebhookSend == {"ok", "error"}
SlackSend == {"ok", "error"}
PostgresSend == {"ok", "error"}

ChannelSend(kind) == CASE kind = "log"      -> LogSend
                       [] kind = "stdout"   -> StdoutSend
                       [] kind = "jsonl"    -> JsonlSend
                       [] kind = "webhook"  -> WebhookSend
                       [] kind = "slack"    -> SlackSend
                       [] kind = "postgres" -> PostgresSend

MutSendStopsAtError(l, c, answer) ==
  IF answer = "error" THEN Done ELSE NextCall(RouteOf(l), c + 1)
MutSendRetries(l, c, answer) ==
  IF answer = "error" THEN c ELSE NextCall(RouteOf(l), c + 1)
AfterSend(l, c, answer) == NextCall(RouteOf(l), c + 1)

\* A channel's answer, and on to the next routed one, whatever it was.
Send(l) ==
  /\ loop[l].at # Done
  /\ LET c == loop[l].at
         k == KeyOf(l)
     IN  \E answer \in ChannelSend(KindOf[c]) \ {"panic"} :
           LET next == AfterSend(l, c, answer)
               all == Append(answers[l], [channel |-> c, answer |-> answer])
               called == {all[i].channel : i \in DOMAIN all}
           IN  /\ answers' = [answers EXCEPT ![l] = all]
               /\ IF next = Done
                  THEN /\ loop' = Finished(l)
                       /\ failed' = IF \A i \in DOMAIN all : all[i].answer = "error"
                                    THEN failed \cup {k} ELSE failed \ {k}
                       /\ missed' = missed \cup Unserved(l, called)
                  ELSE /\ loop' = [loop EXCEPT ![l].at = next]
                       /\ UNCHANGED <<failed, missed>>
  /\ UNCHANGED <<dedupVars, routing, dead, received, alertedAt>>

\* A panic ends the loop's task, with what it had in hand; no other task joins it.
Panic(l) ==
  /\ loop[l].at # Done
  /\ "panic" \in ChannelSend(KindOf[loop[l].at])
  /\ loop' = [loop EXCEPT ![l] = Idle]
  /\ dead' = dead \cup {l}
  /\ UNCHANGED <<dedupVars, routing, received, histories>>

---------------------------------------------------------------------------

\* The reload: the new rules' routing is checked, then their scanner takes the old one's
\* place.  The mutant checks the rules scan.rs has as `rules`, those read at the start.
MutCheckRouting ==
  /\ rules + 1 \in DOMAIN Routes \ checked
  /\ checked' = checked \cup {rules + 1}
  /\ warned' = warned \cup Warnings(1)
  /\ UNCHANGED <<dedupVars, rules, loop, dead, received, histories>>
CheckRouting ==
  /\ rules + 1 \in DOMAIN Routes \ checked
  /\ checked' = checked \cup {rules + 1}
  /\ warned' = warned \cup Warnings(rules + 1)
  /\ UNCHANGED <<dedupVars, rules, loop, dead, received, histories>>

SwapRules ==
  /\ rules + 1 \in checked
  /\ rules' = rules + 1
  /\ UNCHANGED <<dedupVars, checked, warned, loop, dead, received, histories>>

Tick == Dedup!Tick /\ UNCHANGED <<routing, loop, dead, received, histories>>

LoopStep(l) == ScanEvent(l) \/ Dispatch(l) \/ Send(l) \/ Panic(l)

Next == Tick \/ CheckRouting \/ SwapRules \/ \E l \in Loops : Receive(l) \/ LoopStep(l)

Spec == Init /\ [][Next]_vars

Calling(l) == loop[l].at # Done
In(l, kind) == Calling(l) /\ KindOf[loop[l].at] = kind

\* println! holds the runtime's thread, and with it the tasks queued there, while it waits
\* for the reader of the pipe.
StdoutIsStalled == \E l \in Loops : In(l, "stdout")

\* A task that can run is polled again, and every call ends but an insert or a println!;
\* of the latter, and of what its thread holds up, nothing is assumed.
FairSpec ==
  Spec /\ \A l \in Loops : WF_vars(~In(l, "postgres") /\ ~StdoutIsStalled /\ LoopStep(l))

---------------------------------------------------------------------------

\* The types of the dispatcher's own variables.  A loop without rules has nothing to do, a
\* dead one never gets rules again, and one that calls a channel has called no later one
\* for the same finding.
TypeOK ==
  /\ Dedup!TypeOK
  /\ rules \in DOMAIN Routes
  /\ checked \subseteq DOMAIN Routes
  /\ \A l \in Loops :
       /\ loop[l].rules \in {0} \cup DOMAIN Routes
       /\ loop[l].rules = 0 => loop[l] = Idle
       /\ l \in dead => loop[l] = Idle
       /\ loop[l].findings \in Seq(Keys)
       /\ loop[l].at \in Channels \cup {Done}
       /\ Calling(l) => \A i \in DOMAIN answers[l] : answers[l][i].channel < loop[l].at
       /\ alertedAt[l] \in 0..MaxTime
  /\ failed \subseteq Keys
  /\ \A w \in warned \cup missed : w[1] \in checked

\* dispatch calls every channel on the finding's route once, in their order, whatever
\* the others answered and whatever the other loops and a reload do meanwhile: the
\* route is that of the rules that found it.  Only a panic cuts it short.
FanOutIsComplete ==
  [][\A l \in Loops :
       Calling(l) /\ loop'[l].at = Done /\ l \notin dead' =>
         /\ {answers'[l][i].channel : i \in DOMAIN answers'[l]}
              = {c \in Channels : RouteOf(l) = AllChannels \/ Names[c] \in RouteOf(l)}
         /\ \A i, j \in DOMAIN answers'[l] :
              i < j => answers'[l][i].channel < answers'[l][j].channel]_vars

\* A finding is stamped and counted as passed though a name on its route stands for none of
\* the channels that dispatch called: then the log has said so.  A warning for that name,
\* under the very rules the finding was found with, was written before they were in use,
\* however often they were replaced while the loop still had a batch to finish.
MissedWasWarned == missed \subseteq warned

\* Two loops call channels for one key at a time only if the alerts they are busy with are
\* a window apart: a call that takes longer than the window is overtaken by the next alert.
OneAlertInFlight ==
  \A l, m \in Loops :
    /\ l # m
    /\ Calling(l) /\ Calling(m)
    /\ KeyOf(l) = KeyOf(m)
    => \/ alertedAt[l] - alertedAt[m] >= Window
       \/ alertedAt[m] - alertedAt[l] >= Window

\* A loop that received a batch gets back to its queue if its inserts end and nobody's
\* println! stalls for ever: no other channel that fails or takes long, no other loop's
\* insert that hangs and no panic of another loop stops it.
OnlyUntimedCallsHoldUp ==
  \A l \in Loops :
    []<>(~In(l, "postgres")) /\ []<>(~StdoutIsStalled) => (loop[l] # Idle ~> loop[l] = Idle)

\* docs/src/alerts/deduplication.md: what is counted as passed "passed dedup and
\* reached channels".  It may have reached none, and is muted all the same.
PassedReachedAChannel == failed = {}

\* docs/src/rules/hot-reload.md: after the swap "the next event uses the new one".  A loop
\* keeps the scanner it loaded for the whole batch.
NextEventUsesNewRules ==
  [][\A l \in Loops :
       loop[l].rules # 0 /\ loop'[l].rules # 0 /\ loop'[l].batch # loop[l].batch
         => loop[l].rules = rules]_vars

===========================================================================
