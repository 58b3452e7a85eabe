--------------------------- MODULE SlackChannel ---------------------------
(***************************************************************************)
(* alerts/slack.rs: findings collected in a buffer and posted in batches.  *)
(*                                                                         *)
(* The callers are concurrent: the scan loops, one per database, whose     *)
(* dispatcher calls send; the ticker task, which flushes a batch that has  *)
(* waited for batch_window; and the scan command, which flushes once       *)
(* before the process ends.  The buffer is behind a mutex that is released *)
(* between filling and draining it, and while a batch is posted.           *)
(*                                                                         *)
(* A finding is known by the order in which it entered the buffer.         *)
(***************************************************************************)
EXTENDS Integers, FiniteSets, Sequences, SequencesExt

CONSTANTS Senders,    \* the scan loops
          BatchSize,  \* batch_size
          MaxRetries, \* max_retries
          MaxFindings \* bound on the findings

Ticker == "ticker"
Main   == "main"
Callers == Senders \cup {Ticker, Main}

ASSUME SlackAssumption == /\ IsFiniteSet(Senders)
                          /\ {Ticker, Main} \cap Senders = {}
                          /\ BatchSize \in Nat \ {0}
                          /\ {MaxRetries, MaxFindings} \subseteq Nat

VARIABLES buffer,    \* BufferState.findings
          timer,     \* first_buffered_at: "off" (None), "running", or "due" after batch_window
          entered,   \* findings that have entered the buffer
          doing,     \* each caller: "idle", "full" (about to drain), "posting" or "done"
          inFlight,  \* the batch a caller has drained
          attempt,   \* its attempt at posting it
          posts,     \* history: in how many messages a finding is on Slack
          exhausted, \* history: findings dropped when the retries ran out
          failed,    \* history: findings dropped after any other failure
          errors     \* pgsense_alerts_total{status="error"}

vars == <<buffer, timer, entered, doing, inFlight, attempt, posts, exhausted, failed, errors>>

Findings == 1..MaxFindings

Init == /\ buffer = <<>>
        /\ timer = "off"
        /\ entered = 0
        /\ doing = [c \in Callers |-> "idle"]
        /\ inFlight = [c \in Callers |-> <<>>]
        /\ attempt = [c \in Callers |-> 0]
        /\ posts = [f \in Findings |-> 0]
        /\ exhausted = {}
        /\ failed = {}
        /\ errors = 0

Alive == doing[Main] # "done"

---------------------------------------------------------------------------
(***************************************************************************)
(* The buffer.  A definition whose name starts with Mut is a deliberately  *)
(* wrong variant of the one that follows it, used nowhere.                 *)
(***************************************************************************)

MutFullAbove(n) == n > BatchSize
Full(n) == n >= BatchSize

\* send: push, start the timer if it is off, and decide whether to drain.
Send(s) ==
  /\ doing[s] = "idle"
  /\ entered < MaxFindings
  /\ entered' = entered + 1
  /\ buffer' = Append(buffer, entered')
  /\ timer' = IF timer = "off" THEN "running" ELSE timer
  /\ doing' = [doing EXCEPT ![s] = IF Full(Len(buffer')) THEN "full" ELSE "idle"]
  /\ UNCHANGED <<inFlight, attempt, posts, exhausted, failed, errors>>

MutDrainKeepsBuffer(c) ==
  /\ timer' = "off"
  /\ doing' = [doing EXCEPT ![c] = "posting"]
  /\ inFlight' = [inFlight EXCEPT ![c] = buffer]
  /\ attempt' = [attempt EXCEPT ![c] = 0]
  /\ UNCHANGED <<buffer, entered, posts, exhausted, failed, errors>>

MutDrainKeepsTimer(c) ==
  /\ buffer' = <<>>
  /\ doing' = [doing EXCEPT ![c] = "posting"]
  /\ inFlight' = [inFlight EXCEPT ![c] = buffer]
  /\ attempt' = [attempt EXCEPT ![c] = 0]
  /\ UNCHANGED <<timer, entered, posts, exhausted, failed, errors>>

Drain(c) ==
  /\ timer' = "off"
  /\ buffer' = <<>>
  /\ doing' = [doing EXCEPT ![c] = "posting"]
  /\ inFlight' = [inFlight EXCEPT ![c] = buffer]
  /\ attempt' = [attempt EXCEPT ![c] = 0]
  /\ UNCHANGED <<entered, posts, exhausted, failed, errors>>

Return(c) == IF c = Main THEN "done" ELSE "idle"

\* flush(true) of a sender that filled the buffer, or of the ending command.
ForcedFlush(c) ==
  /\ doing[c] = IF c = Main THEN "idle" ELSE "full"
  /\ \/ buffer # <<>> /\ Drain(c)
     \/ /\ buffer = <<>>
        /\ doing' = [doing EXCEPT ![c] = Return(c)]
        /\ UNCHANGED <<buffer, timer, entered, inFlight, attempt, posts, exhausted, failed,
                       errors>>

MutTickFullOnly ==
  /\ doing[Ticker] = "idle"
  /\ timer = "due"
  /\ Full(Len(buffer))
  /\ Drain(Ticker)

\* A tick of the ticker that finds the oldest finding waiting for batch_window.
Tick ==
  /\ doing[Ticker] = "idle"
  /\ timer = "due"
  /\ Drain(Ticker)

WindowElapses ==
  /\ timer = "running"
  /\ timer' = "due"
  /\ UNCHANGED <<buffer, entered, doing, inFlight, attempt, posts, exhausted, failed, errors>>

---------------------------------------------------------------------------
(* send_batch: one request after another until one settles the batch. *)

Settle(c) == /\ doing' = [doing EXCEPT ![c] = Return(c)]
             /\ inFlight' = [inFlight EXCEPT ![c] = <<>>]
             /\ attempt' = [attempt EXCEPT ![c] = 0]

\* Slack shows the message.
Shown(c) == posts' = [f \in Findings |-> IF f \in ToSet(inFlight[c]) THEN posts[f] + 1 ELSE posts[f]]

\* send() returns the error to the dispatcher, which counts it; the ticker and the
\* final flush only log it.
CountError(c) == errors' = errors + (IF c \in Senders THEN 1 ELSE 0)

Posted(c) ==
  /\ doing[c] = "posting"
  /\ Shown(c)
  /\ Settle(c)
  /\ UNCHANGED <<buffer, timer, entered, exhausted, failed, errors>>

MutRateLimitedOnceMore(c) ==
  /\ doing[c] = "posting"
  /\ IF attempt[c] <= MaxRetries
     THEN /\ attempt' = [attempt EXCEPT ![c] = @ + 1]
          /\ UNCHANGED <<doing, inFlight, exhausted, errors>>
     ELSE /\ Settle(c)
          /\ exhausted' = exhausted \cup ToSet(inFlight[c])
          /\ CountError(c)
  /\ UNCHANGED <<buffer, timer, entered, posts, failed>>

\* 429: sleep and try again, or give up after the last attempt.
RateLimited(c) ==
  /\ doing[c] = "posting"
  /\ IF attempt[c] < MaxRetries
     THEN /\ attempt' = [attempt EXCEPT ![c] = @ + 1]
          /\ UNCHANGED <<doing, inFlight, exhausted, errors>>
     ELSE /\ Settle(c)
          /\ exhausted' = exhausted \cup ToSet(inFlight[c])
          /\ CountError(c)
  /\ UNCHANGED <<buffer, timer, entered, posts, failed>>

MutRequestFails(c) ==
  /\ doing[c] = "posting"
  /\ attempt[c] < MaxRetries
  /\ attempt' = [attempt EXCEPT ![c] = @ + 1]
  /\ Shown(c)
  /\ UNCHANGED <<buffer, timer, entered, doing, inFlight, exhausted, failed, errors>>

\* Any other answer, or none before the timeout, in which case Slack may show the
\* message all the same: give up.
RequestFails(c) ==
  /\ doing[c] = "posting"
  /\ Settle(c)
  /\ Shown(c) \/ UNCHANGED posts
  /\ failed' = failed \cup ToSet(inFlight[c])
  /\ CountError(c)
  /\ UNCHANGED <<buffer, timer, entered, exhausted>>

Post(c) == Posted(c) \/ RateLimited(c) \/ RequestFails(c)

---------------------------------------------------------------------------

\* Nothing runs after the command's flush: the process ends.
Next == /\ Alive
        /\ \/ \E s \in Senders : Send(s)
           \/ \E c \in Senders \cup {Main} : ForcedFlush(c)
           \/ Tick
           \/ WindowElapses
           \/ \E c \in Callers : Post(c)

Spec == Init /\ [][Next]_vars

(***************************************************************************)
(* The tasks run on, time passes, and every request ends, if only by the   *)
(* client's timeout.  Nothing is assumed of what arrives.                  *)
(***************************************************************************)
FairSpec == /\ Spec
            /\ WF_vars(Alive /\ Tick)
            /\ WF_vars(Alive /\ WindowElapses)
            /\ \A s \in Senders : WF_vars(Alive /\ ForcedFlush(s))
            /\ \A c \in Callers : WF_vars(Alive /\ Post(c))

---------------------------------------------------------------------------

Settled == exhausted \cup failed \cup {f \in Findings : posts[f] > 0}

TypeOK ==
  /\ entered \in 0..MaxFindings
  /\ buffer \in Seq(1..entered)
  /\ timer \in {"off", "running", "due"}
  /\ doing \in [Callers -> {"idle", "full", "posting", "done"}]
  /\ DOMAIN inFlight = Callers
  /\ \A c \in Callers : inFlight[c] \in Seq(1..entered)
  /\ attempt \in [Callers -> 0..MaxRetries]
  /\ posts \in [Findings -> Nat]
  /\ {exhausted, failed} \subseteq SUBSET (1..entered)
  /\ errors \in 0..MaxFindings

\* A finding that entered the buffer is in one place: the buffer, one caller's batch, or
\* settled; two callers never hold it, and draining races with no push.
OnePlaceEach ==
  \A f \in 1..entered :
    Cardinality({c \in Callers : f \in ToSet(inFlight[c])})
      + (IF f \in ToSet(buffer) THEN 1 ELSE 0)
      + (IF f \in Settled THEN 1 ELSE 0) = 1

\* The buffer's age is known exactly while something waits in it: no finding waits
\* without a timer, no timer of an old batch cuts a new one short.
TimerMeansWaiting == (timer = "off") <=> (buffer = <<>>)

\* The buffer reaches batch_size only through the scan loops that found it full and have
\* not drained it yet, so a message exceeds batch_size by less than one finding for each
\* of them.
MessageIsBounded ==
  /\ Len(buffer) <= BatchSize - 1 + Cardinality({s \in Senders : doing[s] = "full"})
  /\ \A c \in Callers : Len(inFlight[c]) <= BatchSize + Cardinality(Senders) - 1

\* No finding is shown in two messages: only an answer that says it was refused is
\* retried, never a request that may have been served.
NeverPostedTwice == \A f \in Findings : posts[f] <= 1

\* A finding in the buffer is posted or dropped after a failure, however few follow it,
\* unless the process ends first.
BufferedIsSettled ==
  \A f \in Findings : (f \in ToSet(buffer)) ~> (f \in Settled \/ ~Alive)

---------------------------------------------------------------------------
(* What the documentation says and the code does not do. *)

\* docs/src/alerts/slack.md: batch_size is the "findings per message".
MessagesFitBatchSize == \A c \in Callers : Len(inFlight[c]) <= BatchSize

\* Slack channel documentation: findings that exhaust the retries are counted as errors.
ExhaustedAreCounted == Cardinality(exhausted) <= errors

===========================================================================
