----------------------------- MODULE Delivery -----------------------------
(***************************************************************************)
(* pipeline/destination.rs, the channel and scan loop of                   *)
(* pipeline/supervisor/database_unit.rs and the rebuild in                 *)
(* pipeline/runner.rs: how one database's changes reach the rules.  The    *)
(* units share no state on this path, so one is enough.                    *)
(*                                                                         *)
(* The replication pipeline (the etl crate) reads the source's log in      *)
(* batches, hands each to write_events and waits for its acknowledgement;  *)
(* what is acknowledged it may record as progress in the store, which here *)
(* is the PostgreSQL one, and a rebuilt pipeline resumes from what is      *)
(* recorded.  A change is known by its position in the log, so a batch is  *)
(* the set of its changes; they are scanned in the order of the log.       *)
(***************************************************************************)
EXTENDS Integers, FiniteSets, Sequences

CONSTANTS InScope,      \* the changes that yield a ScanEvent and pass the scan filter
          MaxCommitted, \* bound on the log
          BatchMax,     \* largest batch of the pipeline
          Capacity,     \* of the channel to the scan loop (256 in the code)
          LoopMayPanic, \* whether a channel of the dispatcher may panic
          MaxFailures,  \* bound on the pipeline's failures
          MaxStops      \* bound on the stops of the process

ASSUME DeliveryAssumption == /\ MaxCommitted \in Nat
                             /\ InScope \subseteq 1..MaxCommitted
                             /\ BatchMax \in Nat \ {0}
                             /\ Capacity \in Nat \ {0}
                             /\ LoopMayPanic \in BOOLEAN
                             /\ {MaxFailures, MaxStops} \subseteq Nat

VARIABLES committed, \* last change in the source's log
          stored,    \* the store's recorded progress
          running,   \* the process is up
          pipe,      \* the pipeline: "up", "down" to be rebuilt, or "over"
          offered,   \* last change this pipeline has handed to write_events
          writing,   \* what the write_events call in progress wants to send
          acked,     \* last change acknowledged to this pipeline
          queue,     \* the channel: batches on their way to the scan loop
          loop,      \* the scan loop: "alive" or "dead"
          batch,     \* what is left of the batch it is scanning
          call,      \* of alert channels, for the event it is at: "none", "timed" or "untimed"
          scanned,   \* history: changes scanned and dispatched by any process
          lost,      \* history: changes acknowledged, dropped unscanned and not offered again
          failures, stops

vars == <<committed, stored, running, pipe, offered, writing, acked, queue, loop, batch, call,
          scanned, lost, failures, stops>>

Init == /\ committed = 0
        /\ stored = 0
        /\ running = TRUE
        /\ pipe = "up"
        /\ offered = 0
        /\ writing = {}
        /\ acked = 0
        /\ queue = <<>>
        /\ loop = "alive"
        /\ batch = {}
        /\ call = "none"
        /\ scanned = {}
        /\ lost = {}
        /\ failures = 0
        /\ stops = 0

\* What the process has taken over from the pipeline and not yet scanned.
Held == batch \cup UNION {queue[i] : i \in DOMAIN queue}

\* Dropping changes loses those that no pipeline will offer again.
Lose(dropped, progress) == lost' = lost \cup {e \in dropped \ scanned : e <= progress}

---------------------------------------------------------------------------
(***************************************************************************)
(* The destination.  A definition whose name starts with Mut is a          *)
(* deliberately wrong variant of the one that follows it, used nowhere.    *)
(***************************************************************************)

\* extract_scan_events and the scan filter, on the changes in from..to.
Extract(from, to) == {e \in InScope : from <= e /\ e <= to}

Ack(position) == acked' = position

MutWriteEventsAcksFirst ==
  /\ pipe = "up"
  /\ writing = {}
  /\ \E to \in offered + 1 .. committed :
       /\ to <= offered + BatchMax
       /\ offered' = to
       /\ writing' = Extract(offered + 1, to)
       /\ Ack(to)
  /\ UNCHANGED <<committed, stored, running, pipe, queue, loop, batch, call, scanned, lost,
                 failures, stops>>

MutWriteEventsSkipsEmptyAck ==
  /\ pipe = "up"
  /\ writing = {}
  /\ acked = offered
  /\ \E to \in offered + 1 .. committed :
       /\ to <= offered + BatchMax
       /\ offered' = to
       /\ writing' = Extract(offered + 1, to)
  /\ UNCHANGED <<committed, stored, running, pipe, acked, queue, loop, batch, call, scanned, lost,
                 failures, stops>>

\* The next call of write_events: with nothing in scope it acknowledges at once.
WriteEvents ==
  /\ pipe = "up"
  /\ writing = {}
  /\ \E to \in offered + 1 .. committed :
       /\ to <= offered + BatchMax
       /\ offered' = to
       /\ writing' = Extract(offered + 1, to)
       /\ IF writing' = {} THEN Ack(to) ELSE UNCHANGED acked
  /\ UNCHANGED <<committed, stored, running, pipe, queue, loop, batch, call, scanned, lost,
                 failures, stops>>

MutSendUnbounded ==
  /\ writing # {}
  /\ writing' = {}
  /\ queue' = Append(queue, writing)
  /\ Ack(offered)
  /\ UNCHANGED <<committed, stored, running, pipe, offered, loop, batch, call, scanned, lost,
                 failures, stops>>

\* send().await has room: enqueue, then acknowledge with no await in between.
Send ==
  /\ writing # {}
  /\ loop = "alive"
  /\ Len(queue) < Capacity
  /\ writing' = {}
  /\ queue' = Append(queue, writing)
  /\ Ack(offered)
  /\ UNCHANGED <<committed, stored, running, pipe, offered, loop, batch, call, scanned, lost,
                 failures, stops>>

\* The receiver is gone: the events are dropped with a warning, and acknowledged.
SendToNobody ==
  /\ writing # {}
  /\ loop = "dead"
  /\ writing' = {}
  /\ Ack(offered)
  /\ Lose(writing, offered)
  /\ UNCHANGED <<committed, stored, running, pipe, offered, queue, loop, batch, call, scanned,
                 failures, stops>>

---------------------------------------------------------------------------
(* The scan loop, a task of its own. *)

MutReceiveWhileUp ==
  /\ loop = "alive"
  /\ batch = {}
  /\ queue # <<>>
  /\ pipe # "over"
  /\ batch' = Head(queue)
  /\ queue' = Tail(queue)
  /\ UNCHANGED <<committed, stored, running, pipe, offered, writing, acked, loop, call,
                 scanned, lost, failures, stops>>

\* It receives while batches are queued, whether or not a sender is left.
Receive ==
  /\ loop = "alive"
  /\ batch = {}
  /\ queue # <<>>
  /\ batch' = Head(queue)
  /\ queue' = Tail(queue)
  /\ UNCHANGED <<committed, stored, running, pipe, offered, writing, acked, loop, call,
                 scanned, lost, failures, stops>>

\* Scan the batch's next event.  When all calls its dispatch will make end by themselves,
\* if only by a timeout, or there are none, it is "timed"; an insert into PostgreSQL and
\* a println! into a pipe that is not read have no timeout.
ScanNext ==
  /\ loop = "alive"
  /\ batch # {}
  /\ call = "none"
  /\ call' \in {"timed", "untimed"}
  /\ UNCHANGED <<committed, stored, running, pipe, offered, writing, acked, queue, loop, batch,
                 scanned, lost, failures, stops>>

\* The findings of the event have been dispatched, one after the other.
DispatchEnds ==
  /\ loop = "alive"
  /\ call # "none"
  /\ call' = "none"
  /\ \E e \in batch :
       /\ \A f \in batch : e <= f
       /\ scanned' = scanned \cup {e}
       /\ batch' = batch \ {e}
  /\ UNCHANGED <<committed, stored, running, pipe, offered, writing, acked, queue, loop,
                 lost, failures, stops>>

\* The stdout channel's println! panics when its reader is gone; the task ends, and
\* with it the receiver and what it held.
Panic ==
  /\ LoopMayPanic
  /\ loop = "alive"
  /\ call = "untimed"
  /\ call' = "none"
  /\ loop' = "dead"
  /\ batch' = {}
  /\ queue' = <<>>
  /\ Lose(Held, acked)
  /\ UNCHANGED <<committed, stored, running, pipe, offered, writing, acked, scanned,
                 failures, stops>>

---------------------------------------------------------------------------
(* The pipeline's end and its rebuilding by the monitor task. *)

\* Its workers stop with an error; a call in progress is dropped unacknowledged.
PipelineFails ==
  /\ pipe = "up"
  /\ failures < MaxFailures
  /\ failures' = failures + 1
  /\ pipe' = "down"
  /\ writing' = {}
  /\ UNCHANGED <<committed, stored, running, offered, acked, queue, loop, batch, call, scanned,
                 lost, stops>>

Resume(position) == /\ pipe' = "up"
                    /\ offered' = position
                    /\ acked' = position
                    /\ lost' = {e \in lost : e <= position}

MutReconnectAtOffered ==
  /\ pipe = "down"
  /\ Resume(offered)
  /\ UNCHANGED <<committed, stored, running, writing, queue, loop, batch, call, scanned,
                 failures, stops>>

\* build_pipeline and start: a new destination on the same channel.
Reconnect ==
  /\ pipe = "down"
  /\ Resume(stored)
  /\ UNCHANGED <<committed, stored, running, writing, queue, loop, batch, call, scanned,
                 failures, stops>>

\* The rebuild fails, the pipeline ends by itself or the unit is shut down: the
\* monitor task returns and drops the last sender.
UnitEnds ==
  /\ pipe \in {"up", "down"}
  /\ pipe' = "over"
  /\ writing' = {}
  /\ UNCHANGED <<committed, stored, running, offered, acked, queue, loop, batch, call, scanned,
                 lost, failures, stops>>

\* run() returns or the process is killed: nobody waits for the scan loop.
Stop ==
  /\ running
  /\ stops < MaxStops
  /\ stops' = stops + 1
  /\ running' = FALSE
  /\ pipe' = "over"
  /\ loop' = "dead"
  /\ writing' = {}
  /\ queue' = <<>>
  /\ batch' = {}
  /\ call' = "none"
  /\ offered' = stored
  /\ acked' = stored
  /\ Lose(Held, stored)
  /\ UNCHANGED <<committed, stored, scanned, failures>>

Start ==
  /\ ~running
  /\ running' = TRUE
  /\ loop' = "alive"
  /\ Resume(stored)
  /\ UNCHANGED <<committed, stored, writing, queue, batch, call, scanned, failures, stops>>

---------------------------------------------------------------------------
(* The source database and the store, outside this repository. *)

Commit ==
  /\ committed < MaxCommitted
  /\ committed' = committed + 1
  /\ UNCHANGED <<stored, running, pipe, offered, writing, acked, queue, loop, batch, call, scanned,
                 lost, failures, stops>>

RecordProgress ==
  /\ pipe = "up"
  /\ stored < acked
  /\ stored' = acked
  /\ UNCHANGED <<committed, running, pipe, offered, writing, acked, queue, loop, batch, call,
                 scanned, lost, failures, stops>>

---------------------------------------------------------------------------

Rebuild == Reconnect \/ (pipe = "down" /\ UnitEnds)

Next == \/ WriteEvents \/ Send \/ SendToNobody
        \/ Receive \/ ScanNext \/ DispatchEnds \/ Panic
        \/ PipelineFails \/ Reconnect \/ UnitEnds \/ Stop \/ Start
        \/ Commit \/ RecordProgress

Spec == Init /\ [][Next]_vars

(***************************************************************************)
(* The tasks run on, a pipeline that is up offers what is committed, and   *)
(* an attempt to rebuild it ends.  Nothing makes an untimed call end.      *)
(***************************************************************************)
FairSpec == /\ Spec
            /\ WF_vars(WriteEvents)
            /\ WF_vars(Send \/ SendToNobody)
            /\ WF_vars(Receive \/ ScanNext \/ (call = "timed" /\ DispatchEnds))
            /\ WF_vars(Rebuild)

---------------------------------------------------------------------------

Changes == 1..MaxCommitted

TypeOK ==
  /\ {committed, stored, offered, acked} \subseteq 0..MaxCommitted
  /\ running \in BOOLEAN
  /\ pipe \in {"up", "down", "over"}
  /\ writing \subseteq InScope /\ Cardinality(writing) <= BatchMax
  /\ queue \in Seq(SUBSET InScope) /\ Len(queue) <= Capacity
  /\ \A i \in DOMAIN queue : Cardinality(queue[i]) \in 1..BatchMax
  /\ loop \in {"alive", "dead"}
  /\ batch \subseteq InScope /\ Cardinality(batch) <= BatchMax
  /\ call \in {"none", "timed", "untimed"}
  /\ call # "none" => loop = "alive" /\ batch # {}
  /\ {scanned, lost} \subseteq SUBSET InScope
  /\ failures \in 0..MaxFailures
  /\ stops \in 0..MaxStops

\* An acknowledged change is never forgotten while the process and its scan loop live:
\* it is scanned or still held, whatever failures and rebuilds came in between.
AckedIsHeld ==
  \A e \in InScope : e <= acked => e \in scanned \cup Held \cup lost

\* Changes are scanned in log order: when one has been scanned, so has every earlier
\* one, except those a stop lost; a rebuilt pipeline opens no gap.
NoGaps ==
  \A e \in scanned, f \in InScope : f < e => f \in scanned \cup lost

\* All this is a reader of one log: first scans go strictly forward, nothing is passed
\* over while the loop lives, and what a stop or a dead loop loses is one stretch of the
\* log, which a rebuilt or restarted pipeline offers again only as far as that leaves no
\* gap.  A dead loop is a reader that is down.
Log == INSTANCE LogScan WITH missed <- lost, reading <- (loop = "alive")
LogSpec == Log!Spec

\* An insert, or a println!, may hang, but not for ever.
CallsEnd == []<>(call # "untimed")

\* While every untimed call comes to an end, a committed change is scanned, or lost to a
\* stop or a dead loop, as long as nothing ends the unit, however full the channel gets
\* and however often the pipeline is rebuilt.
CommittedIsScanned ==
  CallsEnd =>
    \A e \in InScope :
      (committed >= e) ~> (e \in scanned \cup lost \/ pipe = "over")

\* While every untimed call comes to an end, what the loop has taken over is scanned even
\* after the unit ended, unless the process stops or the loop dies.
HeldIsScanned ==
  CallsEnd =>
    \A e \in InScope : (e \in Held) ~> (e \in scanned \/ loop = "dead")

---------------------------------------------------------------------------
(* What the documentation says and the code does not do. *)

\* Store documentation: restarts resume from the last recorded position, no missed
\* events.  Dispatcher: a failing channel does not propagate.
NothingIsLost == lost = {}

===========================================================================
