--------------------------- MODULE DatabaseUnit ---------------------------
(***************************************************************************)
(* pipeline/supervisor/database_unit.rs and pipeline/runner.rs: one unit   *)
(* per configured database, and the task that monitors its replication     *)
(* pipeline.                                                               *)
(*                                                                         *)
(* The task loops on a select! of runner.wait() and shutdown_rx.changed(). *)
(* The two futures are made anew in every iteration and polled in a random *)
(* order.  wait() takes the pipeline out of the runner at its first poll,  *)
(* so from then on the pipeline lives in that future and is dropped with   *)
(* it when the other branch wins.  The pipeline itself belongs to the etl  *)
(* crate: its workers run, fail or finish as they please, and what they do *)
(* after their Pipeline value is dropped is left open.                     *)
(*                                                                         *)
(* A definition whose name starts with Mut is a deliberately wrong variant *)
(* of the one that follows it, used only to see a property fail.           *)
(***************************************************************************)
EXTENDS Integers, Sequences, FiniteSets

CONSTANT Databases   \* the ids of the configured databases

ASSUME UnitAssumption == IsFiniteSet(Databases)

VARIABLES monitor,    \* where the unit's monitor task is
          handle,     \* who holds the Pipeline value: the runner, the wait() future, nobody
          pipe,       \* what the pipeline's workers do
          notified,   \* the watch channel holds a shutdown the task has not seen
          status,     \* DatabaseUnit::status
          connected,  \* the PIPELINE_CONNECTED gauge
          outcome,    \* the result the task is about to report
          exits       \* the supervisor's exit channel

unitVars == <<monitor, handle, pipe, notified, status, connected, outcome, exits>>

MonitorStates == {"unstarted", "select", "waiting", "reconnecting", "pause",
                  "stopping", "exiting", "returned"}
Statuses == {"Exited", "Running", "Failed"}

UnitInit == /\ monitor = [d \in Databases |-> "unstarted"]
            /\ handle = [d \in Databases |-> "none"]
            /\ pipe = [d \in Databases |-> "none"]
            /\ notified = [d \in Databases |-> FALSE]
            /\ status = [d \in Databases |-> "Exited"]
            /\ connected = [d \in Databases |-> 0]
            /\ outcome = [d \in Databases |-> "none"]
            /\ exits = <<>>

Goes(d, from, to) == monitor[d] = from /\ monitor' = [monitor EXCEPT ![d] = to]

---------------------------------------------------------------------------
(* The etl pipeline's workers, while somebody in the unit holds the Pipeline    *)
(* value; once it is dropped nothing can see what becomes of them.              *)

PipeEnds(d) ==
  /\ handle[d] # "none"
  /\ pipe[d] \in {"running", "stopping"}
  /\ \E result \in {"ok", "failed"} : pipe' = [pipe EXCEPT ![d] = result]
  /\ UNCHANGED <<monitor, handle, notified, status, connected, outcome, exits>>

---------------------------------------------------------------------------
(* DatabaseUnit::start, once the runner is built and started. *)

UnitStarts(d) ==
  /\ Goes(d, "unstarted", "select")
  /\ handle' = [handle EXCEPT ![d] = "runner"]
  /\ pipe' = [pipe EXCEPT ![d] = "running"]
  /\ status' = [status EXCEPT ![d] = "Running"]
  /\ connected' = [connected EXCEPT ![d] = 1]
  /\ UNCHANGED <<notified, outcome, exits>>

(***************************************************************************)
(* The select!.  PollWait is the first poll of wait(); ShutdownFirst is a  *)
(* pending shutdown polled before it.                                      *)
(***************************************************************************)
PollWait(d) ==
  /\ Goes(d, "select", "waiting")
  /\ handle' = [handle EXCEPT ![d] = "future"]
  /\ UNCHANGED <<pipe, notified, status, connected, outcome, exits>>

MutEnds(d, final, result) ==
  /\ monitor' = [monitor EXCEPT ![d] = "exiting"]
  /\ handle' = [handle EXCEPT ![d] = "none"]
  /\ pipe' = [pipe EXCEPT ![d] = "none"]
  /\ connected' = [connected EXCEPT ![d] = 0]
  /\ status' = [status EXCEPT ![d] = result]
  /\ outcome' = [outcome EXCEPT ![d] = final]

\* The task ends: what it reports, and the state it leaves in the unit, which has
\* no pipeline from here on.
Ends(d, final, result) ==
  /\ monitor' = [monitor EXCEPT ![d] = "exiting"]
  /\ handle' = [handle EXCEPT ![d] = "none"]
  /\ pipe' = [pipe EXCEPT ![d] = "none"]
  /\ connected' = [connected EXCEPT ![d] = 0]
  /\ status' = [status EXCEPT ![d] = final]
  /\ outcome' = [outcome EXCEPT ![d] = result]

WaitOk(d) ==
  /\ monitor[d] = "waiting"
  /\ pipe[d] = "ok"
  /\ Ends(d, "Exited", "ok")
  /\ UNCHANGED <<notified, exits>>

MutWaitErr(d) ==
  /\ pipe[d] = "failed"
  /\ Goes(d, "waiting", "reconnecting")
  /\ handle' = [handle EXCEPT ![d] = "none"]
  /\ UNCHANGED <<connected, pipe, notified, status, outcome, exits>>

WaitErr(d) ==
  /\ pipe[d] = "failed"
  /\ Goes(d, "waiting", "reconnecting")
  /\ handle' = [handle EXCEPT ![d] = "none"]
  /\ connected' = [connected EXCEPT ![d] = 0]
  /\ UNCHANGED <<pipe, notified, status, outcome, exits>>

MutReconnectOk(d) ==
  /\ Goes(d, "reconnecting", "pause")
  /\ pipe' = [pipe EXCEPT ![d] = "running"]
  /\ connected' = [connected EXCEPT ![d] = 1]
  /\ UNCHANGED <<handle, notified, status, outcome, exits>>

ReconnectOk(d) ==
  /\ Goes(d, "reconnecting", "pause")
  /\ handle' = [handle EXCEPT ![d] = "runner"]
  /\ pipe' = [pipe EXCEPT ![d] = "running"]
  /\ connected' = [connected EXCEPT ![d] = 1]
  /\ UNCHANGED <<notified, status, outcome, exits>>

MutReconnectErrRetried(d) ==
  /\ monitor[d] = "reconnecting"
  /\ status' = [status EXCEPT ![d] = "Failed"]
  /\ UNCHANGED <<monitor, handle, pipe, notified, connected, outcome, exits>>

MutReconnectErrAsExit(d) ==
  /\ monitor[d] = "reconnecting"
  /\ Ends(d, "Exited", "err")
  /\ UNCHANGED <<notified, exits>>

ReconnectErr(d) ==
  /\ monitor[d] = "reconnecting"
  /\ Ends(d, "Failed", "err")
  /\ UNCHANGED <<notified, exits>>

PauseEnds(d) ==
  /\ Goes(d, "pause", "select")
  /\ UNCHANGED <<handle, pipe, notified, status, connected, outcome, exits>>

\* signal_shutdown reaches the pipeline only while the runner holds it.
SignalShutdown(d) ==
  pipe' = IF handle[d] = "runner" /\ pipe[d] = "running"
          THEN [pipe EXCEPT ![d] = "stopping"] ELSE pipe

ShutdownFirst(d) ==
  /\ notified[d]
  /\ Goes(d, "select", "stopping")
  /\ SignalShutdown(d)
  /\ notified' = [notified EXCEPT ![d] = FALSE]
  /\ UNCHANGED <<handle, status, connected, outcome, exits>>

\* The shutdown branch wins over a polled wait(): the future goes, and the
\* pipeline with it, before signal_shutdown looks for the pipeline.
ShutdownDropsWait(d) ==
  /\ notified[d]
  /\ Goes(d, "waiting", "stopping")
  /\ handle' = [handle EXCEPT ![d] = "none"]
  /\ notified' = [notified EXCEPT ![d] = FALSE]
  /\ UNCHANGED <<pipe, status, connected, outcome, exits>>

(***************************************************************************)
(* timeout(30s, runner.wait()) ends at once when the pipeline is gone, or  *)
(* with the pipeline, or with the timeout; the task reports Ok either way. *)
(***************************************************************************)
MutStopEnds(d) ==
  /\ monitor[d] = "stopping"
  /\ handle[d] = "runner" => pipe[d] \in {"ok", "failed"}
  /\ Ends(d, "Exited", "ok")
  /\ UNCHANGED <<notified, exits>>

StopEnds(d) ==
  /\ monitor[d] = "stopping"
  /\ handle[d] = "runner" => pipe[d] \in {"ok", "failed", "stopping"}
  /\ Ends(d, "Exited", "ok")
  /\ UNCHANGED <<notified, exits>>

\* exit_tx.send(..).await waits for room in the exit channel.
MutSendExit(d) ==
  /\ Goes(d, "exiting", "select")
  /\ Len(exits) < Cardinality(Databases)
  /\ exits' = Append(exits, [db |-> d, result |-> outcome[d]])
  /\ outcome' = [outcome EXCEPT ![d] = "none"]
  /\ UNCHANGED <<handle, pipe, notified, status, connected>>

SendExit(d) ==
  /\ Goes(d, "exiting", "returned")
  /\ Len(exits) < Cardinality(Databases)
  /\ exits' = Append(exits, [db |-> d, result |-> outcome[d]])
  /\ outcome' = [outcome EXCEPT ![d] = "none"]
  /\ UNCHANGED <<handle, pipe, notified, status, connected>>

\* The watch sender is gone (the supervisor was dropped): the task returns
\* without a report.
WatchClosed(d) ==
  /\ monitor[d] \in {"select", "waiting"}
  /\ monitor' = [monitor EXCEPT ![d] = "returned"]
  /\ handle' = [handle EXCEPT ![d] = "none"]
  /\ connected' = [connected EXCEPT ![d] = 0]
  /\ status' = [status EXCEPT ![d] = "Exited"]
  /\ pipe' = [pipe EXCEPT ![d] = "none"]
  /\ UNCHANGED <<notified, outcome, exits>>

ShutdownBranch(d) == ShutdownFirst(d) \/ ShutdownDropsWait(d)

MonitorStep(d) ==
  \/ PollWait(d) \/ WaitOk(d) \/ WaitErr(d)
  \/ ReconnectOk(d) \/ ReconnectErr(d) \/ PauseEnds(d)
  \/ ShutdownBranch(d) \/ StopEnds(d) \/ SendExit(d)

---------------------------------------------------------------------------

UnitTypeOK ==
  /\ monitor \in [Databases -> MonitorStates]
  /\ handle \in [Databases -> {"none", "runner", "future"}]
  /\ pipe \in [Databases -> {"none", "running", "stopping", "ok", "failed"}]
  /\ notified \in [Databases -> BOOLEAN]
  /\ status \in [Databases -> Statuses]
  /\ connected \in [Databases -> {0, 1}]
  /\ outcome \in [Databases -> {"none", "ok", "err"}]
  /\ exits \in Seq([db : Databases, result : {"ok", "err"}])

\* A wait() polled by the select! always finds the pipeline in the runner, so it
\* never fails with "pipeline already consumed", which the task would take for a
\* pipeline failure and answer with a reconnect.
SelectHoldsPipeline ==
  \A d \in Databases : /\ monitor[d] \in {"select", "pause"} => handle[d] = "runner"
                       /\ monitor[d] = "waiting" => handle[d] = "future"

\* The gauge says connected only while the task holds the pipeline it monitors.
ConnectedMeansHeld ==
  \A d \in Databases : connected[d] = 1 =>
     /\ status[d] = "Running"
     /\ handle[d] # "none" \/ monitor[d] = "stopping"

\* A report never waits for room: the exit channel, of one slot per database,
\* cannot be full when a task has something to say.
ExitNeverBlocks ==
  \A d \in Databases : monitor[d] = "exiting" => Len(exits) < Cardinality(Databases)

\* Every queued report is its unit's only one, comes from a task that is over, and
\* agrees with the status all_terminated will read.
ReportsAreTrue ==
  /\ \A i, j \in DOMAIN exits : exits[i].db = exits[j].db => i = j
  /\ \A i \in DOMAIN exits :
       /\ monitor[exits[i].db] = "returned"
       /\ status[exits[i].db] = IF exits[i].result = "ok" THEN "Exited" ELSE "Failed"

===========================================================================
