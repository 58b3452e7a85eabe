--------------------------- MODULE ScanCommand ----------------------------
(***************************************************************************)
(* commands/scan.rs, supervisor/mod.rs and watcher.rs: the life of the     *)
(* scan command.  It starts one unit per database, subscribes to the rules *)
(* file, and loops on a select! of the exit channel, the watcher's channel *)
(* and Ctrl-C until every unit is terminated.                              *)
(*                                                                         *)
(* The rules file is a version number and whether the rules compile.  The  *)
(* model starts after the configuration is read, the rules of version 0    *)
(* are compiled and the dispatcher is built.                               *)
(***************************************************************************)
EXTENDS DatabaseUnit

CONSTANTS EditKinds,      \* how the rules file may be saved: "write" in place, "rename" over it
          MaxEdits,       \* bound on the saves
          MaxInterrupts   \* bound on the Ctrl-Cs

ASSUME ScanAssumption == /\ EditKinds \subseteq {"write", "rename"}
                         /\ MaxEdits \in Nat
                         /\ MaxInterrupts \in Nat

VARIABLES main,         \* where run() is
          exitCode,     \* how the process ended
          ready,        \* what the readiness endpoint answers
          listening,    \* this iteration's ctrl_c() future has been polled
          installed,    \* the process has a SIGINT handler, from the first ctrl_c() poll on
          interrupted,  \* this iteration's ctrl_c() future has received a signal
          interrupts,   \* Ctrl-Cs so far
          file,         \* the rules file: version, whether it compiles, how its last save was seen
          fsEvent,      \* a file event is on its way to the watcher's callback
          wake,         \* the watcher's channel, of capacity 1, holds a message
          loaded,       \* what build_scanner has read and is compiling
          active        \* the version the scanner uses

mainVars == <<main, exitCode, ready, listening, installed, interrupted, interrupts>>
ruleVars == <<file, fsEvent, wake, loaded, active>>
vars == <<unitVars, mainVars, ruleVars>>

NoRules == [version |-> 0, compiles |-> FALSE, watched |-> FALSE, reported |-> FALSE]

Init == /\ UnitInit
        /\ main = "starting"
        /\ exitCode = "none"
        /\ ready = FALSE
        /\ listening = FALSE
        /\ installed = FALSE
        /\ interrupted = FALSE
        /\ interrupts = 0
        /\ file = [NoRules EXCEPT !.compiles = TRUE]
        /\ fsEvent = FALSE
        /\ wake = FALSE
        /\ loaded = NoRules
        /\ active = 0

Subscribed == main \notin {"starting", "subscribing"}
AllTerminated == \A d \in Databases : status[d] \in {"Exited", "Failed"}

---------------------------------------------------------------------------
(* Startup. *)

StartUnit(d) ==
  /\ main = "starting"
  /\ UnitStarts(d)
  /\ UNCHANGED <<mainVars, ruleVars>>

StartFails(d) ==
  /\ main = "starting"
  /\ monitor[d] = "unstarted"
  /\ main' = "exited"
  /\ exitCode' = "error"
  /\ UNCHANGED <<unitVars, ready, listening, installed, interrupted, interrupts, ruleVars>>

AllStarted ==
  /\ main = "starting"
  /\ \A d \in Databases : monitor[d] # "unstarted"
  /\ main' = "subscribing"
  /\ UNCHANGED <<unitVars, exitCode, ready, listening, installed, interrupted, interrupts, ruleVars>>

Subscribe ==
  /\ main = "subscribing"
  /\ \/ main' = "loop" /\ ready' = TRUE /\ UNCHANGED exitCode
     \/ main' = "exited" /\ exitCode' = "error" /\ UNCHANGED ready
  /\ UNCHANGED <<unitVars, listening, installed, interrupted, interrupts, ruleVars>>

---------------------------------------------------------------------------
(***************************************************************************)
(* The loop.  Whatever branch of the select! is taken, the iteration's     *)
(* ctrl_c() future is dropped, and with it a signal it had received.       *)
(***************************************************************************)
Listen ==
  /\ main = "loop"
  /\ ~listening
  /\ listening' = TRUE
  /\ installed' = TRUE
  /\ UNCHANGED <<unitVars, main, exitCode, ready, interrupted, interrupts, ruleVars>>

BranchTo(next) ==
  /\ main = "loop"
  /\ main' = next
  /\ listening' = FALSE
  /\ interrupted' = FALSE
  /\ UNCHANGED <<exitCode, ready, installed, interrupts>>

MutTakeExitFailedStays ==
  /\ exits # <<>>
  /\ exits' = Tail(exits)
  /\ BranchTo(IF \A d \in Databases : status[d] = "Exited" THEN "flushing" ELSE "loop")
  /\ UNCHANGED <<monitor, handle, pipe, notified, status, connected, outcome, ruleVars>>

TakeExit ==
  /\ exits # <<>>
  /\ exits' = Tail(exits)
  /\ BranchTo(IF AllTerminated THEN "flushing" ELSE "loop")
  /\ UNCHANGED <<monitor, handle, pipe, notified, status, connected, outcome, ruleVars>>

\* supervisor.shutdown() marks every unit's watch channel changed.
TakeInterrupt ==
  /\ interrupted
  /\ BranchTo("loop")
  /\ notified' = [d \in Databases |-> notified[d] \/ monitor[d] \notin {"exiting", "returned"}]
  /\ UNCHANGED <<monitor, handle, pipe, status, connected, outcome, exits, ruleVars>>

TakeRules ==
  /\ wake
  /\ wake' = FALSE
  /\ BranchTo("settling")
  /\ UNCHANGED <<unitVars, file, fsEvent, loaded, active>>

\* After 100 ms, drop the messages that piled up.
Drain ==
  /\ main = "settling"
  /\ main' = "reading"
  /\ wake' = FALSE
  /\ UNCHANGED <<unitVars, exitCode, ready, listening, installed, interrupted, interrupts,
                 file, fsEvent, loaded, active>>

\* build_scanner: read what the file holds now, then compile it ...
ReadRules ==
  /\ main = "reading"
  /\ main' = "compiling"
  /\ loaded' = file
  /\ UNCHANGED <<unitVars, exitCode, ready, listening, installed, interrupted, interrupts,
                 file, fsEvent, wake, active>>

MutSwapRulesThenDrain ==
  /\ main = "compiling"
  /\ main' = "loop"
  /\ active' = IF loaded.compiles THEN loaded.version ELSE active
  /\ loaded' = NoRules
  /\ wake' = FALSE
  /\ UNCHANGED <<unitVars, exitCode, ready, listening, installed, interrupted, interrupts,
                 file, fsEvent>>

\* ... and swap it in, or keep the active rules if it does not compile.
SwapRules ==
  /\ main = "compiling"
  /\ main' = "loop"
  /\ active' = IF loaded.compiles THEN loaded.version ELSE active
  /\ loaded' = NoRules
  /\ UNCHANGED <<unitVars, exitCode, ready, listening, installed, interrupted, interrupts,
                 file, fsEvent, wake>>

\* dispatcher.flush, then run() returns Ok.
Flush ==
  /\ main = "flushing"
  /\ main' = "exited"
  /\ exitCode' = "success"
  /\ UNCHANGED <<unitVars, ready, listening, installed, interrupted, interrupts, ruleVars>>

---------------------------------------------------------------------------
(* The environment: the operator and the file system. *)

\* Without a handler SIGINT kills the process; with one it reaches the ctrl_c()
\* future that is listening, if one is.
Interrupt ==
  /\ main # "exited"
  /\ interrupts < MaxInterrupts
  /\ interrupts' = interrupts + 1
  /\ IF installed
     THEN interrupted' = (interrupted \/ listening) /\ UNCHANGED <<main, exitCode>>
     ELSE main' = "exited" /\ exitCode' = "signal" /\ UNCHANGED interrupted
  /\ UNCHANGED <<unitVars, ready, listening, installed, ruleVars>>

\* The watcher's callback passes data changes and creations on; the notify
\* backend for Linux reports a rename over the file as a name change.
Reports(kind) == Subscribed /\ kind = "write"

Edit ==
  /\ main # "exited"
  /\ file.version < MaxEdits
  /\ \E kind \in EditKinds, compiles \in BOOLEAN :
       /\ file' = [version |-> file.version + 1, compiles |-> compiles,
                    watched |-> Subscribed, reported |-> Reports(kind)]
       /\ fsEvent' = (fsEvent \/ Reports(kind))
  /\ UNCHANGED <<unitVars, mainVars, wake, loaded, active>>

\* try_send: a message already in the channel stands for this one too.
Notify ==
  /\ fsEvent
  /\ main # "exited"
  /\ fsEvent' = FALSE
  /\ wake' = TRUE
  /\ UNCHANGED <<unitVars, mainVars, file, loaded, active>>

---------------------------------------------------------------------------

MainStep == \/ \E d \in Databases : StartUnit(d) \/ StartFails(d)
            \/ AllStarted \/ Subscribe
            \/ Listen \/ TakeExit \/ TakeInterrupt \/ TakeRules
            \/ Drain \/ ReadRules \/ SwapRules \/ Flush

Unit(d) == /\ main # "exited"
           /\ MonitorStep(d)
           /\ UNCHANGED <<mainVars, ruleVars>>

StopUnit(d) == /\ main # "exited"
               /\ ShutdownBranch(d)
               /\ UNCHANGED <<mainVars, ruleVars>>

Pipelines == /\ main # "exited"
             /\ \E d \in Databases : PipeEnds(d)
             /\ UNCHANGED <<mainVars, ruleVars>>

\* run() has returned: what a task may still do while the runtime goes down.
Teardown == /\ main = "exited"
            /\ \E d \in Databases : WatchClosed(d)
            /\ UNCHANGED <<mainVars, ruleVars>>

Next == \/ MainStep
        \/ \E d \in Databases : Unit(d)
        \/ Pipelines \/ Interrupt \/ Edit \/ Notify \/ Teardown

(***************************************************************************)
(* Every task runs on: the runtime polls what is ready.  A reconnect ends, *)
(* one way or the other.  The shutdown branch of a monitor's select! is    *)
(* taken if it is ready again and again, as the branches are polled in     *)
(* random order.  Nothing is assumed of the pipelines' workers, of the     *)
(* operator or of the editor.                                              *)
(***************************************************************************)
Fairness == /\ WF_vars(MainStep)
            /\ WF_vars(Notify)
            /\ \A d \in Databases : WF_vars(Unit(d)) /\ SF_vars(StopUnit(d))

Spec == Init /\ [][Next]_vars

FairSpec == Spec /\ Fairness

---------------------------------------------------------------------------

TypeOK ==
  /\ UnitTypeOK
  /\ main \in {"starting", "subscribing", "loop", "settling", "reading", "compiling",
              "flushing", "exited"}
  /\ exitCode \in {"none", "success", "error", "signal"}
  /\ ready \in BOOLEAN
  /\ listening \in BOOLEAN
  /\ installed \in BOOLEAN
  /\ interrupted \in BOOLEAN
  /\ interrupts \in 0..MaxInterrupts
  /\ {file, loaded} \subseteq [version : 0..MaxEdits, compiles : BOOLEAN,
                              watched : BOOLEAN, reported : BOOLEAN]
  /\ fsEvent \in BOOLEAN
  /\ wake \in BOOLEAN
  /\ active \in 0..MaxEdits

\* The loop is left only when no unit can do anything any more: none is running,
\* reconnecting or waiting to, whatever order the reports came in.
LeavesNoUnitBehind ==
  main = "flushing" \/ exitCode = "success" =>
    \A d \in Databases : monitor[d] \in {"exiting", "returned"} /\ connected[d] = 0

\* A unit that reached a final status keeps it while the command runs: all_terminated,
\* once true, stays true.
FinalStatusIsFinal ==
  [][\A d \in Databases :
       (monitor[d] # "unstarted" /\ status[d] # "Running" /\ main # "exited") =>
          status'[d] = status[d]]_vars

\* When every unit is terminated the command ends, whichever report was first.
TerminationEndsRun ==
  (Subscribed /\ AllTerminated) ~> (main = "exited")

\* A shutdown that reached a unit's watch channel ends the unit's task, even if its
\* pipeline hangs, or fails and reconnects for ever.
ShutdownEndsTask ==
  \A d \in Databases : notified[d] ~> (monitor[d] \in {"exiting", "returned"} \/ main = "exited")

\* The last version saved in place while the watcher is on is the one the scanner
\* ends up with, however the saves, the 100 ms pause and the drain interleave.
LastSaveIsLoaded ==
  \A v \in 1..MaxEdits :
    (file.version = v /\ file.reported /\ file.compiles)
       ~> (active = v \/ file.version # v \/ main = "exited")

---------------------------------------------------------------------------
(* What the documentation says and the code does not do. *)

\* runner.rs on signal_shutdown: the running wait() returns once workers finish.
\* So a task in its shutdown branch has a pipeline that was told to stop.
ShutdownReachesPipeline ==
  \A d \in Databases : monitor[d] = "stopping" => pipe[d] # "running"

\* The scan command's documentation: run until SIGINT, then drain and exit.
InterruptEndsRun == (interrupts > 0) ~> (main = "exited")

\* Its exit codes: non-zero if all pipelines exited with an error.
AllFailedIsError ==
  exitCode = "success" => \E d \in Databases : status[d] # "Failed"

\* Hot reload: any modification (write, atomic rename, create) made while the file
\* is watched is loaded.
EverySaveIsLoaded ==
  \A v \in 1..MaxEdits :
    (file.version = v /\ file.watched /\ file.compiles)
       ~> (active = v \/ file.version # v \/ main = "exited")

===========================================================================
