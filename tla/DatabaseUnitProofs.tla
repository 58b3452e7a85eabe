------------------------ MODULE DatabaseUnitProofs ------------------------
(***************************************************************************)
(* Proofs about the units of DatabaseUnit, under every interleaving with   *)
(* the command of ScanCommand and for every set of databases.              *)
(***************************************************************************)
EXTENDS ScanCommand, FiniteSetTheorems, TLAPS

Held == {"select", "waiting", "pause", "stopping"}
Over == {"exiting", "returned"}

\* What monitor[d] says of the rest of the unit.
UnitFacts(d) ==
  /\ monitor[d] = "unstarted" => handle[d] = "none" /\ connected[d] = 0 /\ outcome[d] = "none"
  /\ monitor[d] \in {"select", "pause"} => handle[d] = "runner"
  /\ monitor[d] = "waiting" => handle[d] = "future"
  /\ monitor[d] \in Held => status[d] = "Running"
  /\ monitor[d] = "reconnecting" => status[d] = "Running" /\ connected[d] = 0
  /\ monitor[d] \in Over => status[d] # "Running" /\ connected[d] = 0 /\ handle[d] = "none"
  /\ monitor[d] = "exiting" =>
       outcome[d] = IF status[d] = "Exited" THEN "ok" ELSE "err"

UnitInv == UnitTypeOK /\ \A d \in Databases : UnitFacts(d)

\* The facts of a unit that a step does not touch carry over.
LEMMA OthersKeepFacts ==
  ASSUME UnitInv, UnitTypeOK', NEW d \in Databases,
         UnitFacts(d)',
         \A e \in Databases \ {d} :
            /\ monitor'[e] = monitor[e]
            /\ handle'[e] = handle[e]
            /\ status'[e] = status[e]
            /\ connected'[e] = connected[e]
            /\ outcome'[e] = outcome[e]
  PROVE  UnitInv'
BY DEF UnitInv, UnitFacts

LEMMA MonitorKeepsUnitInv ==
  ASSUME UnitInv, NEW d \in Databases, MonitorStep(d)
  PROVE  UnitInv'
<1> USE DEF MonitorStates, Statuses, Held, Over
<1>1. CASE PollWait(d)
  <2>1. UnitTypeOK'
    BY <1>1 DEF UnitInv, UnitFacts, UnitTypeOK, PollWait, Goes
  <2>2. UnitFacts(d)'
    BY <1>1 DEF UnitInv, UnitFacts, UnitTypeOK, PollWait, Goes
  <2> QED
    BY <1>1, <2>1, <2>2, OthersKeepFacts DEF UnitInv, UnitTypeOK, PollWait, Goes
<1>2. CASE WaitOk(d)
  <2>1. UnitTypeOK'
    BY <1>2 DEF UnitInv, UnitFacts, UnitTypeOK, WaitOk, Ends
  <2>2. UnitFacts(d)'
    BY <1>2 DEF UnitInv, UnitFacts, UnitTypeOK, WaitOk, Ends
  <2> QED
    BY <1>2, <2>1, <2>2, OthersKeepFacts DEF UnitInv, UnitTypeOK, WaitOk, Ends
<1>3. CASE WaitErr(d)
  <2>1. UnitTypeOK'
    BY <1>3 DEF UnitInv, UnitFacts, UnitTypeOK, WaitErr, Goes
  <2>2. UnitFacts(d)'
    BY <1>3 DEF UnitInv, UnitFacts, UnitTypeOK, WaitErr, Goes
  <2> QED
    BY <1>3, <2>1, <2>2, OthersKeepFacts DEF UnitInv, UnitTypeOK, WaitErr, Goes
<1>4. CASE ReconnectOk(d)
  <2>1. UnitTypeOK'
    BY <1>4 DEF UnitInv, UnitFacts, UnitTypeOK, ReconnectOk, Goes
  <2>2. UnitFacts(d)'
    BY <1>4 DEF UnitInv, UnitFacts, UnitTypeOK, ReconnectOk, Goes
  <2> QED
    BY <1>4, <2>1, <2>2, OthersKeepFacts DEF UnitInv, UnitTypeOK, ReconnectOk, Goes
<1>5. CASE ReconnectErr(d)
  <2>1. UnitTypeOK'
    BY <1>5 DEF UnitInv, UnitFacts, UnitTypeOK, ReconnectErr, Ends
  <2>2. UnitFacts(d)'
    BY <1>5 DEF UnitInv, UnitFacts, UnitTypeOK, ReconnectErr, Ends
  <2> QED
    BY <1>5, <2>1, <2>2, OthersKeepFacts DEF UnitInv, UnitTypeOK, ReconnectErr, Ends
<1>6. CASE PauseEnds(d)
  <2>1. UnitTypeOK'
    BY <1>6 DEF UnitInv, UnitFacts, UnitTypeOK, PauseEnds, Goes
  <2>2. UnitFacts(d)'
    BY <1>6 DEF UnitInv, UnitFacts, UnitTypeOK, PauseEnds, Goes
  <2> QED
    BY <1>6, <2>1, <2>2, OthersKeepFacts DEF UnitInv, UnitTypeOK, PauseEnds, Goes
<1>7. CASE ShutdownFirst(d)
  <2>1. UnitTypeOK'
    BY <1>7 DEF UnitInv, UnitFacts, UnitTypeOK, ShutdownFirst, Goes, SignalShutdown
  <2>2. UnitFacts(d)'
    BY <1>7 DEF UnitInv, UnitFacts, UnitTypeOK, ShutdownFirst, Goes, SignalShutdown
  <2> QED
    BY <1>7, <2>1, <2>2, OthersKeepFacts DEF UnitInv, UnitTypeOK, ShutdownFirst, Goes, SignalShutdown
<1>8. CASE ShutdownDropsWait(d)
  <2>1. UnitTypeOK'
    BY <1>8 DEF UnitInv, UnitFacts, UnitTypeOK, ShutdownDropsWait, Goes
  <2>2. UnitFacts(d)'
    BY <1>8 DEF UnitInv, UnitFacts, UnitTypeOK, ShutdownDropsWait, Goes
  <2> QED
    BY <1>8, <2>1, <2>2, OthersKeepFacts DEF UnitInv, UnitTypeOK, ShutdownDropsWait, Goes
<1>9. CASE StopEnds(d)
  <2>1. UnitTypeOK'
    BY <1>9 DEF UnitInv, UnitFacts, UnitTypeOK, StopEnds, Ends
  <2>2. UnitFacts(d)'
    BY <1>9 DEF UnitInv, UnitFacts, UnitTypeOK, StopEnds, Ends
  <2> QED
    BY <1>9, <2>1, <2>2, OthersKeepFacts DEF UnitInv, UnitTypeOK, StopEnds, Ends
<1>10. CASE SendExit(d)
  <2>1. UnitTypeOK'
    BY <1>10 DEF UnitInv, UnitFacts, UnitTypeOK, SendExit, Goes
  <2>2. UnitFacts(d)'
    BY <1>10 DEF UnitInv, UnitFacts, UnitTypeOK, SendExit, Goes
  <2> QED
    BY <1>10, <2>1, <2>2, OthersKeepFacts DEF UnitInv, UnitTypeOK, SendExit, Goes
<1> QED
  BY <1>1, <1>2, <1>3, <1>4, <1>5, <1>6, <1>7, <1>8, <1>9, <1>10 DEF MonitorStep, ShutdownBranch

(***************************************************************************)
(* All that the command, its environment and the pipelines do to units.    *)
(***************************************************************************)
TakesReport == exits # <<>> /\ exits' = Tail(exits)
               /\ UNCHANGED <<monitor, handle, pipe, notified, status, connected, outcome>>

Notifies == notified' \in [Databases -> BOOLEAN]
            /\ UNCHANGED <<monitor, handle, pipe, status, connected, outcome, exits>>

LEMMA StepKinds ==
  ASSUME UnitInv, [Next]_vars
  PROVE  \/ UNCHANGED unitVars
         \/ TakesReport
         \/ Notifies
         \/ \E d \in Databases :
              UnitStarts(d) \/ MonitorStep(d) \/ PipeEnds(d) \/ WatchClosed(d)
<1>1. CASE UNCHANGED vars
  BY <1>1 DEF vars
<1>2. CASE \E d \in Databases : StartUnit(d) \/ StartFails(d)
  BY <1>2 DEF StartUnit, StartFails
<1>3. CASE AllStarted \/ Subscribe \/ Listen \/ TakeRules \/ Drain \/ ReadRules
             \/ SwapRules \/ Flush
  BY <1>3 DEF AllStarted, Subscribe, Listen, TakeRules, Drain, ReadRules, SwapRules, Flush
<1>4. CASE TakeExit
  BY <1>4 DEF TakeExit, TakesReport
<1>5. CASE TakeInterrupt
  BY <1>5 DEF TakeInterrupt, Notifies, UnitInv, UnitTypeOK
<1>6. CASE (\E d \in Databases : Unit(d)) \/ Pipelines \/ Teardown
  BY <1>6 DEF Unit, Pipelines, Teardown
<1>7. CASE Interrupt \/ Edit \/ Notify
  BY <1>7 DEF Interrupt, Edit, Notify
<1> QED
  BY <1>1, <1>2, <1>3, <1>4, <1>5, <1>6, <1>7 DEF Next, MainStep

LEMMA NextKeepsUnitInv ==
  ASSUME UnitInv, [Next]_vars
  PROVE  UnitInv'
<1> USE DEF MonitorStates, Statuses, Held, Over
<1>1. CASE UNCHANGED unitVars
  BY <1>1 DEF unitVars, UnitInv, UnitTypeOK, UnitFacts
<1>2. CASE TakesReport
  <2>1. exits' \in Seq([db : Databases, result : {"ok", "err"}])
    BY <1>2 DEF TakesReport, UnitInv, UnitTypeOK
  <2> QED
    BY <1>2, <2>1 DEF TakesReport, UnitInv, UnitTypeOK, UnitFacts
<1>3. CASE Notifies
  BY <1>3 DEF Notifies, UnitInv, UnitTypeOK, UnitFacts
<1>4. ASSUME NEW d \in Databases, UnitStarts(d)
      PROVE  UnitInv'
  <2>1. UnitTypeOK'
    BY <1>4 DEF UnitInv, UnitFacts, UnitTypeOK, UnitStarts, Goes
  <2>2. UnitFacts(d)'
    BY <1>4 DEF UnitInv, UnitFacts, UnitTypeOK, UnitStarts, Goes
  <2> QED
    BY <1>4, <2>1, <2>2, OthersKeepFacts DEF UnitInv, UnitTypeOK, UnitStarts, Goes
<1>5. ASSUME NEW d \in Databases, MonitorStep(d)
      PROVE  UnitInv'
  BY <1>5, MonitorKeepsUnitInv
<1>6. ASSUME NEW d \in Databases, PipeEnds(d)
      PROVE  UnitInv'
  <2>1. UnitTypeOK'
    BY <1>6 DEF UnitInv, UnitTypeOK, PipeEnds
  <2> QED
    BY <1>6, <2>1 DEF UnitInv, UnitFacts, UnitTypeOK, PipeEnds
<1>7. ASSUME NEW d \in Databases, WatchClosed(d)
      PROVE  UnitInv'
  <2>1. UnitTypeOK'
    BY <1>7 DEF UnitInv, UnitFacts, UnitTypeOK, WatchClosed
  <2>2. UnitFacts(d)'
    BY <1>7 DEF UnitInv, UnitFacts, UnitTypeOK, WatchClosed
  <2> QED
    BY <1>7, <2>1, <2>2, OthersKeepFacts DEF UnitInv, UnitTypeOK, WatchClosed
<1> QED
  BY <1>1, <1>2, <1>3, <1>4, <1>5, <1>6, <1>7, StepKinds

\* The inductive invariant of the units: where a monitor task is determines who holds
\* its pipeline, its status, its gauge and what it is about to report.
THEOREM UnitsAreConsistent == Spec => []UnitInv
<1>1. Init => UnitInv
  BY DEF Init, UnitInit, UnitInv, UnitTypeOK, UnitFacts, MonitorStates, Statuses, Held, Over
<1>2. UnitInv /\ [Next]_vars => UnitInv'
  BY NextKeepsUnitInv
<1> QED
  BY <1>1, <1>2, PTL DEF Spec

\* The select! polls wait() only while the runner holds the pipeline: no wait() fails
\* with "pipeline already consumed" but the one after a shutdown dropped the first.
THEOREM WaitFindsPipeline == Spec => []SelectHoldsPipeline
<1>1. UnitInv => SelectHoldsPipeline
  BY DEF UnitInv, UnitFacts, SelectHoldsPipeline
<1> QED
  BY <1>1, UnitsAreConsistent, PTL

\* The connected gauge is 1 only while the task holds, or is stopping, its pipeline.
THEOREM GaugeIsTrue == Spec => []ConnectedMeansHeld
<1>1. UnitInv => ConnectedMeansHeld
  BY DEF UnitInv, UnitTypeOK, UnitFacts, ConnectedMeansHeld, MonitorStates, Held, Over
<1> QED
  BY <1>1, UnitsAreConsistent, PTL

\* While the command runs, a unit that is Exited or Failed stays so: all_terminated,
\* which ends the loop, cannot become false again behind the command's back.
THEOREM TerminationIsStable == Spec => FinalStatusIsFinal
<1> USE DEF MonitorStates, Statuses, Held, Over
<1>1. ASSUME UnitInv, [Next]_vars, NEW e \in Databases,
             monitor[e] # "unstarted", status[e] # "Running", main # "exited"
      PROVE  status'[e] = status[e]
  <2>0. monitor[e] \in Over
    BY <1>1 DEF UnitInv, UnitTypeOK, UnitFacts
  <2>1. CASE UNCHANGED unitVars \/ TakesReport \/ Notifies
    BY <2>1 DEF unitVars, TakesReport, Notifies
  <2>2. ASSUME NEW d \in Databases, UnitStarts(d)
        PROVE  status'[e] = status[e]
    BY <1>1, <2>0, <2>2 DEF UnitInv, UnitTypeOK, UnitStarts, Goes
  <2>3. ASSUME NEW d \in Databases, MonitorStep(d)
        PROVE  status'[e] = status[e]
    BY <1>1, <2>0, <2>3
       DEF UnitInv, UnitTypeOK, MonitorStep, PollWait, WaitOk, WaitErr, ReconnectOk,
           ReconnectErr, PauseEnds, ShutdownBranch, ShutdownFirst, ShutdownDropsWait,
           StopEnds, SendExit, Goes, Ends
  <2>4. ASSUME NEW d \in Databases, PipeEnds(d)
        PROVE  status'[e] = status[e]
    BY <2>4 DEF PipeEnds
  <2>5. ASSUME NEW d \in Databases, WatchClosed(d)
        PROVE  status'[e] = status[e]
    BY <1>1, <2>0, <2>5 DEF UnitInv, UnitTypeOK, WatchClosed
  <2> QED
    BY <1>1, <2>1, <2>2, <2>3, <2>4, <2>5, StepKinds
<1>2. UnitInv /\ [Next]_vars =>
        [\A d \in Databases :
           (monitor[d] # "unstarted" /\ status[d] # "Running" /\ main # "exited") =>
              status'[d] = status[d]]_vars
  BY <1>1
<1> QED
  BY <1>2, UnitsAreConsistent, PTL DEF Spec, FinalStatusIsFinal

---------------------------------------------------------------------------
(***************************************************************************)
(* The exit channel.  Its reports are of distinct units that have          *)
(* returned, so while a unit is about to report there is room for it.      *)
(***************************************************************************)

LEMMA ElementOfSeq ==
  ASSUME NEW R, NEW s \in Seq(R), NEW i \in DOMAIN s
  PROVE  s[i] \in R
OBVIOUS

LEMMA QueuedAreReturned ==
  ASSUME UnitInv, ReportsAreTrue, NEW i \in DOMAIN exits
  PROVE  exits[i].db \in Databases /\ monitor[exits[i].db] = "returned"
<1>1. exits[i] \in [db : Databases, result : {"ok", "err"}]
  BY ElementOfSeq DEF UnitInv, UnitTypeOK
<1> QED
  BY <1>1 DEF ReportsAreTrue

\* A step that leaves the queue alone and changes no returned unit keeps its truth.
LEMMA QueueUntouched ==
  ASSUME UnitInv, ReportsAreTrue, NEW d \in Databases, monitor[d] # "returned",
         exits' = exits,
         \A e \in Databases \ {d} : monitor'[e] = monitor[e] /\ status'[e] = status[e]
  PROVE  ReportsAreTrue'
<1>1. \A i \in DOMAIN exits : exits[i].db \in Databases \ {d}
  BY QueuedAreReturned
<1> QED
  BY <1>1 DEF ReportsAreTrue

LEMMA SendExitKeepsReports ==
  ASSUME UnitInv, ReportsAreTrue, NEW d \in Databases, SendExit(d)
  PROVE  ReportsAreTrue'
<1> DEFINE report == [db |-> d, result |-> outcome[d]]
<1>1. /\ monitor[d] = "exiting" /\ monitor' = [monitor EXCEPT ![d] = "returned"]
      /\ exits' = Append(exits, report)
      /\ UNCHANGED status
  BY DEF SendExit, Goes
<1>2. exits \in Seq([db : Databases, result : {"ok", "err"}])
  BY DEF UnitInv, UnitTypeOK
<1>3. /\ DOMAIN exits' = 1..Len(exits) + 1
      /\ \A i \in 1..Len(exits) : exits'[i] = exits[i]
      /\ exits'[Len(exits) + 1] = report
      /\ DOMAIN exits = 1..Len(exits)
      /\ Len(exits) \in Nat
  BY <1>1, <1>2
<1>4. \A i \in 1..Len(exits) : exits[i].db \in Databases \ {d}
  BY <1>1, <1>3, QueuedAreReturned
<1>5. status[d] = IF report.result = "ok" THEN "Exited" ELSE "Failed"
  BY <1>1 DEF UnitInv, UnitFacts, UnitTypeOK, Statuses, Over
<1>6. \A i, j \in DOMAIN exits' : exits'[i].db = exits'[j].db => i = j
  BY <1>3, <1>4 DEF ReportsAreTrue
<1>7. \A i \in DOMAIN exits' :
        /\ monitor'[exits'[i].db] = "returned"
        /\ status'[exits'[i].db] = IF exits'[i].result = "ok" THEN "Exited" ELSE "Failed"
  <2>1. ASSUME NEW i \in 1..Len(exits)
        PROVE  /\ monitor'[exits'[i].db] = "returned"
               /\ status'[exits'[i].db] =
                    IF exits'[i].result = "ok" THEN "Exited" ELSE "Failed"
    <3>1. exits'[i] = exits[i] /\ exits[i].db \in Databases \ {d} /\ i \in DOMAIN exits
      BY <1>3, <1>4
    <3>2. monitor'[exits[i].db] = monitor[exits[i].db] /\ status' = status
      BY <1>1, <3>1 DEF UnitInv, UnitTypeOK
    <3> QED
      BY <3>1, <3>2 DEF ReportsAreTrue
  <2>2. monitor'[d] = "returned" /\ status'[d] = status[d]
    BY <1>1 DEF UnitInv, UnitTypeOK
  <2> QED
    BY <1>3, <1>5, <2>1, <2>2
<1> QED
  BY <1>6, <1>7 DEF ReportsAreTrue

LEMMA NextKeepsReports ==
  ASSUME UnitInv, ReportsAreTrue, [Next]_vars
  PROVE  ReportsAreTrue'
<1>1. CASE UNCHANGED unitVars \/ Notifies
  BY <1>1 DEF unitVars, Notifies, ReportsAreTrue
<1>2. CASE TakesReport
  <2>1. exits \in Seq([db : Databases, result : {"ok", "err"}])
    BY DEF UnitInv, UnitTypeOK
  <2>2. \A i \in DOMAIN exits' : i + 1 \in DOMAIN exits /\ exits'[i] = exits[i + 1] /\ i \in Nat
    BY <1>2, <2>1 DEF TakesReport
  <2>3. monitor' = monitor /\ status' = status
    BY <1>2 DEF TakesReport
  <2>4. \A i, j \in DOMAIN exits' : exits'[i].db = exits'[j].db => i = j
    <3> SUFFICES ASSUME NEW i \in DOMAIN exits', NEW j \in DOMAIN exits',
                        exits'[i].db = exits'[j].db
                 PROVE  i = j
      OBVIOUS
    <3>1. i + 1 = j + 1
      BY <2>2 DEF ReportsAreTrue
    <3> QED
      BY <2>2, <3>1
  <2> QED
    BY <2>2, <2>3, <2>4 DEF ReportsAreTrue
<1>3. ASSUME NEW d \in Databases, UnitStarts(d)
      PROVE  ReportsAreTrue'
  BY <1>3, QueueUntouched DEF UnitStarts, Goes, UnitInv, UnitTypeOK
<1>4. ASSUME NEW d \in Databases, MonitorStep(d)
      PROVE  ReportsAreTrue'
  <2>1. CASE SendExit(d)
    BY <2>1, SendExitKeepsReports
  <2>2. CASE ~SendExit(d)
    BY <1>4, <2>2, QueueUntouched
       DEF UnitInv, UnitTypeOK, MonitorStep, PollWait, WaitOk, WaitErr, ReconnectOk,
           ReconnectErr, PauseEnds, ShutdownBranch, ShutdownFirst, ShutdownDropsWait,
           StopEnds, Goes, Ends
  <2> QED
    BY <2>1, <2>2
<1>5. ASSUME NEW d \in Databases, PipeEnds(d)
      PROVE  ReportsAreTrue'
  BY <1>5 DEF PipeEnds, ReportsAreTrue
<1>6. ASSUME NEW d \in Databases, WatchClosed(d)
      PROVE  ReportsAreTrue'
  BY <1>6, QueueUntouched DEF WatchClosed, UnitInv, UnitTypeOK
<1> QED
  BY <1>1, <1>2, <1>3, <1>4, <1>5, <1>6, StepKinds

\* What is in the exit channel is one report per returned unit, and says what the
\* unit's status says.
THEOREM ReportsAgree == Spec => []ReportsAreTrue
<1>1. Init => ReportsAreTrue
  BY DEF Init, UnitInit, ReportsAreTrue
<1>2. UnitInv /\ ReportsAreTrue /\ [Next]_vars => ReportsAreTrue'
  BY NextKeepsReports
<1> QED
  BY <1>1, <1>2, UnitsAreConsistent, PTL DEF Spec

LEMMA RoomForReport ==
  ASSUME UnitInv, ReportsAreTrue, NEW d \in Databases, monitor[d] = "exiting"
  PROVE  Len(exits) < Cardinality(Databases)
<1> DEFINE Rest == Databases \ {d}
           Sender == [i \in 1..Len(exits) |-> exits[i].db]
<1>1. /\ exits \in Seq([db : Databases, result : {"ok", "err"}])
      /\ Len(exits) \in Nat
      /\ DOMAIN exits = 1..Len(exits)
  BY DEF UnitInv, UnitTypeOK
<1>2. Sender \in [1..Len(exits) -> Rest]
  BY <1>1, QueuedAreReturned
<1>3. \A i, j \in 1..Len(exits) : Sender[i] = Sender[j] => i = j
  BY <1>1 DEF ReportsAreTrue
<1>4. /\ IsFiniteSet(Rest)
      /\ Cardinality(Rest) = Cardinality(Databases) - 1
      /\ Cardinality(Databases) \in Nat
  BY UnitAssumption, FS_RemoveElement, FS_CardinalityType DEF UnitAssumption
<1>5. IsFiniteSet(1..Len(exits)) /\ Cardinality(1..Len(exits)) = Len(exits)
  BY <1>1, FS_Interval
<1>6. ~(Cardinality(Rest) < Cardinality(1..Len(exits)))
  <2> HIDE DEF Rest, Sender
  <2> QED
    BY <1>2, <1>3, <1>4, <1>5, FS_PigeonHole
<1> QED
  BY <1>1, <1>4, <1>5, <1>6

\* exit_tx.send never waits: a task with something to report finds room, for any number
\* of databases, however long the command is busy with a reload.
THEOREM ReportsNeverWait == Spec => []ExitNeverBlocks
<1>1. UnitInv /\ ReportsAreTrue => ExitNeverBlocks
  BY RoomForReport DEF ExitNeverBlocks
<1> QED
  BY <1>1, UnitsAreConsistent, ReportsAgree, PTL

---------------------------------------------------------------------------
(* The command's own variables. *)

Flags ==
  /\ ready \in BOOLEAN
  /\ listening \in BOOLEAN
  /\ installed \in BOOLEAN
  /\ interrupted \in BOOLEAN
  /\ fsEvent \in BOOLEAN
  /\ wake \in BOOLEAN

CommandTypes ==
  /\ Flags
  /\ main \in {"starting", "subscribing", "loop", "settling", "reading", "compiling",
              "flushing", "exited"}
  /\ exitCode \in {"none", "success", "error", "signal"}
  /\ interrupts \in 0..MaxInterrupts
  /\ file \in [version : 0..MaxEdits, compiles : BOOLEAN, watched : BOOLEAN, reported : BOOLEAN]
  /\ loaded \in [version : 0..MaxEdits, compiles : BOOLEAN, watched : BOOLEAN, reported : BOOLEAN]
  /\ active \in 0..MaxEdits

LEMMA NextKeepsFlags ==
  ASSUME Flags, [Next]_vars
  PROVE  Flags'
<1> USE DEF mainVars, ruleVars
<1>1. CASE UNCHANGED <<mainVars, ruleVars>>
  BY <1>1 DEF Flags
<1>2. CASE \E d \in Databases : StartUnit(d) \/ StartFails(d)
  BY <1>1, <1>2 DEF Flags, StartUnit, StartFails
<1>3. CASE AllStarted
  BY <1>3 DEF Flags, AllStarted
<1>4. CASE Subscribe
  BY <1>4 DEF Flags, Subscribe
<1>5. CASE Listen
  BY <1>5 DEF Flags, Listen
<1>6. CASE TakeExit
  BY <1>6 DEF Flags, TakeExit, BranchTo
<1>7. CASE TakeInterrupt
  BY <1>7 DEF Flags, TakeInterrupt, BranchTo
<1>8. CASE TakeRules
  BY <1>8 DEF Flags, TakeRules, BranchTo
<1>9. CASE Drain
  BY <1>9 DEF Flags, Drain
<1>10. CASE ReadRules
  BY <1>10 DEF Flags, ReadRules
<1>11. CASE SwapRules
  BY <1>11 DEF Flags, SwapRules
<1>12. CASE Flush
  BY <1>12 DEF Flags, Flush
<1>13. CASE Interrupt
  BY <1>13 DEF Flags, Interrupt
<1>14. CASE Edit
  BY <1>14 DEF Flags, Edit, Reports, Subscribed
<1>15. CASE Notify
  BY <1>15 DEF Flags, Notify
<1>16. CASE (\E d \in Databases : Unit(d)) \/ Pipelines \/ Teardown
  BY <1>1, <1>16 DEF Unit, Pipelines, Teardown
<1> QED
  BY <1>1, <1>2, <1>3, <1>4, <1>5, <1>6, <1>7, <1>8, <1>9, <1>10, <1>11, <1>12, <1>13,
     <1>14, <1>15, <1>16 DEF Next, MainStep, vars

LEMMA NextKeepsCommandTypes ==
  ASSUME CommandTypes, [Next]_vars
  PROVE  CommandTypes'
<1> USE ScanAssumption DEF ScanAssumption, mainVars, ruleVars
<1>0. Flags'
  BY NextKeepsFlags DEF CommandTypes
<1>1. CASE UNCHANGED <<mainVars, ruleVars>>
  BY <1>0, <1>1 DEF CommandTypes
<1>2. CASE \E d \in Databases : StartUnit(d) \/ StartFails(d)
  BY <1>0, <1>1, <1>2 DEF CommandTypes, StartUnit, StartFails
<1>3. CASE AllStarted \/ Subscribe \/ Listen \/ Flush
  BY <1>0, <1>3 DEF CommandTypes, AllStarted, Subscribe, Listen, Flush
<1>4. CASE TakeExit
  BY <1>0, <1>4 DEF CommandTypes, TakeExit, BranchTo
<1>5. CASE TakeInterrupt
  BY <1>0, <1>5 DEF CommandTypes, TakeInterrupt, BranchTo
<1>6. CASE TakeRules
  BY <1>0, <1>6 DEF CommandTypes, TakeRules, BranchTo
<1>7. CASE Drain
  BY <1>0, <1>7 DEF CommandTypes, Drain
<1>8. CASE ReadRules
  BY <1>0, <1>8 DEF CommandTypes, ReadRules
<1>9. CASE SwapRules
  <2>1. loaded' = NoRules /\ active' \in {loaded.version, active}
    BY <1>9 DEF SwapRules
  <2> QED
    BY <1>0, <1>9, <2>1 DEF CommandTypes, SwapRules, NoRules
<1>10. CASE Interrupt
  BY <1>0, <1>10 DEF CommandTypes, Interrupt
<1>11. CASE Edit
  <2>1. PICK kind \in EditKinds, compiles \in BOOLEAN :
          file' = [version |-> file.version + 1, compiles |-> compiles,
                   watched |-> Subscribed, reported |-> Reports(kind)]
    BY <1>11 DEF Edit
  <2>2. Subscribed \in BOOLEAN /\ Reports(kind) \in BOOLEAN
    BY DEF Subscribed, Reports
  <2>3. file.version + 1 \in 0..MaxEdits
    BY <1>11 DEF Edit, CommandTypes
  <2>4. file' \in [version : 0..MaxEdits, compiles : BOOLEAN, watched : BOOLEAN,
                   reported : BOOLEAN]
    BY <2>1, <2>2, <2>3
  <2> QED
    BY <1>0, <1>11, <2>4 DEF Edit, CommandTypes
<1>12. CASE Notify
  BY <1>0, <1>12 DEF CommandTypes, Notify
<1>13. CASE (\E d \in Databases : Unit(d)) \/ Pipelines \/ Teardown
  BY <1>1, <1>13 DEF Unit, Pipelines, Teardown
<1> QED
  BY <1>1, <1>2, <1>3, <1>4, <1>5, <1>6, <1>7, <1>8, <1>9, <1>10, <1>11, <1>12, <1>13
     DEF Next, MainStep, vars

\* Every variable of the command and of its units keeps its type.
THEOREM TypesHold == Spec => []TypeOK
<1>1. Init => CommandTypes
  <2>1. Init => Flags
    BY DEF Init, Flags
  <2>2. Init => file \in [version : 0..MaxEdits, compiles : BOOLEAN, watched : BOOLEAN,
                          reported : BOOLEAN]
    <3>1. Init => file = [version |-> 0, compiles |-> TRUE, watched |-> FALSE,
                          reported |-> FALSE]
      BY Zenon DEF Init, NoRules
    <3>2. 0 \in 0..MaxEdits
      BY ScanAssumption DEF ScanAssumption
    <3>3. ASSUME NEW v \in 0..MaxEdits
          PROVE  [version |-> v, compiles |-> TRUE, watched |-> FALSE, reported |-> FALSE]
                   \in [version : 0..MaxEdits, compiles : BOOLEAN, watched : BOOLEAN,
                        reported : BOOLEAN]
      OBVIOUS
    <3> QED
      BY <3>1, <3>2, <3>3, Zenon
  <2> QED
    BY <2>1, <2>2, ScanAssumption DEF Init, CommandTypes, NoRules, ScanAssumption
<1>2. CommandTypes /\ [Next]_vars => CommandTypes'
  BY NextKeepsCommandTypes
<1>3. UnitInv /\ CommandTypes => TypeOK
  <2>1. Flags => /\ ready \in BOOLEAN /\ listening \in BOOLEAN /\ installed \in BOOLEAN
                 /\ interrupted \in BOOLEAN /\ fsEvent \in BOOLEAN /\ wake \in BOOLEAN
    BY DEF Flags
  <2> QED
    BY <2>1 DEF UnitInv, CommandTypes, TypeOK
<1> QED
  BY <1>1, <1>2, <1>3, UnitsAreConsistent, PTL DEF Spec

---------------------------------------------------------------------------
(***************************************************************************)
(* The end of the command.  Every unit was started before the loop, and a  *)
(* unit whose task is over stays so: that is what the loop's exit needs.   *)
(***************************************************************************)

EndFacts ==
  /\ main \notin {"starting", "exited"} => \A d \in Databases : monitor[d] # "unstarted"
  /\ main = "flushing" \/ exitCode = "success" => \A d \in Databases : monitor[d] \in Over

\* No step starts a unit again, nor takes one back from its end.
LEMMA UnitsGoForward ==
  ASSUME UnitInv, [Next]_vars, NEW e \in Databases
  PROVE  /\ monitor[e] # "unstarted" => monitor'[e] # "unstarted"
         /\ monitor[e] \in Over => monitor'[e] \in Over
<1> USE DEF MonitorStates, Held, Over
<1>1. CASE UNCHANGED unitVars \/ TakesReport \/ Notifies
  BY <1>1 DEF unitVars, TakesReport, Notifies
<1>2. ASSUME NEW d \in Databases, UnitStarts(d)
      PROVE  /\ monitor[e] # "unstarted" => monitor'[e] # "unstarted"
             /\ monitor[e] \in Over => monitor'[e] \in Over
  BY <1>2 DEF UnitInv, UnitTypeOK, UnitStarts, Goes
<1>3. ASSUME NEW d \in Databases, MonitorStep(d)
      PROVE  /\ monitor[e] # "unstarted" => monitor'[e] # "unstarted"
             /\ monitor[e] \in Over => monitor'[e] \in Over
  BY <1>3
     DEF UnitInv, UnitTypeOK, MonitorStep, PollWait, WaitOk, WaitErr, ReconnectOk,
         ReconnectErr, PauseEnds, ShutdownBranch, ShutdownFirst, ShutdownDropsWait,
         StopEnds, SendExit, Goes, Ends
<1>4. ASSUME NEW d \in Databases, PipeEnds(d)
      PROVE  /\ monitor[e] # "unstarted" => monitor'[e] # "unstarted"
             /\ monitor[e] \in Over => monitor'[e] \in Over
  BY <1>4 DEF PipeEnds
<1>5. ASSUME NEW d \in Databases, WatchClosed(d)
      PROVE  /\ monitor[e] # "unstarted" => monitor'[e] # "unstarted"
             /\ monitor[e] \in Over => monitor'[e] \in Over
  BY <1>5 DEF UnitInv, UnitTypeOK, WatchClosed
<1> QED
  BY <1>1, <1>2, <1>3, <1>4, <1>5, StepKinds

\* The steps that enter the loop, leave it, or end the command.
LEMMA NextKeepsEndFacts ==
  ASSUME UnitInv, EndFacts, [Next]_vars
  PROVE  EndFacts'
<1>1. CASE UNCHANGED <<main, exitCode>>
  BY <1>1, UnitsGoForward DEF EndFacts
<1>2. CASE AllStarted
  BY <1>2 DEF EndFacts, AllStarted, unitVars
<1>3. CASE TakeExit
  <2>1. CASE ~AllTerminated
    BY <1>3, <2>1 DEF EndFacts, TakeExit, BranchTo
  <2>2. CASE AllTerminated
    <3>1. \A d \in Databases : monitor[d] \in Over
      BY <1>3, <2>2 DEF EndFacts, TakeExit, BranchTo, AllTerminated, UnitInv, UnitTypeOK,
                        UnitFacts, MonitorStates, Held, Over
    <3> QED
      BY <1>3, <3>1 DEF EndFacts, TakeExit, BranchTo
  <2> QED
    BY <2>1, <2>2
<1>4. CASE Flush
  BY <1>4 DEF EndFacts, Flush, unitVars
<1>5. CASE \/ Subscribe \/ TakeInterrupt \/ TakeRules \/ Drain \/ ReadRules \/ SwapRules
           \/ Interrupt \/ \E d \in Databases : StartFails(d)
  <2>1. /\ UNCHANGED monitor
        /\ main' # "flushing" \/ main' = main
        /\ exitCode' # "success" \/ exitCode' = exitCode
        /\ main' = "exited" \/ main' = main \/ main \notin {"starting", "exited"}
    BY <1>5 DEF Subscribe, TakeInterrupt, TakeRules, Drain, ReadRules, SwapRules, Interrupt,
                StartFails, BranchTo, unitVars
  <2> QED
    BY <2>1 DEF EndFacts
<1> QED
  BY <1>1, <1>2, <1>3, <1>4, <1>5
     DEF Next, MainStep, StartUnit, Listen, Edit, Notify, Unit, Pipelines, Teardown, mainVars, vars

\* The command succeeds only over units that have ended: none of them is running,
\* reconnecting or waiting to, whatever order the reports came in.
THEOREM CommandOutlivesUnits == Spec => []LeavesNoUnitBehind
<1>1. Init => EndFacts
  BY DEF Init, EndFacts
<1>2. UnitInv /\ EndFacts /\ [Next]_vars => EndFacts'
  BY NextKeepsEndFacts
<1>3. UnitInv /\ EndFacts => LeavesNoUnitBehind
  BY DEF UnitInv, UnitFacts, EndFacts, LeavesNoUnitBehind, Over
<1> QED
  BY <1>1, <1>2, <1>3, UnitsAreConsistent, PTL DEF Spec

===========================================================================
