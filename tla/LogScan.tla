------------------------------ MODULE LogScan ------------------------------
(***************************************************************************)
(* What the delivery of one database's changes promises, without batches,  *)
(* channel, acknowledgements or recorded progress: a log, and a reader     *)
(* that takes its changes one by one.  A change is scanned for the first   *)
(* time only when everything before it is settled.  While the reader is up *)
(* nothing is missed.  When it goes down, or is down, all that is left of  *)
(* the log up to some position may be missed at once; and until it is up   *)
(* again the log may be taken back to a position, though never to one with *)
(* something scanned behind something missed.  A change that is scanned    *)
(* again is a step that changes nothing here.                              *)
(***************************************************************************)
EXTENDS Integers

CONSTANT InScope    \* the changes to scan, by their positions in the log

VARIABLES committed, \* last change in the log
          scanned,   \* the changes scanned
          missed,    \* the changes given up
          reading    \* the reader is up

vars == <<committed, scanned, missed, reading>>

Settled == scanned \cup missed

Init == /\ committed = 0
        /\ scanned = {}
        /\ missed = {}
        /\ reading = TRUE

Commit == /\ committed' = committed + 1
          /\ UNCHANGED <<scanned, missed, reading>>

\* The first change that is not settled.
Scan == /\ reading
        /\ \E e \in InScope \ Settled :
             /\ e <= committed
             /\ \A f \in InScope : f < e => f \in Settled
             /\ scanned' = scanned \cup {e}
        /\ UNCHANGED <<committed, missed, reading>>

\* What is left of the log up to a position.
Miss == /\ ~reading'
        /\ \E last \in 0..committed :
             missed' = missed \cup {e \in InScope \ scanned : e <= last}
        /\ UNCHANGED <<committed, scanned>>

\* The reader will be given everything behind a position again.
TakeBack == /\ ~reading
            /\ reading' \in BOOLEAN
            /\ \E last \in 0..committed :
                 /\ missed' = {e \in missed : e <= last}
                 /\ \A e \in missed \ missed', s \in scanned : s < e
            /\ UNCHANGED <<committed, scanned>>

Next == Commit \/ Scan \/ Miss \/ TakeBack

Spec == Init /\ [][Next]_vars

============================================================================
