----------------------------- MODULE AlertGate -----------------------------
(***************************************************************************)
(* What alert deduplication promises, without its cache: every dedup key   *)
(* has a mute timer of its own.  A finding whose key is not muted alerts   *)
(* and mutes the key for the whole window; a finding whose key is muted is *)
(* suppressed and does not prolong the mute; time runs for all keys alike. *)
(* There is no shared map, no size threshold and no pruning here, so a     *)
(* cache that implements this specification never lets the number of keys  *)
(* it holds, or the moment it forgets one, change a verdict.               *)
(***************************************************************************)
EXTENDS Integers

CONSTANTS Keys,     \* the dedup keys findings carry
          Window    \* how long an alert mutes its key

VARIABLES muted,    \* per key, the time left before it may alert again
          verdict   \* the last decision: its key and whether it alerted

vars == <<muted, verdict>>

NoVerdict == [key |-> "none", alert |-> FALSE]

Init == /\ muted = [k \in Keys |-> 0]
        /\ verdict = NoVerdict

Alert(k) == /\ muted[k] = 0
            /\ muted' = [muted EXCEPT ![k] = Window]
            /\ verdict' = [key |-> k, alert |-> TRUE]

Suppress(k) == /\ muted[k] > 0
               /\ verdict' = [key |-> k, alert |-> FALSE]
               /\ UNCHANGED muted

Elapse == /\ muted' = [k \in Keys |-> IF muted[k] > 0 THEN muted[k] - 1 ELSE 0]
          /\ UNCHANGED verdict

Next == \/ \E k \in Keys : Alert(k) \/ Suppress(k)
        \/ Elapse

Spec == Init /\ [][Next]_vars

=============================================================================
