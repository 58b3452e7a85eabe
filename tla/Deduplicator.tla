--------------------------- MODULE Deduplicator ---------------------------
(***************************************************************************)
(* alerts/dedup.rs: the cache that decides whether a finding alerts.       *)
(*                                                                         *)
(* should_alert holds the mutex for its whole body, so one call is one     *)
(* action.  It reads the clock twice: once for pruning, when the map is    *)
(* over PRUNE_THRESHOLD, and again for the lookup; the first reading lies  *)
(* anywhere between the previous call and the second.                      *)
(***************************************************************************)
EXTENDS Integers, FiniteSets

CONSTANTS Keys,            \* what dedup_key distinguishes: (database, schema, table, column, rule, value)
          Window,          \* dedup_window_seconds; 0 disables deduplication
          PruneThreshold,  \* PRUNE_THRESHOLD (10 000 in the code)
          MaxTime          \* bound on the modelled clock

ASSUME DedupAssumption == /\ Window \in Nat
                          /\ PruneThreshold \in Nat
                          /\ MaxTime \in Nat
                          /\ IsFiniteSet(Keys)

VARIABLES now,        \* Instant::now()
          seen,       \* the HashMap: key -> instant of its last alert, a function on the keys present
          lastCall,   \* when the last should_alert returned
          prunedAt,   \* the first clock reading of the last should_alert
          verdict,    \* the last decision: its key and whether it alerted
          lastAlert   \* history: when each key last alerted, never forgotten

vars == <<now, seen, lastCall, prunedAt, verdict, lastAlert>>

NoVerdict == [key |-> "none", alert |-> FALSE]

Init == /\ now = 0
        /\ seen = [k \in {} |-> 0]
        /\ lastCall = 0
        /\ prunedAt = 0
        /\ verdict = NoVerdict
        /\ lastAlert = [k \in {} |-> 0]

Tick == /\ now < MaxTime
        /\ now' = now + 1
        /\ UNCHANGED <<seen, lastCall, prunedAt, verdict, lastAlert>>

(***************************************************************************)
(* The operations of the map.  A definition whose name starts with Mut is  *)
(* a deliberately wrong variant of the one that follows it: it is used     *)
(* nowhere in the specification, only to see a property fail.              *)
(***************************************************************************)
Insert(map, k, t) == [j \in DOMAIN map \cup {k} |-> IF j = k THEN t ELSE map[j]]

MutRetainTooFew(map, t) == [k \in {j \in DOMAIN map : t - map[j] < Window - 1} |-> map[k]]
Retain(map, t) == [k \in {j \in DOMAIN map : t - map[j] < Window} |-> map[k]]

MutNeverPruned(map, t) == map
Pruned(map, t) == IF Cardinality(DOMAIN map) > PruneThreshold THEN Retain(map, t) ELSE map

MutInWindowShort(map, k) == k \in DOMAIN map /\ now - map[k] < Window - 1
MutInWindowInclusive(map, k) == k \in DOMAIN map /\ now - map[k] <= Window
InWindow(map, k) == k \in DOMAIN map /\ now - map[k] < Window

(***************************************************************************)
(* should_alert: prune, then an entry inside the window suppresses and is  *)
(* left as it is; an expired or missing one alerts and is stamped.         *)
(***************************************************************************)
MutStampAlways(map, k, alerts) == Insert(map, k, now)
MutStampExpiry(map, k, alerts) == IF alerts THEN Insert(map, k, now + Window) ELSE map
Stamp(map, k, alerts) == IF alerts THEN Insert(map, k, now) ELSE map

ShouldAlert(k) ==
  \E t \in lastCall..now :
    LET kept == Pruned(seen, t)
        alerts == ~InWindow(kept, k)
    IN  /\ seen' = Stamp(kept, k, alerts)
        /\ lastAlert' = IF alerts THEN Insert(lastAlert, k, now) ELSE lastAlert
        /\ verdict' = [key |-> k, alert |-> alerts]
        /\ prunedAt' = t
        /\ lastCall' = now
        /\ UNCHANGED now

Next == Tick \/ \E k \in Keys : ShouldAlert(k)

Spec == Init /\ [][Next]_vars

---------------------------------------------------------------------------

\* The map and the history are partial functions from keys to instants not after
\* the last call, and the two clock readings of a call come in order.
TypeOK == /\ now \in 0..MaxTime
          /\ DOMAIN seen \subseteq Keys
          /\ seen \in [DOMAIN seen -> 0..lastCall]
          /\ DOMAIN lastAlert \subseteq Keys
          /\ lastAlert \in [DOMAIN lastAlert -> 0..lastCall]
          /\ lastCall \in 0..now
          /\ prunedAt \in 0..lastCall
          /\ verdict \in [key : Keys, alert : BOOLEAN] \cup {NoVerdict}

\* Pruning forgets no key that is still muted: whatever the size of the map and
\* whenever it was last pruned, a key that alerted inside the window is in it.
LiveKeysRemembered ==
  \A k \in DOMAIN lastAlert : now - lastAlert[k] < Window => k \in DOMAIN seen

\* An entry carries the instant of the key's last alert: a suppressed duplicate
\* does not push the end of the window away.
EntriesAreLastAlerts ==
  \A k \in DOMAIN seen : k \in DOMAIN lastAlert /\ seen[k] = lastAlert[k]

\* Two alerts for one key are at least a window apart, pruning in between or not.
AlertsAreWindowApart ==
  [][\A k \in DOMAIN lastAlert :
       lastAlert'[k] # lastAlert[k] => lastAlert'[k] - lastAlert[k] >= Window]_vars

\* A finding is suppressed only if its key really alerted less than a window ago:
\* no finding is lost to an entry that has expired, or that belongs to another key.
SuppressionJustified ==
  (verdict # NoVerdict /\ ~verdict.alert) =>
     /\ verdict.key \in DOMAIN lastAlert
     /\ lastCall - lastAlert[verdict.key] < Window

\* The cache is bounded by what is live, not by PRUNE_THRESHOLD: it holds more
\* than PRUNE_THRESHOLD + 1 entries only while all of them were inside the window
\* when the last call looked.
OverflowIsAllLive ==
  Cardinality(DOMAIN seen) > PruneThreshold + 1 =>
     \A k \in DOMAIN seen : prunedAt - seen[k] < Window

---------------------------------------------------------------------------

\* The time left before k may alert again, read off the cache.
Remaining(k) == IF InWindow(seen, k) THEN Window - (now - seen[k]) ELSE 0

\* The cache implements one independent mute timer per key.
Gate == INSTANCE AlertGate WITH muted <- [k \in Keys |-> Remaining(k)]

GateSpec == Gate!Spec

===========================================================================
