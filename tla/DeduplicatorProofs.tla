------------------------ MODULE DeduplicatorProofs ------------------------
(***************************************************************************)
(* Proofs about Deduplicator, for every set of keys, window, threshold and *)
(* clock bound.                                                            *)
(*                                                                         *)
(* The inductive invariant is that the cache is a faithful part of the     *)
(* history: its entries are last alerts, and it misses none that is still  *)
(* inside the window.  Pruning keeps it because an entry outside the       *)
(* window at the first clock reading of a call is outside it at the        *)
(* second.                                                                 *)
(***************************************************************************)
EXTENDS Deduplicator, FiniteSetTheorems, TLAPS

CacheInv == /\ TypeOK
            /\ EntriesAreLastAlerts
            /\ LiveKeysRemembered

---------------------------------------------------------------------------
\* Pruning only removes keys, and only expired ones.
LEMMA PrunedFacts ==
  ASSUME NEW map, NEW t
  PROVE  /\ DOMAIN Pruned(map, t) \subseteq DOMAIN map
         /\ \A j \in DOMAIN Pruned(map, t) : Pruned(map, t)[j] = map[j]
         /\ \A j \in DOMAIN map : t - map[j] < Window => j \in DOMAIN Pruned(map, t)
  BY DEF Pruned, Retain

\* The verdict of a call does not depend on whether the call pruned: a key is
\* inside the window in the pruned map exactly when it is in the full one.
LEMMA PruningIsInvisible ==
  ASSUME TypeOK, NEW k, NEW t \in lastCall..now
  PROVE  InWindow(Pruned(seen, t), k) <=> InWindow(seen, k)
  <1>1. k \in DOMAIN seen => seen[k] \in 0..now
    BY DEF TypeOK
  <1>2. CASE InWindow(seen, k)
    <2>1. t - seen[k] < Window
      BY <1>1, <1>2, DedupAssumption DEF InWindow, TypeOK
    <2> QED BY <1>2, <2>1, PrunedFacts DEF InWindow
  <1>3. CASE ~InWindow(seen, k)
    BY <1>3, PrunedFacts DEF InWindow
  <1> QED BY <1>2, <1>3

---------------------------------------------------------------------------
\* A call keeps the invariant.
LEMMA ShouldAlertKeepsCacheInv ==
  ASSUME CacheInv, NEW k \in Keys, ShouldAlert(k)
  PROVE  CacheInv'
  <1> DEFINE alerts == ~InWindow(seen, k)
  <1>1. PICK t \in lastCall..now :
          /\ seen' = Stamp(Pruned(seen, t), k, ~InWindow(Pruned(seen, t), k))
          /\ lastAlert' = IF ~InWindow(Pruned(seen, t), k) THEN Insert(lastAlert, k, now) ELSE lastAlert
          /\ verdict' = [key |-> k, alert |-> ~InWindow(Pruned(seen, t), k)]
          /\ prunedAt' = t
          /\ lastCall' = now
          /\ now' = now
    BY DEF ShouldAlert
  <1>2. InWindow(Pruned(seen, t), k) <=> InWindow(seen, k)
    BY PruningIsInvisible DEF CacheInv
  <1> DEFINE kept == Pruned(seen, t)
  <1>3. /\ DOMAIN kept \subseteq DOMAIN seen
        /\ \A j \in DOMAIN kept : kept[j] = seen[j]
        /\ \A j \in DOMAIN seen : t - seen[j] < Window => j \in DOMAIN kept
    BY PrunedFacts
  <1>4. CASE alerts
    <2>1. seen' = Insert(kept, k, now) /\ lastAlert' = Insert(lastAlert, k, now)
      BY <1>1, <1>2, <1>4 DEF Stamp
    <2>2. /\ DOMAIN seen' = DOMAIN kept \cup {k}
          /\ seen'[k] = now
          /\ \A j \in DOMAIN kept : j # k => seen'[j] = kept[j]
      BY <2>1 DEF Insert
    <2>3. /\ DOMAIN lastAlert' = DOMAIN lastAlert \cup {k}
          /\ lastAlert'[k] = now
          /\ \A j \in DOMAIN lastAlert : j # k => lastAlert'[j] = lastAlert[j]
      BY <2>1 DEF Insert
    <2>4. TypeOK'
      <3>1. seen' \in [DOMAIN seen' -> 0..lastCall']
        BY <1>1, <1>3, <2>1, <2>2 DEF Insert, CacheInv, TypeOK
      <3>2. lastAlert' \in [DOMAIN lastAlert' -> 0..lastCall']
        BY <1>1, <2>1, <2>3 DEF Insert, CacheInv, TypeOK
      <3>3. verdict' \in [key : Keys, alert : BOOLEAN]
        BY <1>1
      <3> QED
        BY <1>1, <1>3, <2>2, <2>3, <3>1, <3>2, <3>3 DEF CacheInv, TypeOK
    <2>5. EntriesAreLastAlerts'
      BY <1>3, <2>2, <2>3 DEF CacheInv, EntriesAreLastAlerts
    <2>6. LiveKeysRemembered'
      <3> SUFFICES ASSUME NEW j \in DOMAIN lastAlert', now' - lastAlert'[j] < Window, j # k
                   PROVE  j \in DOMAIN seen'
        BY <2>2 DEF LiveKeysRemembered
      <3>1. j \in DOMAIN lastAlert /\ now - lastAlert[j] < Window
        BY <1>1, <2>3
      <3>2. j \in DOMAIN seen /\ seen[j] = lastAlert[j] /\ seen[j] \in 0..now
        BY <3>1 DEF CacheInv, LiveKeysRemembered, EntriesAreLastAlerts, TypeOK
      <3>3. t - seen[j] < Window
        BY <3>1, <3>2, DedupAssumption DEF CacheInv, TypeOK
      <3> QED BY <1>3, <2>2, <3>2, <3>3
    <2> QED BY <2>4, <2>5, <2>6 DEF CacheInv
  <1>5. CASE ~alerts
    <2>1. seen' = kept /\ lastAlert' = lastAlert
      BY <1>1, <1>2, <1>5 DEF Stamp
    <2>2. TypeOK'
      <3>1. kept \in [DOMAIN kept -> 0..lastCall']
        BY <1>1, <1>3 DEF Pruned, Retain, CacheInv, TypeOK
      <3>2. verdict' \in [key : Keys, alert : BOOLEAN]
        BY <1>1
      <3> QED
        BY <1>1, <1>3, <2>1, <3>1, <3>2 DEF CacheInv, TypeOK
    <2>3. EntriesAreLastAlerts'
      BY <1>3, <2>1 DEF CacheInv, EntriesAreLastAlerts
    <2>4. LiveKeysRemembered'
      <3> SUFFICES ASSUME NEW j \in DOMAIN lastAlert, now - lastAlert[j] < Window
                   PROVE  j \in DOMAIN kept
        BY <1>1, <2>1 DEF LiveKeysRemembered
      <3>1. j \in DOMAIN seen /\ seen[j] = lastAlert[j] /\ seen[j] \in 0..now
        BY DEF CacheInv, LiveKeysRemembered, EntriesAreLastAlerts, TypeOK
      <3>2. t - seen[j] < Window
        BY <3>1, DedupAssumption DEF CacheInv, TypeOK
      <3> QED BY <1>3, <3>1, <3>2
    <2> QED BY <2>2, <2>3, <2>4 DEF CacheInv
  <1> QED BY <1>4, <1>5

\* It holds of an empty cache, and every step keeps it.
LEMMA InitCacheInv ==
  ASSUME Init
  PROVE  CacheInv
  BY DedupAssumption DEF Init, CacheInv, TypeOK, EntriesAreLastAlerts, LiveKeysRemembered

LEMMA TickKeepsCacheInv ==
  ASSUME CacheInv, Tick
  PROVE  CacheInv'
  <1>1. TypeOK'
    BY DedupAssumption DEF Tick, CacheInv, TypeOK
  <1>2. EntriesAreLastAlerts'
    BY DEF Tick, CacheInv, EntriesAreLastAlerts
  <1>3. LiveKeysRemembered'
    BY DedupAssumption DEF Tick, CacheInv, TypeOK, LiveKeysRemembered
  <1> QED BY <1>1, <1>2, <1>3 DEF CacheInv

LEMMA StutterKeepsCacheInv ==
  ASSUME CacheInv, UNCHANGED vars
  PROVE  CacheInv'
  BY DEF vars, CacheInv, TypeOK, EntriesAreLastAlerts, LiveKeysRemembered

\* A call either stamps its key, which is new or whose window has ended, with the present,
\* or leaves the history alone.
LEMMA CallFacts ==
  ASSUME CacheInv, NEW k \in Keys, ShouldAlert(k)
  PROVE  /\ verdict' = [key |-> k, alert |-> verdict'.alert]
         /\ verdict'.alert =>
              /\ DOMAIN lastAlert' = DOMAIN lastAlert \cup {k}
              /\ lastAlert'[k] = now
              /\ \A j \in DOMAIN lastAlert \ {k} : lastAlert'[j] = lastAlert[j]
              /\ k \in DOMAIN lastAlert => now - lastAlert[k] >= Window
         /\ ~ verdict'.alert => lastAlert' = lastAlert
         /\ now \in Nat /\ Window \in Nat
         /\ \A j \in DOMAIN lastAlert : lastAlert[j] \in 0..now
  <1>1. PICK t \in lastCall..now :
          /\ lastAlert' = IF ~InWindow(Pruned(seen, t), k) THEN Insert(lastAlert, k, now) ELSE lastAlert
          /\ verdict' = [key |-> k, alert |-> ~InWindow(Pruned(seen, t), k)]
    BY DEF ShouldAlert
  <1>2. verdict'.alert = ~InWindow(seen, k)
    BY <1>1, PruningIsInvisible DEF CacheInv
  <1>3. /\ now \in Nat /\ Window \in Nat
        /\ \A j \in DOMAIN lastAlert : lastAlert[j] \in 0..now
    BY DedupAssumption DEF CacheInv, TypeOK
  <1>4. ~InWindow(seen, k) /\ k \in DOMAIN lastAlert => ~(now - lastAlert[k] < Window)
    BY DEF InWindow, CacheInv, LiveKeysRemembered, EntriesAreLastAlerts
  <1>5. k \in DOMAIN lastAlert /\ ~(now - lastAlert[k] < Window) => now - lastAlert[k] >= Window
    BY <1>3
  <1>6. ASSUME verdict'.alert
        PROVE  lastAlert' = Insert(lastAlert, k, now)
    BY <1>1, <1>6
  <1>7. ~ verdict'.alert => lastAlert' = lastAlert
    BY <1>1
  <1> QED BY <1>1, <1>2, <1>3, <1>4, <1>5, <1>6, <1>7 DEF Insert

\* The cache invariant holds in every reachable state.
THEOREM CacheIsFaithful == Spec => []CacheInv
  <1>1. CacheInv /\ [Next]_vars => CacheInv'
    BY ShouldAlertKeepsCacheInv, TickKeepsCacheInv, StutterKeepsCacheInv DEF Next
  <1> QED BY <1>1, InitCacheInv, PTL DEF Spec

\* The cache, the clock readings and the last verdict keep their types.
THEOREM CacheIsTyped == Spec => []TypeOK
BY CacheIsFaithful, PTL DEF CacheInv

\* Whenever the map was pruned, a key that alerted inside the window is in it.
THEOREM NoLiveKeyIsForgotten == Spec => []LiveKeysRemembered
BY CacheIsFaithful, PTL DEF CacheInv

\* An entry is the instant of its key's last alert: suppressed duplicates leave it alone.
THEOREM EntriesAreOfLastAlerts == Spec => []EntriesAreLastAlerts
BY CacheIsFaithful, PTL DEF CacheInv

---------------------------------------------------------------------------
\* A finding whose key alerted inside the window is not alerted again: two
\* alerts for one key are at least a window apart (should_alert).
THEOREM NoRepeatInsideWindow == Spec => AlertsAreWindowApart
  <1> DEFINE Apart == \A k \in DOMAIN lastAlert :
                        lastAlert'[k] # lastAlert[k] => lastAlert'[k] - lastAlert[k] >= Window
  <1>1. CacheInv /\ [Next]_vars => [Apart]_vars
    <2> SUFFICES ASSUME CacheInv, Next, NEW j \in DOMAIN lastAlert, lastAlert'[j] # lastAlert[j]
                 PROVE  lastAlert'[j] - lastAlert[j] >= Window
      BY DEF vars
    <2>1. PICK k \in Keys : ShouldAlert(k)
      BY DEF Next, Tick
    <2> QED BY <2>1, CallFacts
  <1> QED BY <1>1, CacheIsFaithful, PTL DEF Spec, AlertsAreWindowApart

\* A finding is suppressed only by an alert for its own key less than a window
\* before (should_alert returning false).
THEOREM SuppressionIsJustified == Spec => []SuppressionJustified
  <1>1. Init => SuppressionJustified
    BY DEF Init, SuppressionJustified
  <1>2. CacheInv /\ SuppressionJustified /\ [Next]_vars => SuppressionJustified'
    <2> SUFFICES ASSUME CacheInv, SuppressionJustified, [Next]_vars
                 PROVE  SuppressionJustified'
      OBVIOUS
    <2>1. ASSUME NEW k \in Keys, ShouldAlert(k)
          PROVE  SuppressionJustified'
      <3> SUFFICES ASSUME ~verdict'.alert
                   PROVE  /\ verdict'.key \in DOMAIN lastAlert'
                          /\ lastCall' - lastAlert'[verdict'.key] < Window
        BY DEF SuppressionJustified
      <3>1. PICK t \in lastCall..now :
              /\ lastAlert' = IF ~InWindow(Pruned(seen, t), k) THEN Insert(lastAlert, k, now) ELSE lastAlert
              /\ verdict' = [key |-> k, alert |-> ~InWindow(Pruned(seen, t), k)]
              /\ lastCall' = now
        BY <2>1 DEF ShouldAlert
      <3>2. InWindow(Pruned(seen, t), k)
        BY <3>1
      <3>3. InWindow(seen, k)
        BY <3>2, PruningIsInvisible DEF CacheInv
      <3> QED BY <3>1, <3>2, <3>3 DEF InWindow, CacheInv, EntriesAreLastAlerts
    <2>2. CASE Tick
      BY <2>2 DEF Tick, SuppressionJustified
    <2>3. CASE UNCHANGED vars
      BY <2>3 DEF vars, SuppressionJustified
    <2> QED BY <2>1, <2>2, <2>3 DEF Next
  <1> QED BY <1>1, <1>2, CacheIsFaithful, PTL DEF Spec

\* With dedup_window_seconds = 0 deduplication is off: no finding is ever
\* suppressed, as the configuration reference promises.
THEOREM ZeroWindowDisablesDedup ==
  Window = 0 => (Spec => [](verdict # NoVerdict => verdict.alert))
  <1> SUFFICES ASSUME Window = 0
               PROVE  Spec => [](verdict # NoVerdict => verdict.alert)
    OBVIOUS
  <1>1. CacheInv /\ SuppressionJustified => (verdict # NoVerdict => verdict.alert)
    <2> SUFFICES ASSUME CacheInv, SuppressionJustified, verdict # NoVerdict, ~verdict.alert
                 PROVE  FALSE
      OBVIOUS
    <2>1. verdict.key \in DOMAIN lastAlert /\ lastCall - lastAlert[verdict.key] < 0
      BY DEF SuppressionJustified
    <2> QED BY <2>1 DEF CacheInv, TypeOK
  <1> QED BY <1>1, CacheIsFaithful, SuppressionIsJustified, PTL

---------------------------------------------------------------------------
\* Beyond PRUNE_THRESHOLD + 1 entries the map holds live ones only: what bounds
\* the cache is the number of distinct findings per window.
THEOREM CacheBoundedByLiveKeys == Spec => []OverflowIsAllLive
  <1>1. Init => OverflowIsAllLive
    BY DEF Init, OverflowIsAllLive
  <1>2. CacheInv /\ OverflowIsAllLive /\ [Next]_vars => OverflowIsAllLive'
    <2> SUFFICES ASSUME CacheInv, OverflowIsAllLive, [Next]_vars
                 PROVE  OverflowIsAllLive'
      OBVIOUS
    <2>1. ASSUME NEW k \in Keys, ShouldAlert(k)
          PROVE  OverflowIsAllLive'
      <3> SUFFICES ASSUME Cardinality(DOMAIN seen') > PruneThreshold + 1, NEW j \in DOMAIN seen'
                   PROVE  prunedAt' - seen'[j] < Window
        BY DEF OverflowIsAllLive
      <3>1. PICK t \in lastCall..now :
              /\ seen' = Stamp(Pruned(seen, t), k, ~InWindow(Pruned(seen, t), k))
              /\ prunedAt' = t
        BY <2>1 DEF ShouldAlert
      <3> DEFINE kept == Pruned(seen, t)
      <3>2. /\ DOMAIN seen' = DOMAIN kept \/ DOMAIN seen' = DOMAIN kept \cup {k}
            /\ \A x \in DOMAIN seen' : (x \in DOMAIN kept /\ seen'[x] = kept[x]) \/ seen'[x] = now
        BY <3>1 DEF Stamp, Insert
      <3>3. IsFiniteSet(DOMAIN seen) /\ DOMAIN kept \subseteq DOMAIN seen
        BY DedupAssumption, FS_Subset, PrunedFacts DEF CacheInv, TypeOK
      <3>4. IsFiniteSet(DOMAIN kept) /\ Cardinality(DOMAIN kept) \in Nat
        BY <3>3, FS_Subset, FS_CardinalityType
      <3>5. Cardinality(DOMAIN seen') <= Cardinality(DOMAIN kept) + 1
        BY <3>2, <3>4, FS_AddElement
      <3>6. Cardinality(DOMAIN seen') \in Nat
        BY <3>2, <3>4, FS_AddElement, FS_CardinalityType
      <3>7. CASE Cardinality(DOMAIN seen) > PruneThreshold
        <4>1. kept = Retain(seen, t)
          BY <3>7 DEF Pruned
        <4>2. \A x \in DOMAIN kept : kept[x] = seen[x] /\ t - kept[x] < Window
          BY <4>1 DEF Retain
        <4>3. CASE Window = 0
          <5>1. ASSUME NEW x \in DOMAIN kept
                PROVE  FALSE
            <6>1. seen[x] \in 0..lastCall
              BY <3>3, <5>1 DEF CacheInv, TypeOK
            <6>2. t - seen[x] < 0
              BY <4>2, <4>3, <5>1
            <6> QED BY <6>1, <6>2 DEF CacheInv, TypeOK
          <5>2. Cardinality(DOMAIN kept) = 0
            BY <5>1, FS_EmptySet
          <5> QED BY <3>5, <3>6, <5>2, DedupAssumption
        <4>4. CASE Window > 0
          BY <3>1, <3>2, <4>2, <4>4, DedupAssumption DEF CacheInv, TypeOK
        <4> QED BY <4>3, <4>4, DedupAssumption
      <3>8. CASE ~(Cardinality(DOMAIN seen) > PruneThreshold)
        <4>1. kept = seen
          BY <3>8 DEF Pruned
        <4>2. Cardinality(DOMAIN seen) \in Nat
          BY <3>3, FS_CardinalityType
        <4> QED BY <3>5, <3>8, <3>6, <4>1, <4>2, DedupAssumption
      <3> QED BY <3>7, <3>8
    <2>2. CASE Tick
      BY <2>2 DEF Tick, OverflowIsAllLive
    <2>3. CASE UNCHANGED vars
      BY <2>3 DEF vars, OverflowIsAllLive
    <2> QED BY <2>1, <2>2, <2>3 DEF Next
  <1> QED BY <1>1, <1>2, CacheIsFaithful, PTL DEF Spec

---------------------------------------------------------------------------
\* The shared, pruned map behaves as one independent mute timer per key.
THEOREM ImplementsAlertGate == Spec => GateSpec
  <1>1. Init => Gate!Init
    BY DEF Init, Gate!Init, Remaining, InWindow, NoVerdict, Gate!NoVerdict
  <1>2. CacheInv /\ [Next]_vars => [Gate!Next]_(Gate!vars)
    <2> SUFFICES ASSUME CacheInv, [Next]_vars
                 PROVE  [Gate!Next]_(Gate!vars)
      OBVIOUS
    <2>t. /\ now \in Nat /\ Window \in Nat
          /\ \A j \in DOMAIN seen : seen[j] \in Nat /\ seen[j] <= now
      BY DedupAssumption DEF CacheInv, TypeOK
    <2>1. CASE Tick
      <3>1. now' = now + 1 /\ seen' = seen /\ verdict' = verdict
        BY <2>1 DEF Tick
      <3>2. ASSUME NEW j \in Keys
            PROVE  Remaining(j)' = IF Remaining(j) > 0 THEN Remaining(j) - 1 ELSE 0
        BY <2>t, <3>1 DEF Remaining, InWindow
      <3>3. Gate!Elapse
        BY <3>1, <3>2 DEF Gate!Elapse
      <3> QED BY <3>3 DEF Gate!Next
    <2>2. ASSUME NEW k \in Keys, ShouldAlert(k)
          PROVE  Gate!Next
      <3>1. PICK t \in lastCall..now :
              /\ seen' = Stamp(Pruned(seen, t), k, ~InWindow(Pruned(seen, t), k))
              /\ verdict' = [key |-> k, alert |-> ~InWindow(Pruned(seen, t), k)]
              /\ now' = now
        BY <2>2 DEF ShouldAlert
      <3> DEFINE kept == Pruned(seen, t)
      <3>2. \A j \in Keys : InWindow(kept, j) <=> InWindow(seen, j)
        BY PruningIsInvisible DEF CacheInv
      <3>3. \A j \in DOMAIN kept : kept[j] = seen[j]
        BY PrunedFacts
      <3>4. ASSUME NEW j \in Keys, j # k \/ InWindow(seen, k)
            PROVE  Remaining(j)' = Remaining(j)
        <4>1. InWindow(seen, j)' <=> InWindow(kept, j)
          BY <3>1, <3>2, <3>4 DEF Stamp, Insert, InWindow
        <4>2. InWindow(kept, j) => seen'[j] = seen[j]
          BY <3>1, <3>2, <3>3, <3>4 DEF Stamp, Insert, InWindow
        <4> QED BY <3>1, <3>2, <4>1, <4>2 DEF Remaining
      <3>5. CASE InWindow(seen, k)
        <4>1. Remaining(k) > 0
          BY <2>t, <3>5 DEF Remaining, InWindow
        <4>2. Gate!Suppress(k)
          BY <3>1, <3>2, <3>4, <3>5, <4>1 DEF Gate!Suppress
        <4> QED BY <4>2 DEF Gate!Next
      <3>6. CASE ~InWindow(seen, k)
        <4>1. seen' = Insert(kept, k, now) /\ verdict' = [key |-> k, alert |-> TRUE]
          BY <3>1, <3>2, <3>6 DEF Stamp
        <4>2. Remaining(k) = 0
          BY <3>6 DEF Remaining
        <4>3. Remaining(k)' = Window
          BY <2>t, <3>1, <4>1 DEF Remaining, InWindow, Insert
        <4>4. Gate!Alert(k)
          BY <3>4, <4>1, <4>2, <4>3 DEF Gate!Alert
        <4> QED BY <4>4 DEF Gate!Next
      <3> QED BY <3>5, <3>6
    <2>3. CASE UNCHANGED vars
      BY <2>3 DEF vars, Gate!vars, Remaining, InWindow
    <2> QED BY <2>1, <2>2, <2>3 DEF Next
  <1> QED BY <1>1, <1>2, CacheIsFaithful, PTL DEF Spec, GateSpec, Gate!Spec

===========================================================================
