\* Two loops share the dispatcher; two batches of two findings let both send the
\* same key, one after the other and at once; the window of 1 can end while a call is
\* under way; one reload between any two steps.
CONSTANTS
  k1 = k1
  k2 = k2
  Loops = {l1, l2}
  Keys = {k1, k2}
  Alerts <- MCAlerts
  Routes <- MCRoutes
  Batches <- MCBatches
  MaxBatches = 2
  Window = 1
  PruneThreshold = 1
  MaxTime = 1
SPECIFICATION FairSpec
INVARIANT TypeOK
 
INVARIANT OneAlertInFlight
PROPERTY FanOutIsComplete
PROPERTY OnlyUntimedCallsHoldUp
CHECK_DEADLOCK FALSE
