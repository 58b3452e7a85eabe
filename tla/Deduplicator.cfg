\* Window 2 over 6 ticks: a key can alert, be muted, expire and alert again
\* three times; three keys are two more than the threshold, so pruning runs
\* with live and with expired entries and the map outgrows the threshold.
CONSTANTS
  Keys = {k1, k2, k3}
  Window = 2
  PruneThreshold = 1
  MaxTime = 6
SPECIFICATION Spec
INVARIANT TypeOK
INVARIANT LiveKeysRemembered
INVARIANT SuppressionJustified
INVARIANT OverflowIsAllLive
PROPERTY AlertsAreWindowApart
PROPERTY GateSpec
