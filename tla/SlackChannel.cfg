CONSTANTS
  Senders = {s1, s2}
  BatchSize = 2
  MaxRetries = 1
  MaxFindings = 4
SPECIFICATION FairSpec
INVARIANT TypeOK
INVARIANT OnePlaceEach
INVARIANT TimerMeansWaiting
INVARIANT MessageIsBounded
INVARIANT NeverPostedTwice
PROPERTY BufferedIsSettled
CHECK_DEADLOCK FALSE
