SPECIFICATION FairSpec
CONSTANTS
  MaxDeadline = 4
  Grace = 1
  NoLimit = NoLimit
  None = None
  Requests = {q1}
  Refresh = refresh
  Recovery = recovery
  FirstLimit = 2
INVARIANT TypeOK
INVARIANT DeleteIsDue
INVARIANT ReadyIsArmed
INVARIANT NeverEarly
INVARIANT BothEnforce
PROPERTY IntentIsFinal
PROPERTY ExpiryDestroys
CHECK_DEADLOCK FALSE
