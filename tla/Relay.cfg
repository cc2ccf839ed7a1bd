SPECIFICATION FairSpec
CONSTANTS
  Finisher = finisher
  Preparer = preparer
  Size = 2
  Worlds <- MCWorlds
  None = None
INVARIANT TypeOK
INVARIANT VerifiedIsPublished
INVARIANT PublishedIsWhole
INVARIANT SucceededIsPublished
PROPERTY OutputNeverLost
PROPERTY DestroyedAsReviewed
PROPERTY RemoteSuccessArrives
CHECK_DEADLOCK FALSE
