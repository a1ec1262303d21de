SPECIFICATION FairSpec
CONSTANTS
  MaxOffset = 2
  MaxSessions = 2
  MaxUpsets = 2
  Unset = Unset
INVARIANTS OneReader LostOnlyInHand RepeatsOnlyAfterUpsets ThreadLives
PROPERTY EveryRequestHandled
