SPECIFICATION FairSpec
CONSTANTS
  Handlers = {h1, h2}
  Refresher = h2
  Watchdog = watchdog
  Recovery = recovery
  MayCrash = TRUE
  BoundedProvider = TRUE
PROPERTY DestructionSettles
PROPERTY BootSettles
