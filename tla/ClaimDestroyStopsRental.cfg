SPECIFICATION Spec
CONSTANTS
  Handlers = {h1}
  Watchdog = watchdog
  Recovery = recovery
  MayCrash = FALSE
  BoundedProvider = TRUE
PROPERTY NoRentalAfterDestroyRequest
