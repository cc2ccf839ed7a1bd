SPECIFICATION Spec
CONSTANTS
  Handlers = {h1, h2}
  Watchdog = watchdog
  Recovery = recovery
INVARIANT TypeOK
PROPERTY RentalSpec
