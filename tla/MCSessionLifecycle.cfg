SPECIFICATION RecordingSpec
CONSTANTS
  Handlers = {h1, h2}
  Watchdog = watchdog
  Recovery = recovery
  MayCrash = TRUE
  BoundedProvider = TRUE
SYMMETRY Symmetry
INVARIANT TypeOK
INVARIANT EveryCreateCounted
INVARIANT InstanceKnown
INVARIANT RecordedInstanceVisible
PROPERTY RentalSpec
