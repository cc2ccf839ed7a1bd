SPECIFICATION Spec
CONSTANTS
  j1 = j1
  j2 = j2
  m = m
  q1 = q1
  q2 = q2
  Jobs = {j1, j2}
  NoJob = NoJob
  Requests = {q1, q2}
  Recovery = recovery
  Dependencies = {m}
  Want <- MCWant
  Polling = FALSE
  MayCrash = FALSE
  MayFail = TRUE
  MaxEvents = 1
INVARIANT TypeOK
INVARIANT ReadyIsIdle
INVARIANT DestroyedIsIdle
INVARIANT InstalledIsProvisioned
CHECK_DEADLOCK FALSE
