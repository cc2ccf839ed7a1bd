SPECIFICATION Spec
CONSTANTS
  Manifests <- MCManifests
  LocalFiles <- MCLocalFiles
  NoManifest = NoManifest
  MaxFaults = 2
  j1 = j1
  j2 = j2
  Jobs = {j1, j2}
  Uses <- MCUses
  NoJob = NoJob
  MaxEvents = 1
INVARIANT TypeOK
INVARIANT RestartBudget
INVARIANT RunsOnce
INVARIANT NoOrphan
 
PROPERTY OutcomeIsFinal
SYMMETRY JobSymmetry
CHECK_DEADLOCK FALSE
