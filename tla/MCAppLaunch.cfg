SPECIFICATION Spec
CONSTANTS
  Launches = {"a", "b"}
  Enumerations <- MCEnumerations
  NoDriver = NoDriver
  CableNames <- MCCableNames
  None = None
  NotFound = NotFound
INVARIANTS SeededOnce FailureMeansRace SpawnsConfirmedOutput DetectedDeviceOpens
PROPERTIES FoundLeadsToReady
