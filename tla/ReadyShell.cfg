SPECIFICATION ShellSpec
CONSTANTS
  Devices = {d1}
  None = None
  Sides = {"input", "vout"}
  ErrCap = 1
  MaxInFlight = 2
INVARIANTS
  TypeOK
  SelectionApplied
  ResourcesAgree
  BannerTellsFault
  DismissedMeansUnderway
  MirrorAhead
PROPERTIES
  DismissalEnds
  FaultReported
  CloseEnds
  LifecycleSpec
CHECK_DEADLOCK FALSE
