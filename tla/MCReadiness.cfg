\* Two pods, a database that comes and goes at will, two crashes.
CONSTANTS
  podA = podA
  podB = podB
  Pods <- MCPods
  FailureThreshold = 3
  MaxCrashes = 2
SPECIFICATION Spec
INVARIANT
  TypeOK
PROPERTIES
  OutageRestartsNothing
  RecoveryRestoresService
  SilenceLeavesService
