\* A database that refuses connections: expected to violate the documented behaviour.
CONSTANTS
  podA = podA
  podB = podB
  Pods <- MCPods
  FailureThreshold = 3
  MaxCrashes = 0
SPECIFICATION Spec
PROPERTY
  OutageLeavesService
