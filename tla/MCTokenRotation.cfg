\* Two rotations, two failed plays, two roll-outs; the image is on the host.
CONSTANTS
  c1 = c1
  c2 = c2
  d1 = d1
  d2 = d2
  Devices <- MCDevices
  Containers <- MCContainers
  MaxTokens = 3
  MaxFailures = 2
  MaxPushes = 2
  ImageMayBeMissing = FALSE
SPECIFICATION Spec
CHECK_DEADLOCK FALSE
INVARIANTS
  TypeOK
  OnlyLaggardsPause
  RetiredIsRefused
PROPERTY
  RotationFinishes
