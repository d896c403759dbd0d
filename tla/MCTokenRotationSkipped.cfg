\* The host may lack the image of api_image_tag, and the pull may fail.
CONSTANTS
  c1 = c1
  c2 = c2
  d1 = d1
  d2 = d2
  Devices <- MCDevices
  Containers <- MCContainers
  MaxTokens = 3
  MaxFailures = 2
  MaxPushes = 2
  ImageMayBeMissing = TRUE
SPECIFICATION Spec
CHECK_DEADLOCK FALSE
INVARIANT
  PlayPutsTokensInForce
