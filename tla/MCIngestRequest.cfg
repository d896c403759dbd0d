\* Every body of up to three texts, any of which may be bad.
CONSTANTS
  MaxTexts = 3
  MaxEvents = 2
  ErrorCap = 2
  InputBodies <- MCBodies
SPECIFICATION Spec
CHECK_DEADLOCK FALSE
INVARIANTS
  TypeOK
  NothingUncounted
  StoresTheGoodOnes
  ErrorsPointAtRejections
  BadRowsAreSoft
  AgreesWithReference
PROPERTY
  AlwaysAnswers
