\* A JSON array that contains a newline: expected to violate the documented behaviour.
CONSTANTS
  MaxTexts = 2
  MaxEvents = 2
  ErrorCap = 2
  InputBodies <- MCBodies
SPECIFICATION Spec
CHECK_DEADLOCK FALSE
INVARIANT
  JsonDocumentAccepted
