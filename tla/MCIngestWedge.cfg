\* A batch with one event whose props is not an object, one with an event that PostgreSQL refuses,
\* and no fault at all.
CONSTANTS
  mixed = mixed
  single = single
  allBad = allBad
  tooMany = tooMany
  typeError = typeError
  unstorable = unstorable
  Batches = {typeError, unstorable}
  Requests = {r1, r2}
  None = None
  Content <- MCContent
  AuthRequired = TRUE
  Credentials = {"known"}
  MaxEvents = 3
  MaxFaults = 0
SPECIFICATION Spec
CHECK_DEADLOCK FALSE
PROPERTY
  NeverWedged
