\* A batch to store, one the API refuses and one PostgreSQL refuses in the middle of the INSERT:
\* overlapping attempts, two faults of any kind.
CONSTANTS
  mixed = mixed
  single = single
  allBad = allBad
  tooMany = tooMany
  typeError = typeError
  unstorable = unstorable
  Batches = {mixed, tooMany, unstorable}
  Requests = {r1, r2, r3}
  None = None
  Content <- MCContent
  AuthRequired = TRUE
  Credentials = {"known", "missing"}
  MaxEvents = 3
  MaxFaults = 2
SPECIFICATION SafeSpec
CHECK_DEADLOCK FALSE
SYMMETRY RequestSymmetry
INVARIANTS
  TypeOK
  DeletedIsStored
  DroppedIsNowhere
  DuplicatesOnlyInDoubt
PROPERTIES
  WholeBatchAtOnce
  ImplementsDelivery
