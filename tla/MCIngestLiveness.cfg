\* Fairness: a batch to store and one the API refuses are settled, a fault and a wrong token
\* notwithstanding.
CONSTANTS
  mixed = mixed
  single = single
  allBad = allBad
  tooMany = tooMany
  typeError = typeError
  unstorable = unstorable
  Batches = {mixed, tooMany}
  Requests = {r1, r2, r3}
  None = None
  Content <- MCContent
  AuthRequired = TRUE
  Credentials = {"unknown"}
  MaxEvents = 3
  MaxFaults = 1
SPECIFICATION Spec
CHECK_DEADLOCK FALSE
PROPERTIES
  EveryBatchSettles
  DeliversWhatItPromises
