\* Every initial table, inserts of any age between the statements of a request or a scan.
CONSTANTS
  e1 = e1
  e2 = e2
  e3 = e3
  e4 = e4
  e5 = e5
  e6 = e6
  Events = {e1, e2, e3, e4, e5, e6}
  Ts <- MCTs
  Matching <- MCMatching
  Limit = 2
  Value <- MCValue
  KindOf <- MCKindOf
  Since = 2
  Width = 3
SPECIFICATION QuerySpec
CHECK_DEADLOCK FALSE
INVARIANTS
  TypeOK
  PagesInOrder
  ScanMissesNothing
  FacetsSelectSomething
  StatisticsAddUp
