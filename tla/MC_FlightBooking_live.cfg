SPECIFICATION FairSpec
CONSTANTS
  r1 = r1
  r2 = r2
  r3 = r3
  r4 = r4
  r5 = r5
  p1 = p1
  p2 = p2
  Creators = {r1, r2}
  Cancellers = {r3}
  Approvers = {r4}
  Passengers = {p1, p2}
  CrashAllowed = FALSE
  AdapterKinds <- MCAdapters
  Sales <- MCSales
PROPERTIES
  EveryRequestEnds
  RefundsSettle
CHECK_DEADLOCK FALSE
