SPECIFICATION Spec
CONSTANTS
  r1 = r1
  r2 = r2
  r3 = r3
  r4 = r4
  r5 = r5
  p1 = p1
  p2 = p2
  Creators = {r1}
  Cancellers = {r2, r3}
  Approvers = {}
  Passengers = {p1}
  CrashAllowed = FALSE
  AdapterKinds <- MCAdapters
  Sales <- CardSale
INVARIANTS
  NeverRefundMoreThanCharged
CHECK_DEADLOCK FALSE
