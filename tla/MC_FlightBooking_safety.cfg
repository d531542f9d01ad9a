SPECIFICATION Spec
CONSTANTS
  r1 = r1
  r2 = r2
  r3 = r3
  r4 = r4
  r5 = r5
  p1 = p1
  p2 = p2
  Creators = {r1, r2}
  Cancellers = {r3, r4}
  Approvers = {r5}
  Passengers = {p1}
  CrashAllowed = TRUE
  AdapterKinds <- MCAdapters
  Sales <- MCSales
SYMMETRY RequestSymmetry
INVARIANTS
  TypeOK
  OneBookingPerKey
  NoMoneyBeforeConfirmation
  RefundsFollowCancellations
  SupplierReleasedFirst
  NoTicketBeforeApproval
PROPERTIES
  MovesByStateMachine
CHECK_DEADLOCK FALSE
