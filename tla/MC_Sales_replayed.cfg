SPECIFICATION MCSpec
CONSTANTS
  HotelCreators = {r1, r2}
  HotelCancellers = {x1, x2}
  HotelBuyers = {"customer", "agent"}
  HotelReleasable = {TRUE, FALSE}
  HotelCrashAllowed = TRUE
  Packagers = {g1, g2}
  FlightLegs = {l1}
  HotelLegs = {h1, h2}
  b1 = b1
  b2 = b2
  t1 = t1
  t2 = t2
  t3 = t3
  k1 = k1
  k2 = k2
  Pilgrimages = {b1, b2}
  InstalmentKeys = {k1, k2}
  HajjThreads = {t1, t2, t3}
  Scenarios <- MCScenarios
  Price = 4
  Deposit <- MCDeposit
  Capacity = 2
  HajjCrashAllowed = TRUE
INVARIANT
  FullyPaidMeansCharged
CHECK_DEADLOCK FALSE
