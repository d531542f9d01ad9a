SPECIFICATION SerialSpec
CONSTANTS
  a1 = a1
  a2 = a2
  k1 = k1
  k2 = k2
  k3 = k3
  k4 = k4
  NoInput = NoInput
  w1 = w1
  w2 = w2
  Agencies = {a1, a2}
  Keys = {k1, k2, k3, k4}
  Workers = {w1, w2}
  Amounts <- MCAmounts
  CreditTerms <- MCCreditTerms
  Requests <- MCRequests
INVARIANTS
  SerialLedgerSound
PROPERTIES
  ImplementsLedger
