------------------------------ MODULE HajjUmrah ------------------------------
(***************************************************************************)
(* One Hajj/Umrah departure and the bookings against it: HajjUmrahService  *)
(* (createBooking, addPayment, updatePackage, applyPaymentResult) with the *)
(* Hajj/Umrah part of PaymentsService.  Seats are reserved in a            *)
(* transaction that reads the package without a lock and increments        *)
(* seatsBooked atomically; the deposit and every instalment are charged    *)
(* outside it, each under an idempotency key of its own, and then added to *)
(* the booking by reading amountPaid and writing it back.                  *)
(*                                                                         *)
(* A scenario says what each request asks for: to book (with an amount, or *)
(* 0 for none sent), to pay an instalment, or to update the package.  Two  *)
(* requests with one key are a retry.                                      *)
(***************************************************************************)
EXTENDS Integers, Totals

CONSTANTS
  Pilgrimages,     \* the bookings' idempotency keys
  InstalmentKeys,  \* the idempotency keys of instalments
  HajjThreads,     \* the requests
  Scenarios,       \* what they may ask for: functions of the requests
  Price,           \* the package's price per pilgrim when the run starts
  Deposit,         \* its deposit rule: [type, value]
  Capacity,        \* its capacity when the run starts
  HajjCrashAllowed

\* The key of a booking's deposit, `<key>:deposit`, stands for the booking key.
PaymentKeys == Pilgrimages \cup InstalmentKeys

\* Amounts are whole numbers of the currency's smallest unit.
HajjRequest ==
  [op : {"book"}, booking : Pilgrimages, pilgrims : Nat \ {0}, amount : Nat]
    \cup [op : {"pay"}, booking : Pilgrimages, key : InstalmentKeys, amount : Nat \ {0}]
    \cup [op : {"update"}, capacity : Nat, price : Nat \ {0}]

ASSUME HajjAssumption ==
  /\ IsFiniteSet(PaymentKeys) /\ IsFiniteSet(HajjThreads)
  /\ Pilgrimages \cap InstalmentKeys = {} /\ "none" \notin Pilgrimages
  /\ \A scenario \in Scenarios : \A t \in HajjThreads : scenario[t] \in HajjRequest
  /\ Price \in Nat \ {0} /\ Capacity \in Nat
  /\ Deposit.type \in {"PERCENTAGE", "FIXED"} /\ Deposit.value \in Nat
  /\ HajjCrashAllowed \in BOOLEAN

VARIABLES
  ask,           \* ask[t]: what request t sends, fixed by the scenario
  capacity, seatsBooked, price, active,   \* the package row
  pilgrimage,    \* pilgrimage[b]: the booking row with key b, or NoBookingRow
  hajjPayment,   \* hajjPayment[k]: the payment row with key k, or NoPayment
  hajjCharges,   \* hajjCharges[k]: how often the provider charged for key k
  hajjPc,        \* the request threads
  hajjRead,      \* hajjRead[t]: the price or the amountPaid that t has read
  \* History: what happened that the accounts are not safe against.
  seatsOverlap,  \* seats were read while another request was about to write them
  accountOverlap,\* two payments of one booking were under way at a time
  replayed,      \* a payment found by its key was applied again
  hajjCrashed    \* a request died, or the provider's answer got lost

package == <<ask, capacity, seatsBooked, price, active>>
hajjFlags == <<seatsOverlap, accountOverlap, replayed, hajjCrashed>>
hajjVars == <<package, pilgrimage, hajjPayment, hajjCharges, hajjPc, hajjRead, hajjFlags>>

Bookers == {t \in HajjThreads : ask[t].op = "book"}
Payers == {t \in HajjThreads : ask[t].op = "pay"}
Admins == {t \in HajjThreads : ask[t].op = "update"}
Customers == Bookers \cup Payers
PaymentKey(t) == IF t \in Bookers THEN ask[t].booking ELSE ask[t].key

NoBookingRow == [pilgrims |-> 0, total |-> 0, minimum |-> 0, amountPaid |-> 0, status |-> "none"]
NoPayment == [booking |-> "none", amount |-> 0, status |-> "none"]

-----------------------------------------------------------------------------
(* calculateMinimumDeposit and computeStatus.                              *)

\* round2 of a percentage, half up.
PercentOf(amount, percent) == (amount * percent + 50) \div 100

MinimumDeposit(bookingTotal, pilgrims) ==
  IF Deposit.type = "PERCENTAGE" THEN PercentOf(bookingTotal, Deposit.value)
                                 ELSE Deposit.value * pilgrims

ComputeStatus(amountPaid, minimum, total) ==
  IF amountPaid <= 0 THEN "PENDING_DEPOSIT"
  ELSE IF amountPaid >= total THEN "FULLY_PAID"
  ELSE IF amountPaid = minimum THEN "DEPOSIT_PAID"
  ELSE "PARTIALLY_PAID"

-----------------------------------------------------------------------------
HajjInit ==
  /\ ask \in Scenarios
  /\ capacity = Capacity
  /\ seatsBooked = 0
  /\ price = Price
  /\ active = TRUE
  /\ pilgrimage = [b \in Pilgrimages |-> NoBookingRow]
  /\ hajjPayment = [k \in PaymentKeys |-> NoPayment]
  /\ hajjCharges = [k \in PaymentKeys |-> 0]
  /\ hajjPc = [t \in HajjThreads |-> "start"]
  /\ hajjRead = [t \in HajjThreads |-> 0]
  /\ seatsOverlap = FALSE
  /\ accountOverlap = FALSE
  /\ replayed = FALSE
  /\ hajjCrashed = FALSE

HajjGoto(t, next) == hajjPc' = [hajjPc EXCEPT ![t] = next]
HajjEnd(t) ==
  /\ HajjGoto(t, "done")
  /\ hajjRead' = [hajjRead EXCEPT ![t] = 0]

\* t has read the package's seats and not yet written.
AboutToWriteSeats(t) == hajjPc[t] \in {"reserve", "resize"}

\* t is paying for its booking.
Paying(t) ==
  hajjPc[t] \in {"findPayment", "insertPayment", "charge", "recordPaid", "recordFailed",
                 "readAccount", "writeAccount"}

\* The next payment of booking b starts while another one is under way.
NoteAccount(t) ==
  accountOverlap' =
    (accountOverlap \/ \E u \in Customers \ {t} : Paying(u) /\ ask[u].booking = ask[t].booking)

-----------------------------------------------------------------------------
(* createBooking                                                           *)

\* A booking with this key is returned as it is, paid or not.
HajjLookUp(t) ==
  /\ t \in Bookers
  /\ hajjPc[t] = "start"
  /\ HajjGoto(t, IF pilgrimage[ask[t].booking] = NoBookingRow THEN "readPackage" ELSE "done")
  /\ UNCHANGED <<package, pilgrimage, hajjPayment, hajjCharges, hajjRead, hajjFlags>>

\* The transaction's read of the package, with its checks.
ReadPackage(t) ==
  LET total == price * ask[t].pilgrims
  IN /\ hajjPc[t] = "readPackage"
     /\ active
     /\ seatsBooked + ask[t].pilgrims <= capacity
     /\ ask[t].amount > 0 => ask[t].amount >= MinimumDeposit(total, ask[t].pilgrims)
     /\ HajjGoto(t, "reserve")
     /\ hajjRead' = [hajjRead EXCEPT ![t] = price]
     /\ seatsOverlap' = (seatsOverlap \/ \E u \in HajjThreads : AboutToWriteSeats(u))
     /\ UNCHANGED <<package, pilgrimage, hajjPayment, hajjCharges,
                    accountOverlap, replayed, hajjCrashed>>

\* One of those checks fails, or the package has departed, or the account has
\* no profile.
RefuseBooking(t) ==
  /\ hajjPc[t] = "readPackage"
  /\ HajjEnd(t)
  /\ UNCHANGED <<package, pilgrimage, hajjPayment, hajjCharges, hajjFlags>>

BookingRow(t) ==
  LET total == hajjRead[t] * ask[t].pilgrims
  IN [pilgrims |-> ask[t].pilgrims, total |-> total,
      minimum |-> MinimumDeposit(total, ask[t].pilgrims),
      amountPaid |-> 0, status |-> "PENDING_DEPOSIT"]

\* Mutant: the seats stay incremented when the key conflicts.
ReserveKeepsSeats(t) ==
  /\ hajjPc[t] = "reserve"
  /\ seatsBooked' = seatsBooked + ask[t].pilgrims
  /\ IF pilgrimage[ask[t].booking] = NoBookingRow
     THEN /\ pilgrimage' = [pilgrimage EXCEPT ![ask[t].booking] = BookingRow(t)]
          /\ HajjGoto(t, "findPayment")
          /\ NoteAccount(t)
     ELSE /\ HajjGoto(t, "done")
          /\ UNCHANGED <<pilgrimage, accountOverlap>>
  /\ hajjRead' = [hajjRead EXCEPT ![t] = 0]
  /\ UNCHANGED <<capacity, price, active, ask, hajjPayment, hajjCharges,
                 seatsOverlap, replayed, hajjCrashed>>

\* The rest of the transaction and its commit: an atomic increment and the
\* booking row.
Reserve(t) ==
  /\ hajjPc[t] = "reserve"
  /\ pilgrimage[ask[t].booking] = NoBookingRow
  /\ seatsBooked' = seatsBooked + ask[t].pilgrims
  /\ pilgrimage' = [pilgrimage EXCEPT ![ask[t].booking] = BookingRow(t)]
  /\ HajjGoto(t, "findPayment")
  /\ hajjRead' = [hajjRead EXCEPT ![t] = 0]
  /\ NoteAccount(t)
  /\ UNCHANGED <<capacity, price, active, ask, hajjPayment, hajjCharges,
                 seatsOverlap, replayed, hajjCrashed>>

\* The unique key rejects the second row, and the increment rolls back.
ReserveConflict(t) ==
  /\ hajjPc[t] = "reserve"
  /\ pilgrimage[ask[t].booking] # NoBookingRow
  /\ HajjEnd(t)
  /\ UNCHANGED <<package, pilgrimage, hajjPayment, hajjCharges, hajjFlags>>

-----------------------------------------------------------------------------
(* addPayment                                                              *)

Remaining(b) == pilgrimage[b].total - pilgrimage[b].amountPaid

\* The booking is loaded: a fully paid one and an amount above what remains
\* are refused.  (CANCELLED is refused too; nothing ever writes it.)
LoadForPayment(t) ==
  /\ t \in Payers
  /\ hajjPc[t] = "start"
  /\ pilgrimage[ask[t].booking] # NoBookingRow
  /\ IF /\ pilgrimage[ask[t].booking].status # "FULLY_PAID"
        /\ ask[t].amount <= Remaining(ask[t].booking)
     THEN HajjGoto(t, "findPayment") /\ NoteAccount(t)
     ELSE HajjGoto(t, "done") /\ UNCHANGED accountOverlap
  /\ UNCHANGED <<package, pilgrimage, hajjPayment, hajjCharges, hajjRead,
                 seatsOverlap, replayed, hajjCrashed>>

-----------------------------------------------------------------------------
(* chargeForHajjUmrahBooking                                               *)

ChargeAmount(t) ==
  IF t \in Bookers /\ ask[t].amount = 0
  THEN pilgrimage[ask[t].booking].minimum ELSE ask[t].amount

\* A payment with this key is returned as it is; the caller applies it.
FindPayment(t) ==
  LET existing == hajjPayment[PaymentKey(t)]
  IN /\ hajjPc[t] = "findPayment"
     /\ HajjGoto(t, CASE existing = NoPayment -> "insertPayment"
                      [] existing.status = "PAID" -> "readAccount"
                      [] OTHER -> "done")
     /\ replayed' = (replayed \/ existing # NoPayment)
     /\ UNCHANGED <<package, pilgrimage, hajjPayment, hajjCharges, hajjRead,
                    seatsOverlap, accountOverlap, hajjCrashed>>

InsertPayment(t) ==
  /\ hajjPc[t] = "insertPayment"
  /\ hajjPayment[PaymentKey(t)] = NoPayment
  /\ hajjPayment' = [hajjPayment EXCEPT ![PaymentKey(t)] =
       [booking |-> ask[t].booking, amount |-> ChargeAmount(t), status |-> "PENDING"]]
  /\ HajjGoto(t, "charge")
  /\ UNCHANGED <<package, pilgrimage, hajjCharges, hajjRead, hajjFlags>>

\* The unique payment key rejects the second of two inserts.
PaymentConflict(t) ==
  /\ hajjPc[t] = "insertPayment"
  /\ hajjPayment[PaymentKey(t)] # NoPayment
  /\ HajjEnd(t)
  /\ UNCHANGED <<package, pilgrimage, hajjPayment, hajjCharges, hajjFlags>>

\* provider.charge succeeds or fails, or charges and its answer is lost: an
\* error reads as FAILED.
ProviderCharges(t) ==
  LET Charge == hajjCharges' = [hajjCharges EXCEPT ![PaymentKey(t)] = @ + 1]
  IN /\ hajjPc[t] = "charge"
     /\ \/ Charge /\ HajjGoto(t, "recordPaid") /\ UNCHANGED hajjCrashed
        \/ HajjGoto(t, "recordFailed") /\ UNCHANGED <<hajjCharges, hajjCrashed>>
        \/ /\ HajjCrashAllowed
           /\ Charge
           /\ HajjGoto(t, "recordFailed")
           /\ hajjCrashed' = TRUE
     /\ UNCHANGED <<package, pilgrimage, hajjPayment, hajjRead,
                    seatsOverlap, accountOverlap, replayed>>

\* Mutants: a failed charge keeps no status of its own; the request ends with
\* the payment's record, the booking is not told.
RecordRawCharge(t) ==
  /\ hajjPc[t] \in {"recordPaid", "recordFailed"}
  /\ hajjPayment' = [hajjPayment EXCEPT ![PaymentKey(t)].status = hajjPc[t]]
  /\ HajjGoto(t, "readAccount")
  /\ UNCHANGED <<package, pilgrimage, hajjCharges, hajjRead, hajjFlags>>

RecordAndStop(t) ==
  /\ hajjPc[t] \in {"recordPaid", "recordFailed"}
  /\ hajjPayment' = [hajjPayment EXCEPT ![PaymentKey(t)].status =
                       IF hajjPc[t] = "recordPaid" THEN "PAID" ELSE "FAILED"]
  /\ HajjEnd(t)
  /\ UNCHANGED <<package, pilgrimage, hajjCharges, hajjFlags>>

RecordCharge(t) ==
  /\ hajjPc[t] \in {"recordPaid", "recordFailed"}
  /\ hajjPayment' = [hajjPayment EXCEPT ![PaymentKey(t)].status =
                       IF hajjPc[t] = "recordPaid" THEN "PAID" ELSE "FAILED"]
  /\ HajjGoto(t, "readAccount")
  /\ UNCHANGED <<package, pilgrimage, hajjCharges, hajjRead, hajjFlags>>

-----------------------------------------------------------------------------
(* applyPaymentResult                                                      *)

\* A payment that is not PAID leaves the booking as it is.
ReadAccount(t) ==
  /\ hajjPc[t] = "readAccount"
  /\ IF hajjPayment[PaymentKey(t)].status = "PAID"
     THEN /\ HajjGoto(t, "writeAccount")
          /\ hajjRead' = [hajjRead EXCEPT ![t] = pilgrimage[ask[t].booking].amountPaid]
     ELSE HajjEnd(t)
  /\ UNCHANGED <<package, pilgrimage, hajjPayment, hajjCharges, hajjFlags>>

\* Mutant: the booking's amount is replaced, not increased.
WriteLastAmount(t) ==
  LET b == ask[t].booking
      paid == hajjPayment[PaymentKey(t)].amount
  IN /\ hajjPc[t] = "writeAccount"
     /\ pilgrimage' = [pilgrimage EXCEPT ![b].amountPaid = paid,
          ![b].status = ComputeStatus(paid, pilgrimage[b].minimum, pilgrimage[b].total)]
     /\ HajjEnd(t)
     /\ UNCHANGED <<package, hajjPayment, hajjCharges, hajjFlags>>

WriteAccount(t) ==
  LET b == ask[t].booking
      paid == hajjRead[t] + hajjPayment[PaymentKey(t)].amount
  IN /\ hajjPc[t] = "writeAccount"
     /\ pilgrimage' = [pilgrimage EXCEPT ![b].amountPaid = paid,
          ![b].status = ComputeStatus(paid, pilgrimage[b].minimum, pilgrimage[b].total)]
     /\ HajjEnd(t)
     /\ UNCHANGED <<package, hajjPayment, hajjCharges, hajjFlags>>

-----------------------------------------------------------------------------
(* updatePackage                                                           *)

\* Mutant: the new capacity is not compared with the seats booked.
ReadForResizeUnchecked(t) ==
  /\ t \in Admins
  /\ hajjPc[t] = "start"
  /\ HajjGoto(t, "resize")
  /\ seatsOverlap' = (seatsOverlap \/ \E u \in HajjThreads : AboutToWriteSeats(u))
  /\ UNCHANGED <<package, pilgrimage, hajjPayment, hajjCharges, hajjRead,
                 accountOverlap, replayed, hajjCrashed>>

\* The package is read: a capacity below the seats booked is refused.
ReadForResize(t) ==
  /\ t \in Admins
  /\ hajjPc[t] = "start"
  /\ HajjGoto(t, IF ask[t].capacity >= seatsBooked THEN "resize" ELSE "done")
  /\ seatsOverlap' = (seatsOverlap \/ \E u \in HajjThreads : AboutToWriteSeats(u))
  /\ UNCHANGED <<package, pilgrimage, hajjPayment, hajjCharges, hajjRead,
                 accountOverlap, replayed, hajjCrashed>>

\* An update that leaves the capacity out compares nothing with it.
Reprice(t) ==
  /\ t \in Admins
  /\ hajjPc[t] = "start"
  /\ price' \in {price, ask[t].price}
  /\ active' \in BOOLEAN
  /\ HajjEnd(t)
  /\ UNCHANGED <<capacity, seatsBooked, ask, pilgrimage, hajjPayment, hajjCharges, hajjFlags>>

Resize(t) ==
  /\ hajjPc[t] = "resize"
  /\ capacity' = ask[t].capacity
  /\ price' \in {price, ask[t].price}
  /\ active' \in BOOLEAN
  /\ HajjEnd(t)
  /\ UNCHANGED <<seatsBooked, ask, pilgrimage, hajjPayment, hajjCharges, hajjFlags>>

-----------------------------------------------------------------------------
\* The process dies; a transaction that has not committed leaves nothing.
HajjCrash(t) ==
  /\ HajjCrashAllowed
  /\ hajjPc[t] \notin {"start", "done"}
  /\ HajjEnd(t)
  /\ hajjCrashed' = TRUE
  /\ UNCHANGED <<package, pilgrimage, hajjPayment, hajjCharges,
                 seatsOverlap, accountOverlap, replayed>>

HajjStep(t) ==
  \/ HajjLookUp(t) \/ ReadPackage(t) \/ RefuseBooking(t)
  \/ Reserve(t) \/ ReserveConflict(t)
  \/ LoadForPayment(t)
  \/ FindPayment(t) \/ InsertPayment(t) \/ PaymentConflict(t)
  \/ ProviderCharges(t) \/ RecordCharge(t)
  \/ ReadAccount(t) \/ WriteAccount(t)
  \/ ReadForResize(t) \/ Resize(t) \/ Reprice(t)

HajjNext == \E t \in HajjThreads : HajjStep(t) \/ HajjCrash(t)

HajjSpec == HajjInit /\ [][HajjNext]_hajjVars
-----------------------------------------------------------------------------
(* Properties.                                                             *)

PilgrimageStatuses ==
  {"PENDING_DEPOSIT", "DEPOSIT_PAID", "PARTIALLY_PAID", "FULLY_PAID"}
HajjSteps ==
  {"start", "readPackage", "reserve", "findPayment", "insertPayment", "charge",
   "recordPaid", "recordFailed", "readAccount", "writeAccount", "resize", "done"}

HajjTypeOK ==
  /\ ask \in Scenarios
  /\ capacity \in Nat /\ seatsBooked \in Nat /\ price \in Nat \ {0} /\ active \in BOOLEAN
  /\ pilgrimage \in
       [Pilgrimages -> [pilgrims : Nat, total : Nat, minimum : Nat, amountPaid : Nat,
                        status : PilgrimageStatuses] \cup {NoBookingRow}]
  /\ hajjPayment \in
       [PaymentKeys -> [booking : Pilgrimages, amount : Nat,
                        status : {"PENDING", "PAID", "FAILED"}] \cup {NoPayment}]
  /\ hajjCharges \in [PaymentKeys -> Nat]
  /\ hajjPc \in [HajjThreads -> HajjSteps]
  /\ hajjRead \in [HajjThreads -> Nat]
  /\ seatsOverlap \in BOOLEAN /\ accountOverlap \in BOOLEAN
  /\ replayed \in BOOLEAN /\ hajjCrashed \in BOOLEAN

\* Whatever overlaps, is retried or dies, seatsBooked counts exactly the
\* pilgrims of the bookings that exist: the atomic increment commits with its
\* row or not at all.
SeatsAreBookings ==
  seatsBooked = Total([b \in Pilgrimages |-> pilgrimage[b].pilgrims], Pilgrimages)

\* createBooking's comment accepts that two bookings for the last seats may
\* overbook; unless requests on the seats overlap, a package is never
\* overbooked, also when its capacity is lowered.
NeverOverbooked ==
  ~seatsOverlap => seatsBooked <= capacity

\* What the package's seats promise, and that every step of the code keeps it
\* until two requests overlap.
Pool == INSTANCE SeatPool WITH places <- capacity, taken <- seatsBooked

ImplementsSeatPool ==
  [][Pool!PoolNext \/ seatsOverlap']_<<capacity, seatsBooked>>

\* "each call still only ever charges once per its own idempotencyKey"
\* (payments.service.ts, chargeForHajjUmrahBooking), however often and however
\* close together it is repeated.
EachKeyChargedOnce ==
  \A k \in PaymentKeys : hajjCharges[k] <= 1

PaymentsOf(b) == {k \in PaymentKeys : hajjPayment[k].booking = b}
Paid(k) == hajjPayment[k].status = "PAID"
Charged(k) == hajjPayment[k].amount * hajjCharges[k]
PaidInto(b) ==
  Total([k \in PaymentKeys |-> IF k \in PaymentsOf(b) /\ Paid(k) THEN hajjPayment[k].amount ELSE 0],
        PaymentKeys)
ChargedFor(b) ==
  Total([k \in PaymentKeys |-> IF k \in PaymentsOf(b) THEN Charged(k) ELSE 0], PaymentKeys)

\* When no payment of a booking is under way, its amountPaid is the sum of its
\* PAID payments - unless two payments overlapped, a request died or a payment
\* was repeated with its key.
HajjAccountsAgree ==
  ~accountOverlap /\ ~replayed /\ ~hajjCrashed =>
    \A b \in Pilgrimages :
      (\A t \in Customers : Paying(t) => ask[t].booking # b)
        => pilgrimage[b].amountPaid = PaidInto(b)

\* A booking is FULLY_PAID only when the provider has charged its whole total.
\* The code does not keep this: see the violation run.
FullyPaidMeansCharged ==
  \A b \in Pilgrimages :
    pilgrimage[b].status = "FULLY_PAID" => ChargedFor(b) >= pilgrimage[b].total

\* It holds until a payment is repeated with its key, also when payments
\* overlap (an update is lost, never invented) or a request dies.
FullyPaidMeansChargedOnce == ~replayed => FullyPaidMeansCharged

\* Instalments are refused beyond the remaining balance: unless payments of a
\* booking overlap, a request dies or the provider's answer is lost, a booking
\* whose deposit was within its total is never charged more than its total.
NeverChargedBeyondTotal ==
  ~accountOverlap /\ ~hajjCrashed =>
    \A b \in Pilgrimages :
      (\A k \in PaymentsOf(b) \cap Pilgrimages : hajjPayment[k].amount <= pilgrimage[b].total)
        => ChargedFor(b) <= pilgrimage[b].total

\* Money once charged is counted on the booking, unless a request died, the
\* provider's answer was lost or an overlapping payment overwrote it.
ChargedMoneyIsCounted ==
  \A k \in PaymentKeys :
    hajjCharges[k] > 0
      ~> \/ hajjCrashed \/ accountOverlap
         \/ /\ hajjPayment[k].status = "PAID"
            /\ pilgrimage[hajjPayment[k].booking].amountPaid >= hajjPayment[k].amount

\* The charges, the payment rows and the account of every pilgrimage agree, as
\* far as overlapping, dying and repeated requests let them.
HajjMoneySound ==
  /\ EachKeyChargedOnce
  /\ HajjAccountsAgree
  /\ FullyPaidMeansChargedOnce
  /\ NeverChargedBeyondTotal
=============================================================================
