---------------------------- MODULE HotelBooking ----------------------------
(***************************************************************************)
(* One hotel booking, from the requests that ask for it to its refund:     *)
(* HotelsService (createBooking, cancelBooking) with the hotel half of     *)
(* PaymentsService.  Unlike a flight booking it has no state machine and   *)
(* no history: each handler checks the status once, when it loads the row, *)
(* and every later UPDATE names the row by its id only.                    *)
(*                                                                         *)
(* hotelPc[r] is what request r does next; each await is a point where     *)
(* other requests run and where r may die, and nothing resumes it.         *)
(***************************************************************************)
EXTENDS Naturals, FiniteSets

CONSTANTS
  HotelCreators,      \* createBooking requests with the booking's idempotency key
  HotelCancellers,    \* cancelBooking requests of users allowed to cancel it
  HotelBuyers,        \* who may ask: an agent pays by wallet, the others by card
  HotelReleasable,    \* what there may be to ask for a release, see hotelReleasable
  HotelCrashAllowed   \* whether a request may die half way

ASSUME HotelAssumption ==
  /\ IsFiniteSet(HotelCreators \cup HotelCancellers)
  /\ HotelCreators \cap HotelCancellers = {}
  /\ HotelBuyers \subseteq {"customer", "agent", "employee"}
  /\ HotelReleasable \subseteq BOOLEAN
  /\ HotelCrashAllowed \in BOOLEAN

HotelRequests == HotelCreators \cup HotelCancellers

VARIABLES
  \* The booking row and the rows that hang on it.
  hotelStatus,    \* hotel_bookings.status, or "NONE" while there is no row
  hotelPayment,   \* payments.status, or "none"
  hotelLedger,    \* keys of its wallet ledger rows: "debit", "refund"
  hotelRefunds,   \* hotelRefunds[c]: status of the refund row made by c, or "none"
  \* What the hotel supplier and the payment provider did.
  hotelHeld,      \* creators whose supplier call made a reservation
  hotelReleased,  \* whether the supplier has taken a cancellation
  hotelCharge,    \* hotelCharge[r]: "none", "PAID", "FAILED" or "LOST"
  hotelPaidBack,  \* cancellers for which the provider returned the money
  \* The request threads; who books; and whether a release can be asked for:
  \* the offer's supplier is registered, its adapter has the optional
  \* cancelBooking and the booking a supplier reference.
  hotelPc, hotelBuyer, hotelReleasable,
  \* History variables: two cancellations overlapped; a request died.
  hotelOverlap, hotelCrashed

hotelRows == <<hotelStatus, hotelPayment, hotelLedger, hotelRefunds>>
hotelOutside == <<hotelHeld, hotelReleased, hotelCharge, hotelPaidBack>>
hotelHistory == <<hotelBuyer, hotelReleasable, hotelOverlap, hotelCrashed>>
hotelVars == <<hotelRows, hotelOutside, hotelPc, hotelHistory>>

HotelStatuses == {"PENDING", "CONFIRMED", "FAILED", "REFUND_PENDING", "REFUNDED"}
RefundStatuses == {"none", "PROCESSING", "COMPLETED", "REJECTED"}
HotelSteps ==
  {"lookUp", "validate", "supplierBook", "fail", "confirm", "settle", "charge",
   "recordCharge", "load", "release", "pend", "createRefund", "settleRefund",
   "providerRefund", "recordRefunded", "recordRefundFailed", "complete",
   "reject", "close", "done"}

HotelTypeOK ==
  /\ hotelStatus \in HotelStatuses \cup {"NONE"}
  /\ hotelPayment \in {"none", "PENDING", "PAID", "FAILED", "REFUNDED"}
  /\ hotelLedger \subseteq {"debit", "refund"}
  /\ hotelRefunds \in [HotelCancellers -> RefundStatuses]
  /\ hotelHeld \subseteq HotelCreators
  /\ hotelReleased \in BOOLEAN
  /\ hotelCharge \in [HotelCreators -> {"none", "PAID", "FAILED", "LOST"}]
  /\ hotelPaidBack \subseteq HotelCancellers
  /\ hotelPc \in [HotelRequests -> HotelSteps]
  /\ hotelBuyer \in HotelBuyers
  /\ hotelReleasable \in BOOLEAN
  /\ hotelOverlap \in BOOLEAN
  /\ hotelCrashed \in BOOLEAN

HotelInit ==
  /\ hotelStatus = "NONE"
  /\ hotelPayment = "none"
  /\ hotelLedger = {}
  /\ hotelRefunds = [c \in HotelCancellers |-> "none"]
  /\ hotelHeld = {}
  /\ hotelReleased = FALSE
  /\ hotelCharge = [r \in HotelCreators |-> "none"]
  /\ hotelPaidBack = {}
  /\ hotelPc = [r \in HotelRequests |-> IF r \in HotelCreators THEN "lookUp" ELSE "load"]
  /\ hotelBuyer \in HotelBuyers
  /\ hotelReleasable \in HotelReleasable
  /\ hotelOverlap = FALSE
  /\ hotelCrashed = FALSE

HotelGoto(r, next) == hotelPc' = [hotelPc EXCEPT ![r] = next]

-----------------------------------------------------------------------------
(* createBooking                                                           *)

\* A booking with this key is returned as it is.
HotelLookUpKey(r) ==
  /\ hotelPc[r] = "lookUp"
  /\ HotelGoto(r, IF hotelStatus = "NONE" THEN "validate" ELSE "done")
  /\ UNCHANGED <<hotelRows, hotelOutside, hotelHistory>>

\* Offer gone or expired, no profile, rate gone or changed, agency not active
\* or short of funds: nothing has been written.
HotelReject(r) ==
  /\ hotelPc[r] = "validate"
  /\ HotelGoto(r, "done")
  /\ UNCHANGED <<hotelRows, hotelOutside, hotelHistory>>

HotelInsert(r) ==
  /\ hotelPc[r] = "validate"
  /\ hotelStatus = "NONE"
  /\ hotelStatus' = "PENDING"
  /\ HotelGoto(r, "supplierBook")
  /\ UNCHANGED <<hotelPayment, hotelLedger, hotelRefunds, hotelOutside, hotelHistory>>

\* The unique idempotency key rejects the second of two inserts.
HotelInsertConflict(r) ==
  /\ hotelPc[r] = "validate"
  /\ hotelStatus # "NONE"
  /\ HotelGoto(r, "done")
  /\ UNCHANGED <<hotelRows, hotelOutside, hotelHistory>>

\* adapter.createBooking confirms, or it declines, leaves the booking pending
\* or throws; a reservation may exist in those cases too.
HotelSupplierBook(r) ==
  /\ hotelPc[r] = "supplierBook"
  /\ \E confirmed, made \in BOOLEAN :
       /\ confirmed => made
       /\ hotelHeld' = IF made THEN hotelHeld \cup {r} ELSE hotelHeld
       /\ HotelGoto(r, IF confirmed THEN "confirm" ELSE "fail")
  /\ UNCHANGED <<hotelRows, hotelReleased, hotelCharge, hotelPaidBack, hotelHistory>>

HotelMarkFailed(r) ==
  /\ hotelPc[r] = "fail"
  /\ hotelStatus' = "FAILED"
  /\ HotelGoto(r, "done")
  /\ UNCHANGED <<hotelPayment, hotelLedger, hotelRefunds, hotelOutside, hotelHistory>>

\* One UPDATE sets the status and the supplier's reference.
HotelConfirm(r) ==
  /\ hotelPc[r] = "confirm"
  /\ hotelStatus' = "CONFIRMED"
  /\ HotelGoto(r, "settle")
  /\ UNCHANGED <<hotelPayment, hotelLedger, hotelRefunds, hotelOutside, hotelHistory>>

\* wallet.debitForHotelBooking, whose inside is WalletLedger: the row is
\* posted, or an error is logged or thrown; the booking stays CONFIRMED.
HotelDebitWallet(r) ==
  /\ hotelPc[r] = "settle"
  /\ hotelBuyer = "agent"
  /\ hotelLedger' \in {hotelLedger, hotelLedger \cup {"debit"}}
  /\ HotelGoto(r, "done")
  /\ UNCHANGED <<hotelStatus, hotelPayment, hotelRefunds, hotelOutside, hotelHistory>>

\* chargeForHotelBooking: no payment has the key yet, a PENDING row is made.
HotelCreatePayment(r) ==
  /\ hotelPc[r] = "settle"
  /\ hotelBuyer # "agent"
  /\ hotelPayment = "none"
  /\ hotelPayment' = "PENDING"
  /\ HotelGoto(r, "charge")
  /\ UNCHANGED <<hotelStatus, hotelLedger, hotelRefunds, hotelOutside, hotelHistory>>

\* provider.charge; an error on the way back reads as FAILED.
HotelChargeProvider(r) ==
  /\ hotelPc[r] = "charge"
  /\ \E result \in {"PAID", "FAILED", "LOST"} :
       hotelCharge' = [hotelCharge EXCEPT ![r] = result]
  /\ HotelGoto(r, "recordCharge")
  /\ UNCHANGED <<hotelRows, hotelHeld, hotelReleased, hotelPaidBack, hotelHistory>>

HotelRecordCharge(r) ==
  /\ hotelPc[r] = "recordCharge"
  /\ hotelPayment' = IF hotelCharge[r] = "PAID" THEN "PAID" ELSE "FAILED"
  /\ HotelGoto(r, "done")
  /\ UNCHANGED <<hotelStatus, hotelLedger, hotelRefunds, hotelOutside, hotelHistory>>

-----------------------------------------------------------------------------
(* cancelBooking                                                           *)

\* c is between its load of the booking and its end.
Cancelling(c) == hotelPc[c] \notin {"load", "done"}

\* The booking is loaded: only a CONFIRMED one goes on.
HotelLoad(c) ==
  /\ hotelPc[c] = "load"
  /\ hotelStatus # "NONE"
  /\ HotelGoto(c, IF hotelStatus = "CONFIRMED" THEN "release" ELSE "done")
  /\ hotelOverlap' = (hotelOverlap \/ \E d \in HotelCancellers \ {c} : Cancelling(d))
  /\ UNCHANGED <<hotelRows, hotelOutside, hotelBuyer, hotelReleasable, hotelCrashed>>

\* adapter.cancelBooking answers FAILED or throws: the request ends there,
\* though the supplier may have cancelled.
HotelSupplierDeclines(c) ==
  /\ hotelPc[c] = "release"
  /\ hotelReleasable
  /\ hotelReleased' \in {hotelReleased, TRUE}
  /\ HotelGoto(c, "done")
  /\ UNCHANGED <<hotelRows, hotelHeld, hotelCharge, hotelPaidBack, hotelHistory>>

\* Mutant: the answer of the supplier is not looked at.
HotelReleaseUnread(c) ==
  /\ hotelPc[c] = "release"
  /\ hotelReleased' \in {hotelReleased, TRUE}
  /\ HotelGoto(c, "pend")
  /\ UNCHANGED <<hotelRows, hotelHeld, hotelCharge, hotelPaidBack, hotelHistory>>

\* It agrees; or there is nobody to ask, and the cancellation goes on.
HotelSupplierReleases(c) ==
  /\ hotelPc[c] = "release"
  /\ hotelReleased' = (hotelReleased \/ hotelReleasable)
  /\ HotelGoto(c, "pend")
  /\ UNCHANGED <<hotelRows, hotelHeld, hotelCharge, hotelPaidBack, hotelHistory>>

HotelMarkRefundPending(c) ==
  /\ hotelPc[c] = "pend"
  /\ hotelStatus' = "REFUND_PENDING"
  /\ HotelGoto(c, "createRefund")
  /\ UNCHANGED <<hotelPayment, hotelLedger, hotelRefunds, hotelOutside, hotelHistory>>

HotelSetRefund(c, refundStatus, next) ==
  /\ hotelRefunds' = [hotelRefunds EXCEPT ![c] = refundStatus]
  /\ HotelGoto(c, next)
  /\ UNCHANGED <<hotelStatus, hotelPayment, hotelLedger, hotelOutside, hotelHistory>>

HotelCreateRefund(c) ==
  /\ hotelPc[c] = "createRefund"
  /\ HotelSetRefund(c, "PROCESSING", "settleRefund")

\* wallet.creditForHotelBooking with key `refund:hotel:<id>`.
HotelCreditWallet(c) ==
  /\ hotelPc[c] = "settleRefund"
  /\ hotelBuyer = "agent"
  /\ hotelLedger' = hotelLedger \cup {"refund"}
  /\ HotelGoto(c, "complete")
  /\ UNCHANGED <<hotelStatus, hotelPayment, hotelRefunds, hotelOutside, hotelHistory>>

\* refundHotelPayment: the payment is read, and only a PAID one is sent back.
HotelReadPayment(c) ==
  /\ hotelPc[c] = "settleRefund"
  /\ hotelBuyer # "agent"
  /\ HotelGoto(c, IF hotelPayment = "PAID" THEN "providerRefund" ELSE "complete")
  /\ UNCHANGED <<hotelRows, hotelOutside, hotelHistory>>

HotelProviderRefunds(c) ==
  /\ hotelPc[c] = "providerRefund"
  /\ hotelPaidBack' = hotelPaidBack \cup {c}
  /\ HotelGoto(c, "recordRefunded")
  /\ UNCHANGED <<hotelRows, hotelHeld, hotelReleased, hotelCharge, hotelHistory>>

\* It refuses, or its answer is lost, which reads as FAILED too.
HotelProviderRefuses(c) ==
  /\ hotelPc[c] = "providerRefund"
  /\ hotelPaidBack' \in {hotelPaidBack, hotelPaidBack \cup {c}}
  /\ HotelGoto(c, "recordRefundFailed")
  /\ UNCHANGED <<hotelRows, hotelHeld, hotelReleased, hotelCharge, hotelHistory>>

\* The provider's answer becomes the status of the payment.
HotelRecordRefund(c) ==
  /\ hotelPc[c] \in {"recordRefunded", "recordRefundFailed"}
  /\ hotelPayment' = IF hotelPc[c] = "recordRefunded" THEN "REFUNDED" ELSE "FAILED"
  /\ HotelGoto(c, "complete")
  /\ UNCHANGED <<hotelStatus, hotelLedger, hotelRefunds, hotelOutside, hotelHistory>>

\* An error anywhere in the try block: the refund row will say REJECTED.
HotelSettlementFails(c) ==
  /\ hotelPc[c] \in {"settleRefund", "recordRefunded", "recordRefundFailed", "complete"}
  /\ HotelGoto(c, "reject")
  /\ UNCHANGED <<hotelRows, hotelOutside, hotelHistory>>

HotelCompleteRefund(c) ==
  /\ hotelPc[c] = "complete"
  /\ HotelSetRefund(c, "COMPLETED", "close")

\* Mutant: the error is only logged, and the request ends with it.
HotelRejectAndStop(c) ==
  /\ hotelPc[c] = "reject"
  /\ HotelSetRefund(c, "REJECTED", "done")

HotelRejectRefund(c) ==
  /\ hotelPc[c] = "reject"
  /\ HotelSetRefund(c, "REJECTED", "close")

\* Whether the refund was settled or not, the booking becomes REFUNDED.
HotelClose(c) ==
  /\ hotelPc[c] = "close"
  /\ hotelStatus' = "REFUNDED"
  /\ HotelGoto(c, "done")
  /\ UNCHANGED <<hotelPayment, hotelLedger, hotelRefunds, hotelOutside, hotelHistory>>

-----------------------------------------------------------------------------
\* The process dies, or an error nobody catches ends the request.
HotelCrash(r) ==
  /\ HotelCrashAllowed
  /\ hotelPc[r] \notin {"lookUp", "load", "done"}
  /\ HotelGoto(r, "done")
  /\ hotelCrashed' = TRUE
  /\ UNCHANGED <<hotelRows, hotelOutside, hotelBuyer, hotelReleasable, hotelOverlap>>

HotelCreatorStep(r) ==
  \/ HotelLookUpKey(r) \/ HotelReject(r) \/ HotelInsert(r) \/ HotelInsertConflict(r)
  \/ HotelSupplierBook(r) \/ HotelMarkFailed(r) \/ HotelConfirm(r)
  \/ HotelDebitWallet(r) \/ HotelCreatePayment(r) \/ HotelChargeProvider(r)
  \/ HotelRecordCharge(r)

HotelCancellerStep(c) ==
  \/ HotelLoad(c) \/ HotelSupplierDeclines(c) \/ HotelSupplierReleases(c)
  \/ HotelMarkRefundPending(c) \/ HotelCreateRefund(c) \/ HotelCreditWallet(c)
  \/ HotelReadPayment(c) \/ HotelProviderRefunds(c) \/ HotelProviderRefuses(c)
  \/ HotelRecordRefund(c) \/ HotelSettlementFails(c) \/ HotelCompleteRefund(c)
  \/ HotelRejectRefund(c) \/ HotelClose(c)

HotelStep(r) ==
  \/ r \in HotelCreators /\ HotelCreatorStep(r)
  \/ r \in HotelCancellers /\ HotelCancellerStep(r)

HotelNext == \E r \in HotelRequests : HotelStep(r) \/ HotelCrash(r)

HotelSpec == HotelInit /\ [][HotelNext]_hotelVars
-----------------------------------------------------------------------------
(* Properties.                                                             *)

HotelCharged == {r \in HotelCreators : hotelCharge[r] \in {"PAID", "LOST"}}

\* "same non-negotiable discipline": however often the request is retried,
\* the supplier is asked for one reservation and the card charged once.
HotelSoldOnce ==
  /\ Cardinality(hotelHeld) <= 1
  /\ Cardinality(HotelCharged) <= 1

\* Settle-after-confirm: no card is charged and no wallet debited before the
\* booking was CONFIRMED, and none for a booking that failed.
HotelMoneyAfterConfirmation ==
  HotelCharged # {} \/ "debit" \in hotelLedger
    => hotelStatus \in {"CONFIRMED", "REFUND_PENDING", "REFUNDED"}

\* The supplier has given up the reservation, if there is anybody to ask.
HotelLetGo == hotelReleasable => hotelReleased

\* A refund row exists, and money goes back, only for a booking that has left
\* CONFIRMED and whose reservation the supplier has given up, if it can be
\* asked to; a supplier that declines keeps the guest's money where it is.
HotelRefundsAfterRelease ==
  (\E c \in HotelCancellers : hotelRefunds[c] # "none") \/ hotelPaidBack # {}
    => HotelLetGo /\ hotelStatus \in {"REFUND_PENDING", "REFUNDED"}

\* Unless two cancellations overlap, the provider never sends back money it
\* did not take, whatever fails or dies on the way.
HotelRefundedOnce ==
  ~hotelOverlap => Cardinality(hotelPaidBack) <= Cardinality(HotelCharged)

\* Unless a request died, a cancelled booking ends REFUNDED with every refund
\* row closed, also when cancellations overlap or the settlement fails.
HotelRefundSettles ==
  hotelStatus = "REFUND_PENDING"
    ~> \/ /\ hotelStatus = "REFUNDED"
          /\ \A c \in HotelCancellers : hotelRefunds[c] # "PROCESSING"
       \/ hotelCrashed

\* What a guest and the agency may rely on together: one sale, money after the
\* confirmation, refunds after the release, and one of them.
HotelMoneySound ==
  /\ HotelSoldOnce
  /\ HotelMoneyAfterConfirmation
  /\ HotelRefundsAfterRelease
  /\ HotelRefundedOnce
=============================================================================
