---------------------------- MODULE Sales_proofs ----------------------------
(***************************************************************************)
(* Proofs about the products sold beside flights: hotel bookings, travel   *)
(* packages and pilgrimage departures, for any number of concurrent calls, *)
(* and about the run that checks them together.                            *)
(***************************************************************************)
EXTENDS MC_Sales, Totals_proofs
-----------------------------------------------------------------------------
(* Hotel bookings.                                                         *)

After == {"CONFIRMED", "REFUND_PENDING", "REFUNDED"}
Back == {"REFUND_PENDING", "REFUNDED"}
BeforeConfirmation == {"supplierBook", "fail", "confirm"}
Settling == {"settle", "charge", "recordCharge"}
Refunding ==
  {"createRefund", "settleRefund", "providerRefund", "recordRefunded", "recordRefundFailed",
   "complete", "reject", "close"}

\* r creates the booking, or has left a trace at the supplier or the provider
\* doing so: there is at most one such request, and none while there is no row.
Trace(r) ==
  \/ hotelPc[r] \in BeforeConfirmation \cup Settling
  \/ r \in hotelHeld
  \/ hotelCharge[r] # "none"
OneCreator ==
  /\ \A r, q \in HotelCreators : Trace(r) /\ Trace(q) => r = q
  /\ hotelStatus = "NONE" => \A r \in HotelCreators : ~Trace(r)

\* Money is taken behind the confirmation, and a paid payment was charged.
TakenInv ==
  /\ \A r \in HotelCreators :
       /\ hotelPc[r] \in BeforeConfirmation => hotelStatus = "PENDING"
       /\ hotelPc[r] \in BeforeConfirmation \cup {"settle", "charge"} => hotelCharge[r] = "none"
       /\ hotelPc[r] \in Settling => hotelStatus \in After
  /\ HotelMoneyAfterConfirmation
  /\ hotelPayment \in {"PAID", "REFUNDED"} => HotelCharged # {}

\* A cancellation that goes on has asked the supplier, if it can be asked, and
\* the booking has left CONFIRMED before a refund row is made.
GivenBackInv ==
  /\ \A c \in HotelCancellers :
       /\ Cancelling(c) => hotelStatus \in After
       /\ hotelPc[c] \in {"pend"} \cup Refunding => HotelLetGo
       /\ hotelPc[c] \in Refunding => hotelStatus \in Back
       /\ hotelPc[c] \in {"providerRefund", "recordRefunded"} => HotelCharged # {}
  /\ HotelRefundsAfterRelease
  /\ hotelPaidBack # {} => HotelCharged # {}

\* Unless cancellations overlap, one is under way or has sent money back.
Acting(c) == Cancelling(c) \/ c \in hotelPaidBack
OneCanceller ==
  ~hotelOverlap => \A c, d \in HotelCancellers : Acting(c) /\ Acting(d) => c = d

HotelInv == HotelTypeOK /\ OneCreator /\ TakenInv /\ GivenBackInv /\ OneCanceller

-----------------------------------------------------------------------------
LEMMA HotelInitInv == HotelInit => HotelInv
<1> SUFFICES ASSUME HotelInit PROVE HotelInv
  OBVIOUS
<1>1. HotelTypeOK
  BY HotelAssumption
  DEF HotelInit, HotelTypeOK, HotelRequests, HotelStatuses, RefundStatuses, HotelSteps
<1>2. OneCreator
  BY DEF HotelInit, OneCreator, Trace, BeforeConfirmation, Settling, HotelRequests
<1>3. HotelCharged = {}
  BY DEF HotelInit, HotelCharged
<1>4. TakenInv
  BY <1>3 DEF HotelInit, TakenInv, HotelMoneyAfterConfirmation, BeforeConfirmation, Settling,
              HotelRequests
<1>5. \A c \in HotelCancellers : hotelPc[c] = "load"
  BY HotelAssumption DEF HotelInit, HotelRequests
<1>6. GivenBackInv /\ OneCanceller
  BY <1>5 DEF HotelInit, GivenBackInv, HotelRefundsAfterRelease, OneCanceller, Acting, Cancelling,
              Refunding
<1> QED BY <1>1, <1>2, <1>4, <1>6 DEF HotelInv

-----------------------------------------------------------------------------
(* createBooking.                                                          *)

\* What a creator's step leaves of the cancellations' invariants: it never
\* takes a charge back, and it moves the status only from PENDING.
LEMMA CreatorKeepsRefunds ==
  ASSUME HotelInv,
         \A c \in HotelCancellers : hotelPc'[c] = hotelPc[c],
         UNCHANGED <<hotelRefunds, hotelReleased, hotelReleasable, hotelPaidBack, hotelOverlap>>,
         hotelStatus \in After => hotelStatus' = hotelStatus,
         HotelCharged \subseteq HotelCharged'
  PROVE  GivenBackInv' /\ OneCanceller'
<1>1. \A c \in HotelCancellers : Cancelling(c)' = Cancelling(c) /\ Acting(c)' = Acting(c)
  BY DEF Cancelling, Acting
<1>2. Back \subseteq After
  BY DEF Back, After
<1>3. HotelRefundsAfterRelease'
  BY <1>2 DEF HotelInv, GivenBackInv, HotelRefundsAfterRelease, HotelLetGo, Back, After
<1>4. GivenBackInv'
  BY <1>1, <1>2, <1>3 DEF HotelInv, GivenBackInv, HotelLetGo
<1>5. OneCanceller'
  BY <1>1 DEF HotelInv, OneCanceller
<1> QED BY <1>4, <1>5

LEMMA CreatorKeepsInv ==
  ASSUME HotelInv, NEW r \in HotelCreators, HotelCreatorStep(r)
  PROVE  HotelInv'
<1> USE DEF HotelInv
<1>1. r \in HotelRequests /\ \A c \in HotelCancellers : c # r /\ c \in HotelRequests
  BY HotelAssumption DEF HotelRequests
<1>2. ASSUME NEW next \in HotelSteps, HotelGoto(r, next)
      PROVE  /\ hotelPc' \in [HotelRequests -> HotelSteps]
             /\ hotelPc'[r] = next
             /\ \A q \in HotelRequests : q # r => hotelPc'[q] = hotelPc[q]
             /\ \A c \in HotelCancellers : hotelPc'[c] = hotelPc[c]
  BY <1>1, <1>2 DEF HotelGoto, HotelTypeOK
<1>3. HotelCreators \subseteq HotelRequests
  BY DEF HotelRequests
<1>4. CASE HotelLookUpKey(r) \/ HotelReject(r) \/ HotelInsertConflict(r)
  <2>1. PICK next \in {"validate", "done"} : HotelGoto(r, next)
    BY <1>4 DEF HotelLookUpKey, HotelReject, HotelInsertConflict
  <2>2. UNCHANGED <<hotelRows, hotelOutside, hotelHistory>>
    BY <1>4 DEF HotelLookUpKey, HotelReject, HotelInsertConflict
  <2>3. /\ hotelPc' \in [HotelRequests -> HotelSteps]
        /\ hotelPc'[r] = next
        /\ \A q \in HotelRequests : q # r => hotelPc'[q] = hotelPc[q]
        /\ \A c \in HotelCancellers : hotelPc'[c] = hotelPc[c]
    BY <1>2, <2>1 DEF HotelSteps
  <2>4. HotelTypeOK' /\ HotelCharged' = HotelCharged
    BY <2>2, <2>3 DEF HotelTypeOK, hotelRows, hotelOutside, hotelHistory, HotelCharged
  <2>5. OneCreator'
    BY <1>3, <2>2, <2>3 DEF OneCreator, Trace, hotelRows, hotelOutside, BeforeConfirmation, Settling
  <2>6. TakenInv'
    BY <1>3, <2>2, <2>3, <2>4 DEF TakenInv, HotelMoneyAfterConfirmation, hotelRows, hotelOutside,
                                 BeforeConfirmation, Settling
  <2>7. GivenBackInv' /\ OneCanceller'
    BY <2>2, <2>3, <2>4, CreatorKeepsRefunds DEF hotelRows, hotelOutside, hotelHistory
  <2> QED BY <2>4, <2>5, <2>6, <2>7
<1>5. CASE HotelInsert(r)
  <2>1. /\ hotelStatus = "NONE" /\ hotelStatus' = "PENDING"
        /\ HotelGoto(r, "supplierBook")
        /\ UNCHANGED <<hotelPayment, hotelLedger, hotelRefunds, hotelOutside, hotelHistory>>
    BY <1>5 DEF HotelInsert
  <2>2. /\ hotelPc' \in [HotelRequests -> HotelSteps]
        /\ hotelPc'[r] = "supplierBook"
        /\ \A q \in HotelRequests : q # r => hotelPc'[q] = hotelPc[q]
        /\ \A c \in HotelCancellers : hotelPc'[c] = hotelPc[c]
    BY <1>2, <2>1 DEF HotelSteps
  <2>3. HotelTypeOK' /\ HotelCharged' = HotelCharged
    BY <2>1, <2>2 DEF HotelTypeOK, HotelStatuses, hotelOutside, hotelHistory, HotelCharged
  <2>4. \A q \in HotelCreators : Trace(q)' => q = r
    BY <1>3, <2>1, <2>2 DEF OneCreator, Trace, hotelOutside
  <2>5. OneCreator'
    BY <2>1, <2>4 DEF OneCreator
  <2>6. hotelCharge[r] = "none" /\ \A q \in HotelCreators : ~Trace(q)
    BY <2>1 DEF OneCreator, Trace
  <2>7. HotelMoneyAfterConfirmation'
    BY <2>1, <2>3 DEF TakenInv, HotelMoneyAfterConfirmation, hotelOutside
  <2>8. TakenInv'
    BY <1>3, <2>1, <2>2, <2>3, <2>6, <2>7
    DEF TakenInv, Trace, hotelOutside, BeforeConfirmation, Settling
  <2>9. GivenBackInv' /\ OneCanceller'
    BY <2>1, <2>2, <2>3, CreatorKeepsRefunds DEF hotelOutside, hotelHistory, After
  <2> QED BY <2>3, <2>5, <2>8, <2>9
<1>6. CASE HotelSupplierBook(r)
  <2>1. PICK next \in {"confirm", "fail"} : HotelGoto(r, next)
    BY <1>6 DEF HotelSupplierBook
  <2>2. /\ hotelPc[r] = "supplierBook"
        /\ hotelHeld' \in {hotelHeld, hotelHeld \cup {r}}
        /\ UNCHANGED <<hotelRows, hotelReleased, hotelCharge, hotelPaidBack, hotelHistory>>
    BY <1>6 DEF HotelSupplierBook
  <2>3. /\ hotelPc' \in [HotelRequests -> HotelSteps]
        /\ hotelPc'[r] = next
        /\ \A q \in HotelRequests : q # r => hotelPc'[q] = hotelPc[q]
        /\ \A c \in HotelCancellers : hotelPc'[c] = hotelPc[c]
    BY <1>2, <2>1 DEF HotelSteps
  <2>4. HotelTypeOK' /\ HotelCharged' = HotelCharged
    BY <2>2, <2>3 DEF HotelTypeOK, hotelRows, hotelHistory, HotelCharged
  <2>5. Trace(r) /\ \A q \in HotelCreators : Trace(q)' => Trace(q)
    BY <1>3, <2>2, <2>3 DEF Trace, BeforeConfirmation
  <2>6. OneCreator'
    BY <2>2, <2>5 DEF OneCreator, hotelRows
  <2>7. TakenInv'
    BY <1>3, <2>2, <2>3, <2>4 DEF TakenInv, HotelMoneyAfterConfirmation, hotelRows,
                                 BeforeConfirmation, Settling
  <2>8. GivenBackInv' /\ OneCanceller'
    BY <2>2, <2>3, <2>4, CreatorKeepsRefunds DEF hotelRows, hotelHistory
  <2> QED BY <2>4, <2>6, <2>7, <2>8
<1>7. CASE HotelMarkFailed(r) \/ HotelConfirm(r)
  <2>1. PICK next \in {"done", "settle"} :
          /\ HotelGoto(r, next)
          /\ next = "settle" => hotelStatus' = "CONFIRMED"
    BY <1>7 DEF HotelMarkFailed, HotelConfirm
  <2>2. /\ hotelPc[r] \in {"fail", "confirm"}
        /\ hotelStatus' \in {"FAILED", "CONFIRMED"}
        /\ UNCHANGED <<hotelPayment, hotelLedger, hotelRefunds, hotelOutside, hotelHistory>>
    BY <1>7 DEF HotelMarkFailed, HotelConfirm
  <2>3. /\ hotelPc' \in [HotelRequests -> HotelSteps]
        /\ hotelPc'[r] = next
        /\ \A q \in HotelRequests : q # r => hotelPc'[q] = hotelPc[q]
        /\ \A c \in HotelCancellers : hotelPc'[c] = hotelPc[c]
    BY <1>2, <2>1 DEF HotelSteps
  <2>4. hotelStatus = "PENDING" /\ Trace(r) /\ hotelCharge[r] = "none"
    BY <2>2 DEF TakenInv, Trace, BeforeConfirmation
  <2>5. HotelTypeOK' /\ HotelCharged' = HotelCharged
    BY <2>2, <2>3 DEF HotelTypeOK, HotelStatuses, hotelOutside, hotelHistory, HotelCharged
  <2>6. \A q \in HotelCreators : Trace(q)' => Trace(q)
    BY <1>3, <2>2, <2>3, <2>4 DEF Trace, hotelOutside
  <2>7. OneCreator'
    BY <2>2, <2>6 DEF OneCreator
  <2>8. \A q \in HotelCreators \ {r} : hotelPc[q] \notin BeforeConfirmation \cup Settling
    BY <2>4 DEF OneCreator, Trace
  <2>9. HotelCharged = {} /\ "debit" \notin hotelLedger
    BY <2>4 DEF TakenInv, HotelMoneyAfterConfirmation
  <2>10. HotelMoneyAfterConfirmation' /\ hotelPayment' \notin {"PAID", "REFUNDED"}
    BY <2>2, <2>5, <2>9 DEF TakenInv, HotelMoneyAfterConfirmation
  <2>11. \A q \in HotelCreators : hotelPc'[q] \in BeforeConfirmation \cup Settling =>
            q = r /\ next = "settle"
    BY <1>3, <2>3, <2>8 DEF BeforeConfirmation, Settling
  <2>12. TakenInv'
    BY <2>1, <2>2, <2>3, <2>4, <2>10, <2>11
    DEF TakenInv, hotelOutside, BeforeConfirmation, Settling, After
  <2>13. GivenBackInv' /\ OneCanceller'
    BY <2>2, <2>3, <2>4, <2>5, CreatorKeepsRefunds DEF hotelOutside, hotelHistory, After
  <2> QED BY <2>5, <2>7, <2>12, <2>13
<1>8. CASE HotelDebitWallet(r) \/ HotelCreatePayment(r) \/ HotelRecordCharge(r)
  <2>1. PICK next \in {"done", "charge"} :
          /\ HotelGoto(r, next)
          /\ next = "charge" => hotelPc[r] = "settle"
    BY <1>8 DEF HotelDebitWallet, HotelCreatePayment, HotelRecordCharge
  <2>2. /\ hotelPc[r] \in Settling
        /\ hotelLedger' \subseteq hotelLedger \cup {"debit"}
        /\ hotelPayment' \in {hotelPayment, "PENDING", "PAID", "FAILED"}
        /\ hotelPayment' = "PAID" => hotelPayment = "PAID" \/ hotelCharge[r] = "PAID"
        /\ UNCHANGED <<hotelStatus, hotelRefunds, hotelOutside, hotelHistory>>
    BY <1>8 DEF HotelDebitWallet, HotelCreatePayment, HotelRecordCharge, Settling
  <2>3. /\ hotelPc' \in [HotelRequests -> HotelSteps]
        /\ hotelPc'[r] = next
        /\ \A q \in HotelRequests : q # r => hotelPc'[q] = hotelPc[q]
        /\ \A c \in HotelCancellers : hotelPc'[c] = hotelPc[c]
    BY <1>2, <2>1 DEF HotelSteps
  <2>4. hotelStatus \in After /\ Trace(r)
    BY <2>2 DEF TakenInv, Trace
  <2>5. HotelTypeOK' /\ HotelCharged' = HotelCharged
    BY <2>2, <2>3 DEF HotelTypeOK, hotelOutside, hotelHistory, HotelCharged
  <2>6. \A q \in HotelCreators : Trace(q)' => Trace(q)
    BY <1>3, <2>2, <2>3, <2>4 DEF Trace, hotelOutside
  <2>7. OneCreator'
    BY <2>2, <2>6 DEF OneCreator
  <2>8. hotelPayment' \in {"PAID", "REFUNDED"} => HotelCharged # {}
    BY <2>2 DEF TakenInv, HotelCharged
  <2>9. HotelMoneyAfterConfirmation'
    BY <2>2, <2>4 DEF HotelMoneyAfterConfirmation, After
  <2>10. TakenInv'
    BY <1>3, <2>1, <2>2, <2>3, <2>4, <2>5, <2>8, <2>9
    DEF TakenInv, hotelOutside, BeforeConfirmation, Settling
  <2>11. GivenBackInv' /\ OneCanceller'
    BY <2>2, <2>3, <2>5, CreatorKeepsRefunds DEF hotelOutside, hotelHistory
  <2> QED BY <2>5, <2>7, <2>10, <2>11
<1>9. CASE HotelChargeProvider(r)
  <2>1. /\ hotelPc[r] = "charge"
        /\ HotelGoto(r, "recordCharge")
        /\ \E result \in {"PAID", "FAILED", "LOST"} :
             hotelCharge' = [hotelCharge EXCEPT ![r] = result]
        /\ UNCHANGED <<hotelRows, hotelHeld, hotelReleased, hotelPaidBack, hotelHistory>>
    BY <1>9 DEF HotelChargeProvider
  <2>2. /\ hotelPc' \in [HotelRequests -> HotelSteps]
        /\ hotelPc'[r] = "recordCharge"
        /\ \A q \in HotelRequests : q # r => hotelPc'[q] = hotelPc[q]
        /\ \A c \in HotelCancellers : hotelPc'[c] = hotelPc[c]
    BY <1>2, <2>1 DEF HotelSteps
  <2>3. hotelStatus \in After /\ Trace(r) /\ hotelCharge[r] = "none"
    BY <2>1 DEF TakenInv, Trace, Settling
  <2>4. HotelTypeOK'
    BY <2>1, <2>2 DEF HotelTypeOK, hotelRows, hotelHistory
  <2>5. \A q \in HotelCreators \ {r} : hotelCharge'[q] = hotelCharge[q]
    BY <2>1 DEF HotelTypeOK
  <2>6. HotelCharged \subseteq HotelCharged'
    BY <2>3, <2>5 DEF HotelCharged
  <2>7. \A q \in HotelCreators : Trace(q)' => Trace(q)
    BY <1>3, <2>1, <2>2, <2>3, <2>5 DEF Trace
  <2>8. OneCreator'
    BY <2>1, <2>7 DEF OneCreator, hotelRows
  <2>9. TakenInv'
    BY <1>3, <2>1, <2>2, <2>3, <2>5, <2>6
    DEF TakenInv, HotelMoneyAfterConfirmation, hotelRows, BeforeConfirmation, Settling, After
  <2>10. GivenBackInv' /\ OneCanceller'
    BY <2>1, <2>2, <2>6, CreatorKeepsRefunds DEF hotelRows, hotelHistory
  <2> QED BY <2>4, <2>8, <2>9, <2>10
<1> QED BY <1>4, <1>5, <1>6, <1>7, <1>8, <1>9 DEF HotelCreatorStep

-----------------------------------------------------------------------------
(* cancelBooking.                                                          *)

\* What a canceller's step leaves of the creators' invariants: it charges
\* nobody, and it moves the status only onwards from CONFIRMED.
LEMMA CancellerKeepsTaken ==
  ASSUME HotelInv,
         \A r \in HotelCreators : hotelPc'[r] = hotelPc[r],
         UNCHANGED <<hotelHeld, hotelCharge>>,
         hotelLedger' \subseteq hotelLedger \cup {"refund"},
         hotelPayment' \in {"PAID", "REFUNDED"} =>
           hotelPayment \in {"PAID", "REFUNDED"} \/ HotelCharged # {},
         hotelStatus' = hotelStatus \/ (hotelStatus \in After /\ hotelStatus' \in Back)
  PROVE  OneCreator' /\ TakenInv' /\ HotelCharged' = HotelCharged
<1>1. HotelCharged' = HotelCharged
  BY DEF HotelCharged
<1>2. \A r \in HotelCreators : Trace(r)' = Trace(r)
  BY DEF Trace
<1>3. OneCreator'
  BY <1>2 DEF HotelInv, OneCreator, After, Back
<1>4. HotelMoneyAfterConfirmation'
  BY <1>1 DEF HotelInv, TakenInv, HotelMoneyAfterConfirmation, After, Back
<1>5. TakenInv'
  BY <1>1, <1>4 DEF HotelInv, TakenInv, After, Back
<1> QED BY <1>1, <1>3, <1>5

LEMMA CancellerKeepsInv ==
  ASSUME HotelInv, NEW c \in HotelCancellers, HotelCancellerStep(c)
  PROVE  HotelInv'
<1> USE DEF HotelInv
<1>1. c \in HotelRequests /\ \A r \in HotelCreators : r # c /\ r \in HotelRequests
  BY HotelAssumption DEF HotelRequests
<1>2. HotelCancellers \subseteq HotelRequests
  BY DEF HotelRequests
<1>3. ASSUME NEW next \in HotelSteps, HotelGoto(c, next)
      PROVE  /\ hotelPc' \in [HotelRequests -> HotelSteps]
             /\ hotelPc'[c] = next
             /\ \A d \in HotelCancellers : d # c => hotelPc'[d] = hotelPc[d]
             /\ \A r \in HotelCreators : hotelPc'[r] = hotelPc[r]
  BY <1>1, <1>2, <1>3 DEF HotelGoto, HotelTypeOK
\* Only the money and the request's own place change.
<1>4. CASE \/ HotelCreditWallet(c) \/ HotelReadPayment(c) \/ HotelProviderRefunds(c)
           \/ HotelProviderRefuses(c) \/ HotelRecordRefund(c) \/ HotelSettlementFails(c)
  <2>1. PICK next \in {"providerRefund", "complete", "recordRefunded", "recordRefundFailed",
                       "reject"} :
          /\ HotelGoto(c, next)
          /\ next = "providerRefund" => hotelPayment = "PAID"
          /\ next = "recordRefunded" => hotelPc[c] = "providerRefund"
    BY <1>4 DEF HotelCreditWallet, HotelReadPayment, HotelProviderRefunds, HotelProviderRefuses,
                HotelRecordRefund, HotelSettlementFails
  <2>2. /\ hotelPc[c] \in Refunding
        /\ hotelLedger' \subseteq hotelLedger \cup {"refund"}
        /\ hotelPayment' \in {hotelPayment, "REFUNDED", "FAILED"}
        /\ hotelPayment' = "REFUNDED" =>
              hotelPayment = "REFUNDED" \/ hotelPc[c] = "recordRefunded"
        /\ hotelPaidBack' \subseteq hotelPaidBack \cup {c}
        /\ hotelPaidBack' # hotelPaidBack => hotelPc[c] = "providerRefund"
        /\ UNCHANGED <<hotelStatus, hotelRefunds, hotelHeld, hotelReleased, hotelCharge,
                       hotelHistory>>
    BY <1>4 DEF HotelCreditWallet, HotelReadPayment, HotelProviderRefunds, HotelProviderRefuses,
                HotelRecordRefund, HotelSettlementFails, Refunding, hotelRows, hotelOutside
  <2>3. /\ hotelPc' \in [HotelRequests -> HotelSteps]
        /\ hotelPc'[c] = next
        /\ \A d \in HotelCancellers : d # c => hotelPc'[d] = hotelPc[d]
        /\ \A r \in HotelCreators : hotelPc'[r] = hotelPc[r]
    BY <1>3, <2>1 DEF HotelSteps
  <2>4. Cancelling(c) /\ HotelLetGo /\ HotelLetGo' /\ hotelStatus \in Back
    BY <2>2 DEF GivenBackInv, Cancelling, Refunding, HotelLetGo, hotelHistory
  <2>5. HotelTypeOK'
    BY <2>2, <2>3 DEF HotelTypeOK, hotelHistory
  <2>6. next = "providerRefund" \/ hotelPc[c] \in {"providerRefund", "recordRefunded"} =>
          HotelCharged # {}
    BY <2>1 DEF TakenInv, GivenBackInv
  <2>7. OneCreator' /\ TakenInv' /\ HotelCharged' = HotelCharged
    BY <2>2, <2>3, <2>6, CancellerKeepsTaken
  <2>8. HotelRefundsAfterRelease'
    BY <2>2, <2>4 DEF HotelRefundsAfterRelease, Back
  <2>9. hotelPaidBack' # {} => HotelCharged' # {}
    BY <2>2, <2>6, <2>7 DEF GivenBackInv
  <2>10. GivenBackInv'
    BY <2>1, <2>2, <2>3, <2>4, <2>6, <2>7, <2>8, <2>9
    DEF GivenBackInv, Cancelling, Refunding, After, Back
  <2>11. OneCanceller'
    <3>1. \A d \in HotelCancellers : Acting(d)' => Acting(d)
      BY <2>2, <2>3, <2>4 DEF Acting, Cancelling
    <3> QED BY <2>2, <3>1 DEF OneCanceller, hotelHistory
  <2> QED BY <2>5, <2>7, <2>10, <2>11
\* The booking and the refund row move on.
<1>5. CASE \/ HotelMarkRefundPending(c) \/ HotelCreateRefund(c) \/ HotelCompleteRefund(c)
           \/ HotelRejectRefund(c) \/ HotelClose(c)
  <2>1. PICK next \in {"createRefund", "settleRefund", "close", "done"} : HotelGoto(c, next)
    BY <1>5 DEF HotelMarkRefundPending, HotelCreateRefund, HotelCompleteRefund,
                HotelRejectRefund, HotelClose, HotelSetRefund
  <2>2. /\ hotelPc[c] \in {"pend"} \cup Refunding
        /\ hotelStatus' \in {hotelStatus, "REFUND_PENDING", "REFUNDED"}
        /\ hotelPc[c] = "pend" => hotelStatus' = "REFUND_PENDING" /\ hotelRefunds' = hotelRefunds
        /\ \E new \in RefundStatuses :
             hotelRefunds' \in {hotelRefunds, [hotelRefunds EXCEPT ![c] = new]}
        /\ UNCHANGED <<hotelPayment, hotelLedger, hotelOutside, hotelHistory>>
    BY <1>5 DEF HotelMarkRefundPending, HotelCreateRefund, HotelCompleteRefund,
                HotelRejectRefund, HotelClose, HotelSetRefund, Refunding, RefundStatuses
  <2>3. /\ hotelPc' \in [HotelRequests -> HotelSteps]
        /\ hotelPc'[c] = next
        /\ \A d \in HotelCancellers : d # c => hotelPc'[d] = hotelPc[d]
        /\ \A r \in HotelCreators : hotelPc'[r] = hotelPc[r]
    BY <1>3, <2>1 DEF HotelSteps
  <2>4. Cancelling(c) /\ HotelLetGo /\ HotelLetGo' /\ hotelStatus \in After
    BY <2>2 DEF GivenBackInv, Cancelling, Refunding, HotelLetGo, hotelOutside, hotelHistory
  <2>5. hotelStatus' \in Back /\ (hotelStatus' = hotelStatus \/ hotelStatus' \in Back)
    BY <2>2 DEF GivenBackInv, Back
  <2>6. hotelRefunds' \in [HotelCancellers -> RefundStatuses]
    BY <2>2 DEF HotelTypeOK
  <2>7. HotelTypeOK'
    BY <2>2, <2>3, <2>5, <2>6 DEF HotelTypeOK, HotelStatuses, Back, hotelOutside, hotelHistory
  <2>8. OneCreator' /\ TakenInv' /\ HotelCharged' = HotelCharged
    BY <2>2, <2>3, <2>4, <2>5, CancellerKeepsTaken DEF hotelOutside
  <2>9. HotelRefundsAfterRelease'
    BY <2>4, <2>5 DEF HotelRefundsAfterRelease, Back
  <2>10. GivenBackInv'
    BY <2>2, <2>3, <2>4, <2>5, <2>8, <2>9
    DEF GivenBackInv, Cancelling, Refunding, After, Back, hotelOutside
  <2>11. OneCanceller'
    <3>1. \A d \in HotelCancellers : Acting(d)' => Acting(d)
      BY <2>2, <2>3, <2>4 DEF Acting, Cancelling, hotelOutside
    <3> QED BY <2>2, <3>1 DEF OneCanceller, hotelHistory
  <2> QED BY <2>7, <2>8, <2>10, <2>11
<1>6. CASE HotelSupplierDeclines(c) \/ HotelSupplierReleases(c)
  <2>0. HotelSupplierReleases(c) => HotelLetGo'
    BY Zenon DEF HotelSupplierReleases, HotelLetGo, hotelHistory
  <2>1. PICK next \in {"done", "pend"} :
          HotelGoto(c, next) /\ (next = "pend" => HotelLetGo')
    <3>1. CASE HotelSupplierDeclines(c)
      BY <3>1 DEF HotelSupplierDeclines
    <3>2. CASE HotelSupplierReleases(c)
      BY <2>0, <3>2 DEF HotelSupplierReleases
    <3> QED BY <1>6, <3>1, <3>2
  <2>2. /\ hotelPc[c] = "release"
        /\ hotelReleased' \in {hotelReleased, TRUE}
        /\ UNCHANGED <<hotelRows, hotelHeld, hotelCharge, hotelPaidBack, hotelHistory>>
    BY <1>6 DEF HotelSupplierDeclines, HotelSupplierReleases, HotelTypeOK
  <2>3. /\ hotelPc' \in [HotelRequests -> HotelSteps]
        /\ hotelPc'[c] = next
        /\ \A d \in HotelCancellers : d # c => hotelPc'[d] = hotelPc[d]
        /\ \A r \in HotelCreators : hotelPc'[r] = hotelPc[r]
    BY <1>3, <2>1 DEF HotelSteps
  <2>4. Cancelling(c) /\ hotelStatus \in After
    BY <2>2 DEF GivenBackInv, Cancelling
  <2>5. HotelTypeOK'
    BY <2>2, <2>3 DEF HotelTypeOK, hotelRows, hotelHistory
  <2>6. OneCreator' /\ TakenInv' /\ HotelCharged' = HotelCharged
    BY <2>2, <2>3, CancellerKeepsTaken DEF hotelRows
  <2>7. HotelLetGo => HotelLetGo'
    BY <2>2 DEF HotelLetGo, hotelHistory
  <2>8. HotelRefundsAfterRelease'
    BY <2>2, <2>7 DEF GivenBackInv, HotelRefundsAfterRelease, hotelRows
  <2>9. GivenBackInv'
    BY <2>1, <2>2, <2>3, <2>4, <2>6, <2>7, <2>8
    DEF GivenBackInv, Cancelling, Refunding, hotelRows
  <2>10. OneCanceller'
    <3>1. \A d \in HotelCancellers : Acting(d)' => Acting(d)
      BY <2>2, <2>3, <2>4 DEF Acting, Cancelling
    <3> QED BY <2>2, <3>1 DEF OneCanceller, hotelHistory
  <2> QED BY <2>5, <2>6, <2>9, <2>10
<1>7. CASE HotelLoad(c)
  <2>1. PICK next \in {"done", "release"} :
          HotelGoto(c, next) /\ (next = "release" => hotelStatus = "CONFIRMED")
    BY <1>7 DEF HotelLoad
  <2>2. /\ hotelPc[c] = "load"
        /\ hotelOverlap' = (hotelOverlap \/ \E d \in HotelCancellers \ {c} : Cancelling(d))
        /\ UNCHANGED <<hotelRows, hotelOutside, hotelBuyer, hotelReleasable, hotelCrashed>>
    BY <1>7 DEF HotelLoad
  <2>3. /\ hotelPc' \in [HotelRequests -> HotelSteps]
        /\ hotelPc'[c] = next
        /\ \A d \in HotelCancellers : d # c => hotelPc'[d] = hotelPc[d]
        /\ \A r \in HotelCreators : hotelPc'[r] = hotelPc[r]
    BY <1>3, <2>1 DEF HotelSteps
  <2>4. HotelTypeOK'
    BY <2>2, <2>3 DEF HotelTypeOK, hotelRows, hotelOutside
  <2>5. OneCreator' /\ TakenInv' /\ HotelCharged' = HotelCharged
    BY <2>2, <2>3, CancellerKeepsTaken DEF hotelRows, hotelOutside
  <2>6. HotelRefundsAfterRelease' /\ HotelLetGo' = HotelLetGo
    BY <2>2 DEF GivenBackInv, HotelRefundsAfterRelease, HotelLetGo, hotelRows, hotelOutside
  <2>7. GivenBackInv'
    BY <2>1, <2>2, <2>3, <2>5, <2>6
    DEF GivenBackInv, Cancelling, Refunding, After, hotelRows, hotelOutside
  <2>8. ASSUME ~hotelOverlap', NEW d \in HotelCancellers, NEW e \in HotelCancellers,
               Acting(d)', Acting(e)'
        PROVE  d = e
    <3>1. ~hotelOverlap /\ \A f \in HotelCancellers \ {c} : ~Cancelling(f)
      BY <2>2, <2>8
    <3>2. CASE next = "done"
      <4>1. ~Cancelling(c)' /\ \A f \in HotelCancellers : Acting(f)' => Acting(f)
        BY <2>2, <2>3, <3>2 DEF Acting, Cancelling, hotelOutside
      <4> QED BY <2>8, <3>1, <4>1 DEF OneCanceller
    <3>3. CASE next = "release"
      <4>1. hotelPaidBack' = {}
        BY <2>1, <2>2, <3>3 DEF GivenBackInv, HotelRefundsAfterRelease, hotelOutside
      <4>2. \A f \in HotelCancellers \ {c} : ~Cancelling(f)'
        BY <2>3, <3>1 DEF Cancelling
      <4> QED BY <2>8, <4>1, <4>2 DEF Acting
    <3> QED BY <3>2, <3>3
  <2>9. OneCanceller'
    BY <2>8 DEF OneCanceller
  <2> QED BY <2>4, <2>5, <2>7, <2>9
<1> QED BY <1>4, <1>5, <1>6, <1>7 DEF HotelCancellerStep

-----------------------------------------------------------------------------
(* Deaths, and the invariant of the specification.                         *)

LEMMA CrashKeepsInv ==
  ASSUME HotelInv, NEW r \in HotelRequests, HotelCrash(r)
  PROVE  HotelInv'
<1> USE DEF HotelInv
<1>1. /\ hotelPc' = [hotelPc EXCEPT ![r] = "done"]
      /\ hotelCrashed' = TRUE
      /\ UNCHANGED <<hotelRows, hotelOutside, hotelBuyer, hotelReleasable, hotelOverlap>>
  BY DEF HotelCrash, HotelGoto
<1>2. /\ hotelPc' \in [HotelRequests -> HotelSteps]
      /\ \A q \in HotelRequests : hotelPc'[q] \in {hotelPc[q], "done"}
  BY <1>1 DEF HotelTypeOK, HotelSteps
<1>3. HotelTypeOK' /\ HotelCharged' = HotelCharged
  BY <1>1, <1>2 DEF HotelTypeOK, hotelRows, hotelOutside, HotelCharged
<1>4. HotelCreators \subseteq HotelRequests /\ HotelCancellers \subseteq HotelRequests
  BY DEF HotelRequests
<1>5. \A q \in HotelCreators : Trace(q)' => Trace(q)
  BY <1>1, <1>2, <1>4 DEF Trace, BeforeConfirmation, Settling, hotelOutside
<1>6. OneCreator'
  BY <1>1, <1>5 DEF OneCreator, hotelRows
<1>7. TakenInv'
  BY <1>1, <1>2, <1>3, <1>4 DEF TakenInv, HotelMoneyAfterConfirmation, BeforeConfirmation,
                               Settling, hotelRows, hotelOutside
<1>8. GivenBackInv'
  BY <1>1, <1>2, <1>3, <1>4 DEF GivenBackInv, HotelRefundsAfterRelease, HotelLetGo, Cancelling,
                               Refunding, hotelRows, hotelOutside
<1>9. \A d \in HotelCancellers : Acting(d)' => Acting(d)
  BY <1>1, <1>2, <1>4 DEF Acting, Cancelling, hotelOutside
<1>10. OneCanceller'
  BY <1>1, <1>9 DEF OneCanceller
<1> QED BY <1>3, <1>6, <1>7, <1>8, <1>10

LEMMA StutterKeepsInv ==
  ASSUME HotelInv, UNCHANGED hotelVars
  PROVE  HotelInv'
<1>1. UNCHANGED <<hotelStatus, hotelPayment, hotelLedger, hotelRefunds, hotelHeld, hotelReleased,
                 hotelCharge, hotelPaidBack, hotelPc, hotelBuyer, hotelReleasable, hotelOverlap,
                 hotelCrashed>>
  BY DEF hotelVars, hotelRows, hotelOutside, hotelHistory
<1>2. HotelTypeOK' /\ HotelCharged' = HotelCharged
  BY <1>1 DEF HotelInv, HotelTypeOK, HotelCharged
<1>3. OneCreator' /\ OneCanceller'
  BY <1>1 DEF HotelInv, OneCreator, Trace, OneCanceller, Acting, Cancelling
<1>4. TakenInv'
  BY <1>1, <1>2 DEF HotelInv, TakenInv, HotelMoneyAfterConfirmation
<1>5. GivenBackInv'
  BY <1>1, <1>2 DEF HotelInv, GivenBackInv, HotelRefundsAfterRelease, HotelLetGo, Cancelling
<1> QED BY <1>2, <1>3, <1>4, <1>5 DEF HotelInv

LEMMA AlwaysHotelInv == HotelSpec => []HotelInv
<1>1. HotelInv /\ [HotelNext]_hotelVars => HotelInv'
  BY CreatorKeepsInv, CancellerKeepsInv, CrashKeepsInv, StutterKeepsInv
  DEF HotelNext, HotelStep
<1> QED BY HotelInitInv, <1>1, PTL DEF HotelSpec

-----------------------------------------------------------------------------
\* The rows of a hotel booking, the requests that work on it and what the
\* supplier and the provider did are well-formed, whoever dies or overlaps.
THEOREM HotelTypeCorrect == HotelSpec => []HotelTypeOK
<1>1. HotelInv => HotelTypeOK
  BY DEF HotelInv
<1> QED BY <1>1, AlwaysHotelInv, PTL

LEMMA AtMostOne ==
  ASSUME NEW S, \A x, y \in S : x = y
  PROVE  Cardinality(S) <= 1 /\ (S # {} => Cardinality(S) = 1)
<1>1. CASE S = {}
  BY <1>1, FS_EmptySet
<1>2. CASE S # {}
  <2>1. PICK x : S = {x}
    BY <1>2
  <2> QED BY <1>2, <2>1, FS_Singleton
<1> QED BY <1>1, <1>2

\* Any number of createBooking requests with one key make one reservation and
\* one charge, after CONFIRMED; any number of cancellations give money back
\* only behind the release of a supplier that can be asked for one, and once
\* unless two of them overlap.
THEOREM HotelMoneyAlwaysSound == HotelSpec => []HotelMoneySound
<1>1. ASSUME HotelInv PROVE HotelMoneySound
  <2>1. \A r, q \in hotelHeld : r = q
    BY <1>1 DEF HotelInv, HotelTypeOK, OneCreator, Trace
  <2>2. \A r, q \in HotelCharged : r = q
    BY <1>1 DEF HotelInv, HotelCharged, OneCreator, Trace
  <2>3. HotelSoldOnce
    BY <2>1, <2>2, AtMostOne DEF HotelSoldOnce
  <2>4. ASSUME ~hotelOverlap PROVE Cardinality(hotelPaidBack) <= Cardinality(HotelCharged)
    <3>1. \A c, d \in hotelPaidBack : c = d
      BY <1>1, <2>4 DEF HotelInv, HotelTypeOK, OneCanceller, Acting
    <3>2. CASE hotelPaidBack = {}
      <4>1. Cardinality(HotelCharged) \in {0, 1}
        BY <2>2, AtMostOne, FS_EmptySet
      <4> QED BY <3>2, <4>1, FS_EmptySet
    <3>3. CASE hotelPaidBack # {}
      <4>1. HotelCharged # {}
        BY <1>1, <3>3 DEF HotelInv, GivenBackInv
      <4>2. Cardinality(hotelPaidBack) = 1 /\ Cardinality(HotelCharged) = 1
        BY <2>2, <3>1, <3>3, <4>1, AtMostOne
      <4> QED BY <4>2
    <3> QED BY <3>2, <3>3
  <2> QED BY <1>1, <2>3, <2>4
          DEF HotelInv, TakenInv, GivenBackInv, HotelMoneySound, HotelRefundedOnce
<1> QED BY <1>1, AlwaysHotelInv, PTL
-----------------------------------------------------------------------------
(* Travel packages.                                                        *)

\* What a booking that was once sold can be.
StatusesOnceSold(l) ==
  IF l \in FlightLegs
  THEN {"CONFIRMED", "TICKETED", "FAILED", "CANCELLED", "REFUND_PENDING", "REFUNDED"}
  ELSE {"CONFIRMED", "REFUND_PENDING", "REFUNDED"}

\* A request has seen legs it asks for, all of them before the transaction,
\* and makes its package of them.
LegsAreSeen ==
  \A p \in Packagers :
    /\ legsSeen[p] \subseteq packageLegs[p]
    /\ packagePc[p] = "start" => packageLegs[p] = {}
    /\ packagePc[p] = "create" => legsSeen[p] = packageLegs[p]
    /\ packages[p] \subseteq legsSeen[p]
    /\ packages[p] # {} => packagePc[p] = "done"

\* Whatever happens to a leg that was seen, it was sold.
SeenWereSold ==
  \A p \in Packagers : \A l \in legsSeen[p] : legStatus[l] \in StatusesOnceSold(l)

\* Until two requests overlap one is under way, and what it has seen is free
\* still; every package owns its legs.
Under(p) == packagePc[p] \in {"read", "create"}
OneUnderWay ==
  ~packageOverlap =>
    /\ \A p, q \in Packagers : Under(p) /\ Under(q) => p = q
    /\ \A p \in Packagers : Under(p) => \A l \in legsSeen[p] : packageId[l] = NoPackage
    /\ \A p \in Packagers : \A l \in packages[p] : packageId[l] = p

PackageInv == PackageTypeOK /\ LegsAreSeen /\ SeenWereSold /\ OneUnderWay

LEMMA PackageInitInv == PackageInit => PackageInv
<1> SUFFICES ASSUME PackageInit PROVE PackageInv
  OBVIOUS
<1> USE DEF PackageInit
<1>1. PackageTypeOK
  BY DEF PackageTypeOK, Statuses, Legs
<1>2. LegsAreSeen /\ SeenWereSold /\ OneUnderWay
  BY DEF LegsAreSeen, SeenWereSold, OneUnderWay, Under
<1> QED BY <1>1, <1>2 DEF PackageInv

LEMMA LegMovesInv ==
  ASSUME PackageInv, NEW l \in Legs, NEW to \in Statuses, LegMoves(l, to)
  PROVE  PackageInv'
<1>1. /\ IF l \in FlightLegs THEN IsTransitionAllowed(legStatus[l], to)
         ELSE <<legStatus[l], to>> \in HotelMoves
      /\ legStatus' = [legStatus EXCEPT ![l] = to]
      /\ UNCHANGED <<packageId, packages, packagePc, packageLegs, legsSeen, packageOverlap>>
  BY DEF LegMoves, packageThread
<1>2. l \notin FlightLegs => to \in {"CONFIRMED", "FAILED", "REFUND_PENDING", "REFUNDED"}
  BY <1>1 DEF HotelMoves
<1>3. legStatus[l] \in StatusesOnceSold(l) => to \in StatusesOnceSold(l)
  BY <1>1 DEF StatusesOnceSold, IsTransitionAllowed, ALLOWED_BOOKING_TRANSITIONS, HotelMoves
<1>4. \A m \in Legs : legStatus'[m] \in {legStatus[m], to} /\ (m # l => legStatus'[m] = legStatus[m])
  BY <1>1 DEF PackageInv, PackageTypeOK
<1>5. PackageTypeOK'
  BY <1>1, <1>2, <1>4 DEF PackageInv, PackageTypeOK
<1>6. SeenWereSold'
  <2>1. \A p \in Packagers : legsSeen[p] \subseteq Legs
    BY DEF PackageInv, PackageTypeOK
  <2>2. \A m \in Legs :
          legStatus[m] \in StatusesOnceSold(m) => legStatus'[m] \in StatusesOnceSold(m)
    BY <1>3, <1>4
  <2> QED BY <1>1, <2>1, <2>2 DEF PackageInv, SeenWereSold
<1>7. LegsAreSeen' /\ OneUnderWay'
  BY <1>1 DEF PackageInv, LegsAreSeen, OneUnderWay, Under
<1> QED BY <1>5, <1>6, <1>7 DEF PackageInv

LEMMA RequestPackageInv ==
  ASSUME PackageInv, NEW p \in Packagers, NEW f \in FlightLegs, NEW h \in HotelLegs,
         RequestPackage(p, f, h)
  PROVE  PackageInv'
<1>1. /\ packagePc[p] = "start"
      /\ packagePc' = [packagePc EXCEPT ![p] = "read"]
      /\ packageLegs' = [packageLegs EXCEPT ![p] = {f, h}]
      /\ packageOverlap' =
           (packageOverlap \/ \E q \in Packagers : packagePc[q] \in {"read", "create"})
      /\ UNCHANGED <<legStatus, packageId, packages, legsSeen>>
  BY DEF RequestPackage
<1>2. /\ packagePc'[p] = "read" /\ packageLegs'[p] = {f, h}
      /\ \A q \in Packagers \ {p} : packagePc'[q] = packagePc[q] /\ packageLegs'[q] = packageLegs[q]
  BY <1>1 DEF PackageInv, PackageTypeOK
<1>3. legsSeen[p] = {} /\ packages[p] = {}
  BY <1>1 DEF PackageInv, LegsAreSeen
<1>4. PackageTypeOK'
  <2>1. {f, h} \in SUBSET Legs
    BY DEF Legs
  <2>2. packageOverlap' \in BOOLEAN
    BY <1>1
  <2> QED BY <1>1, <2>1, <2>2 DEF PackageInv, PackageTypeOK
<1>5. LegsAreSeen'
  <2>1. \A q \in Packagers \ {p} : LegsAreSeen!(q)'
    BY <1>1, <1>2 DEF PackageInv, LegsAreSeen
  <2>2. LegsAreSeen!(p)'
    BY <1>1, <1>2, <1>3
  <2> QED BY <2>1, <2>2 DEF LegsAreSeen
<1>6. SeenWereSold'
  BY <1>1 DEF PackageInv, SeenWereSold, StatusesOnceSold
<1>7. OneUnderWay'
  <2> SUFFICES ASSUME ~packageOverlap' PROVE OneUnderWay'
    BY DEF OneUnderWay
  <2>1. \A q \in Packagers \ {p} : ~Under(q)'
    BY <1>1, <1>2 DEF Under
  <2> QED BY <1>1, <1>3, <2>1 DEF PackageInv, OneUnderWay
<1> QED BY <1>4, <1>5, <1>6, <1>7 DEF PackageInv

LEMMA ReadLegInv ==
  ASSUME PackageInv, NEW p \in Packagers, NEW l \in Legs, ReadLeg(p, l)
  PROVE  PackageInv'
<1> DEFINE seen == legsSeen[p] \cup {l}
<1> DEFINE next == IF seen = packageLegs[p] THEN "create" ELSE "read"
<1>1. /\ packagePc[p] = "read" /\ l \in packageLegs[p] /\ Sold(l) /\ packageId[l] = NoPackage
      /\ legsSeen' = [legsSeen EXCEPT ![p] = seen]
      /\ legsSeen'[p] = seen
      /\ packagePc' = [packagePc EXCEPT ![p] = next]
      /\ UNCHANGED <<legStatus, packageId, packages, packageLegs, packageOverlap>>
  BY DEF ReadLeg, PackageInv, PackageTypeOK
<1>2. next \in {"read", "create"} /\ (next = "create" => seen = packageLegs[p])
  OBVIOUS
<1>3. legStatus[l] \in StatusesOnceSold(l)
  BY <1>1 DEF Sold, StatusesOnceSold
<1>4. seen \subseteq packageLegs[p] /\ seen \subseteq Legs /\ legsSeen[p] \subseteq seen
  BY <1>1 DEF PackageInv, PackageTypeOK, LegsAreSeen
<1> HIDE DEF next
<1>5. /\ packagePc'[p] = next
      /\ \A q \in Packagers \ {p} : packagePc'[q] = packagePc[q] /\ legsSeen'[q] = legsSeen[q]
  BY <1>1 DEF PackageInv, PackageTypeOK
<1>6. PackageTypeOK'
  BY <1>1, <1>2, <1>4 DEF PackageInv, PackageTypeOK
<1>7. LegsAreSeen'
  <2>1. \A q \in Packagers \ {p} : LegsAreSeen!(q)'
    BY <1>1, <1>5 DEF PackageInv, LegsAreSeen
  <2>2. LegsAreSeen!(p)'
    BY <1>1, <1>2, <1>4, <1>5 DEF PackageInv, LegsAreSeen
  <2> QED BY <2>1, <2>2 DEF LegsAreSeen
<1>8. SeenWereSold'
  BY <1>1, <1>3, <1>5 DEF PackageInv, SeenWereSold, StatusesOnceSold
<1>9. OneUnderWay'
  <2>1. \A q \in Packagers : Under(q)' <=> Under(q)
    BY <1>1, <1>2, <1>5 DEF Under
  <2> QED BY <1>1, <1>5, <2>1 DEF PackageInv, OneUnderWay
<1> QED BY <1>6, <1>7, <1>8, <1>9 DEF PackageInv

LEMMA RefusePackageInv ==
  ASSUME PackageInv, NEW p \in Packagers, RefusePackage(p) PROVE PackageInv'
<1>1. /\ packagePc[p] \in {"read", "create"} /\ packagePc' = [packagePc EXCEPT ![p] = "done"]
      /\ UNCHANGED <<legStatus, packageId, packages, packageLegs, legsSeen, packageOverlap>>
  BY DEF RefusePackage
<1>2. packagePc'[p] = "done" /\ \A q \in Packagers \ {p} : packagePc'[q] = packagePc[q]
  BY <1>1 DEF PackageInv, PackageTypeOK
<1>3. PackageTypeOK' /\ SeenWereSold'
  BY <1>1 DEF PackageInv, PackageTypeOK, SeenWereSold, StatusesOnceSold
<1>4. LegsAreSeen'
  BY <1>1, <1>2 DEF PackageInv, LegsAreSeen
<1>5. OneUnderWay'
  <2>1. \A q \in Packagers : Under(q)' => Under(q)
    BY <1>2 DEF Under
  <2> QED BY <1>1, <2>1 DEF PackageInv, OneUnderWay
<1> QED BY <1>3, <1>4, <1>5 DEF PackageInv

LEMMA CreatePackageInv ==
  ASSUME PackageInv, NEW p \in Packagers, CreatePackage(p) PROVE PackageInv'
<1>1. /\ packagePc[p] = "create"
      /\ packages' = [packages EXCEPT ![p] = packageLegs[p]]
      /\ packageId' = [l \in Legs |-> IF l \in packageLegs[p] THEN p ELSE packageId[l]]
      /\ packagePc' = [packagePc EXCEPT ![p] = "done"]
      /\ UNCHANGED <<legStatus, packageLegs, legsSeen, packageOverlap>>
  BY DEF CreatePackage
<1>2. legsSeen[p] = packageLegs[p] /\ packageLegs[p] \subseteq Legs /\ packages[p] = {}
  BY <1>1 DEF PackageInv, PackageTypeOK, LegsAreSeen
<1>3. /\ packagePc'[p] = "done" /\ packages'[p] = packageLegs[p]
      /\ \A q \in Packagers \ {p} : packagePc'[q] = packagePc[q] /\ packages'[q] = packages[q]
  BY <1>1 DEF PackageInv, PackageTypeOK
<1>4. PackageTypeOK'
  <2>1. packageId' \in [Legs -> Packagers \cup {NoPackage}]
    BY <1>1 DEF PackageInv, PackageTypeOK
  <2>2. packages' \in [Packagers -> SUBSET Legs]
    BY <1>1, <1>2 DEF PackageInv, PackageTypeOK
  <2> QED BY <1>1, <2>1, <2>2 DEF PackageInv, PackageTypeOK
<1>5. LegsAreSeen'
  <2>1. \A q \in Packagers \ {p} : LegsAreSeen!(q)'
    BY <1>1, <1>3 DEF PackageInv, LegsAreSeen
  <2>2. LegsAreSeen!(p)'
    BY <1>1, <1>2, <1>3
  <2> QED BY <2>1, <2>2 DEF LegsAreSeen
<1>6. SeenWereSold'
  BY <1>1 DEF PackageInv, SeenWereSold, StatusesOnceSold
<1>7. OneUnderWay'
  <2> SUFFICES ASSUME ~packageOverlap' PROVE OneUnderWay'
    BY DEF OneUnderWay
  <2>1. /\ \A q, r \in Packagers : Under(q) /\ Under(r) => q = r
        /\ \A q \in Packagers : Under(q) => \A l \in legsSeen[q] : packageId[l] = NoPackage
        /\ \A q \in Packagers : \A l \in packages[q] : packageId[l] = q
    BY <1>1 DEF PackageInv, OneUnderWay
  <2>2. \A q \in Packagers : ~Under(q)'
    BY <1>1, <1>3, <2>1 DEF Under
  <2>3. ASSUME NEW q \in Packagers, NEW l \in packages'[q] PROVE packageId'[l] = q
    <3>1. CASE q = p
      BY <3>1, <2>3, <1>1, <1>2, <1>3
    <3>2. CASE q # p
      <4>1. l \in packages[q] /\ packageId[l] = q /\ l \in Legs
        BY <3>2, <2>1, <2>3, <1>3 DEF PackageInv, PackageTypeOK
      <4>2. q # NoPackage
        BY PackageAssumption DEF NoPackage
      <4>3. l \notin packageLegs[p]
        BY <1>1, <1>2, <2>1, <4>1, <4>2 DEF Under
      <4> QED BY <1>1, <4>1, <4>3
    <3> QED BY <3>1, <3>2
  <2> QED BY <2>2, <2>3 DEF OneUnderWay
<1> QED BY <1>4, <1>5, <1>6, <1>7 DEF PackageInv

LEMMA PackageStepInv == PackageInv /\ [PackageNext]_packageVars => PackageInv'
<1> SUFFICES ASSUME PackageInv, [PackageNext]_packageVars PROVE PackageInv'
  OBVIOUS
<1>1. CASE UNCHANGED packageVars
  <2> USE <1>1 DEF packageVars, packageThread
  <2>1. PackageTypeOK' /\ LegsAreSeen'
    BY DEF PackageInv, PackageTypeOK, LegsAreSeen
  <2>2. SeenWereSold' /\ OneUnderWay'
    BY DEF PackageInv, SeenWereSold, StatusesOnceSold, OneUnderWay, Under
  <2> QED BY <2>1, <2>2 DEF PackageInv
<1> QED BY <1>1, LegMovesInv, RequestPackageInv, ReadLegInv, RefusePackageInv, CreatePackageInv
        DEF PackageNext

\* PackageTypeOK and PackagesSound: for any legs and requests, whatever becomes
\* of a booking between the check and the transaction, a package is made of
\* bookings that had been sold, and owns both of them until requests overlap.
THEOREM PackagesAlwaysSound == PackageSpec => [](PackageTypeOK /\ PackagesSound)
<1>1. PackageSpec => []PackageInv
  BY PackageInitInv, PackageStepInv, PTL DEF PackageSpec
<1>2. PackageInv => PackageTypeOK /\ PackagesSound
  <2> SUFFICES ASSUME PackageInv PROVE PackageTypeOK /\ PackagesSound
    OBVIOUS
  <2>1. PackagedLegsWereSold
    BY DEF PackageInv, LegsAreSeen, SeenWereSold, StatusesOnceSold, PackagedLegsWereSold
  <2>2. PackagesOwnTheirLegs
    BY DEF PackageInv, OneUnderWay, PackagesOwnTheirLegs
  <2> QED BY <2>1, <2>2 DEF PackageInv, PackagesSound
<1> QED BY <1>1, <1>2, PTL
-----------------------------------------------------------------------------
(* Pilgrimage departures: types, seats and charges.                        *)

\* A request is where only its kind gets, and the rows it relies on exist.
PaymentMade(t) ==
  hajjPc[t] \in {"charge", "recordPaid", "recordFailed", "readAccount", "writeAccount"}
PlacesInv ==
  \A t \in HajjThreads :
    /\ hajjPc[t] \in {"readPackage", "reserve"} => t \in Bookers
    /\ hajjPc[t] = "resize" => t \in Admins
    /\ Paying(t) => t \in Customers /\ pilgrimage[ask[t].booking] # NoBookingRow
    /\ PaymentMade(t) => hajjPayment[PaymentKey(t)] # NoPayment

HajjTypeInv == HajjTypeOK /\ PlacesInv

-----------------------------------------------------------------------------
(* Requests, amounts and rows.                                             *)

PilgrimageRow ==
  [pilgrims : Nat, total : Nat, minimum : Nat, amountPaid : Nat, status : PilgrimageStatuses]
PaymentRow == [booking : Pilgrimages, amount : Nat, status : {"PENDING", "PAID", "FAILED"}]

LEMMA AskFields ==
  ASSUME ask \in Scenarios, NEW t \in HajjThreads
  PROVE  /\ t \in Bookers => /\ ask[t].booking \in Pilgrimages
                             /\ ask[t].pilgrims \in Nat \ {0}
                             /\ ask[t].amount \in Nat
         /\ t \in Payers => /\ ask[t].booking \in Pilgrimages
                            /\ ask[t].key \in InstalmentKeys
                            /\ ask[t].amount \in Nat
         /\ t \in Admins => /\ ask[t].capacity \in Nat
                            /\ ask[t].price \in Nat \ {0}
         /\ ~(t \in Bookers /\ t \in Payers)
         /\ ~(t \in Bookers /\ t \in Admins)
         /\ ~(t \in Payers /\ t \in Admins)
<1>1. ask[t] \in HajjRequest
  BY HajjAssumption
<1> QED BY <1>1 DEF HajjRequest, Bookers, Payers, Admins

LEMMA KeyFields ==
  ASSUME ask \in Scenarios, NEW t \in Customers
  PROVE  /\ t \in HajjThreads
         /\ ask[t].booking \in Pilgrimages
         /\ ask[t].amount \in Nat
         /\ PaymentKey(t) \in PaymentKeys
<1>1. t \in HajjThreads /\ (t \in Bookers \/ t \in Payers)
  BY DEF Customers, Bookers, Payers
<1> QED BY <1>1, AskFields DEF PaymentKey, PaymentKeys

LEMMA ProductNat == ASSUME NEW a \in Nat, NEW b \in Nat PROVE a * b \in Nat
OBVIOUS

LEMMA MinimumNat ==
  ASSUME NEW total \in Nat, NEW pilgrims \in Nat
  PROVE  MinimumDeposit(total, pilgrims) \in Nat
<1>1. Deposit.value \in Nat
  BY HajjAssumption
<1>2. total * Deposit.value \in Nat /\ Deposit.value * pilgrims \in Nat
  BY <1>1, ProductNat
<1>3. \A n \in Nat : (n + 50) \div 100 \in Nat
  OBVIOUS
<1> QED BY <1>2, <1>3 DEF MinimumDeposit, PercentOf

LEMMA StatusComputed ==
  ASSUME NEW paid, NEW minimum, NEW total
  PROVE  ComputeStatus(paid, minimum, total) \in PilgrimageStatuses
BY DEF ComputeStatus, PilgrimageStatuses

LEMMA RowsDiffer ==
  /\ NoBookingRow \notin PilgrimageRow
  /\ NoPayment \notin PaymentRow
BY DEF NoBookingRow, PilgrimageRow, PilgrimageStatuses, NoPayment, PaymentRow

LEMMA BookingRowTyped ==
  ASSUME HajjTypeOK, NEW t \in Bookers
  PROVE  BookingRow(t) \in PilgrimageRow
<1>1. t \in HajjThreads /\ ask[t].pilgrims \in Nat /\ hajjRead[t] \in Nat
  BY AskFields DEF HajjTypeOK, Bookers
<1> DEFINE total == hajjRead[t] * ask[t].pilgrims
<1>2. total \in Nat
  BY <1>1, ProductNat
<1>3. MinimumDeposit(total, ask[t].pilgrims) \in Nat
  BY <1>1, <1>2, MinimumNat
<1>4. BookingRow(t) =
        [pilgrims |-> ask[t].pilgrims, total |-> total,
         minimum |-> MinimumDeposit(total, ask[t].pilgrims),
         amountPaid |-> 0, status |-> "PENDING_DEPOSIT"]
  BY DEF BookingRow
<1> HIDE DEF total
<1> QED BY <1>1, <1>2, <1>3, <1>4 DEF PilgrimageRow, PilgrimageStatuses

\* What a request charges is a natural number once the booking exists.
LEMMA ChargeNat ==
  ASSUME HajjTypeOK, NEW t \in Customers
  PROVE  ChargeAmount(t) \in Nat
<1>1. ask[t].booking \in Pilgrimages /\ ask[t].amount \in Nat
  BY KeyFields DEF HajjTypeOK
<1>2. pilgrimage[ask[t].booking] \in PilgrimageRow \cup {NoBookingRow}
  BY <1>1 DEF HajjTypeOK, PilgrimageRow
<1>3. pilgrimage[ask[t].booking].minimum \in Nat
  BY <1>2 DEF PilgrimageRow, NoBookingRow
<1> QED BY <1>1, <1>3 DEF ChargeAmount
-----------------------------------------------------------------------------
(* Type correctness.                                                       *)

LEMMA HajjInitTyped == HajjInit => HajjTypeInv
<1> SUFFICES ASSUME HajjInit PROVE HajjTypeInv
  OBVIOUS
<1>1. HajjTypeOK
  BY HajjAssumption DEF HajjInit, HajjTypeOK, HajjSteps
<1>2. PlacesInv
  BY DEF HajjInit, PlacesInv, Paying, PaymentMade
<1> QED BY <1>1, <1>2 DEF HajjTypeInv

\* A request that moves on, or ends, and leaves the rows alone keeps the
\* others where they are.
LEMMA MoveTyped ==
  ASSUME HajjTypeInv, NEW t \in HajjThreads, NEW next \in HajjSteps,
         hajjPc' = [hajjPc EXCEPT ![t] = next],
         UNCHANGED <<ask, pilgrimage, hajjPayment>>,
         next \in {"readPackage", "reserve"} => t \in Bookers,
         next = "resize" => t \in Admins,
         next \in {"findPayment", "insertPayment", "charge", "recordPaid", "recordFailed",
                   "readAccount", "writeAccount"}
           => t \in Customers /\ pilgrimage[ask[t].booking] # NoBookingRow,
         next \in {"charge", "recordPaid", "recordFailed", "readAccount", "writeAccount"}
           => hajjPayment[PaymentKey(t)] # NoPayment
  PROVE  hajjPc' \in [HajjThreads -> HajjSteps] /\ PlacesInv'
<1>1. hajjPc \in [HajjThreads -> HajjSteps] /\ PlacesInv
  BY DEF HajjTypeInv, HajjTypeOK
<1>2. hajjPc' \in [HajjThreads -> HajjSteps]
  BY <1>1
<1>3. /\ \A u : PaymentKey(u)' = PaymentKey(u)
      /\ Bookers' = Bookers /\ Admins' = Admins /\ Customers' = Customers
  BY DEF PaymentKey, Bookers, Admins, Customers, Payers
<1>4. ASSUME NEW u \in HajjThreads, u # t
      PROVE  hajjPc'[u] = hajjPc[u]
  BY <1>1, <1>4
<1>5. hajjPc'[t] = next
  BY <1>1
<1>6. PlacesInv'
  BY <1>1, <1>3, <1>4, <1>5 DEF PlacesInv, Paying, PaymentMade
<1> QED BY <1>2, <1>6

LEMMA BookTyped ==
  ASSUME HajjTypeInv, NEW t \in HajjThreads,
         HajjLookUp(t) \/ ReadPackage(t) \/ RefuseBooking(t) \/ Reserve(t) \/ ReserveConflict(t)
  PROVE  HajjTypeInv'
<1> USE DEF HajjTypeInv
<1>1. CASE HajjLookUp(t)
  <2>1. PICK next \in {"readPackage", "done"} : hajjPc' = [hajjPc EXCEPT ![t] = next]
    BY <1>1 DEF HajjLookUp, HajjGoto
  <2>2. /\ t \in Bookers
        /\ UNCHANGED <<package, pilgrimage, hajjPayment, hajjCharges, hajjRead, hajjFlags>>
    BY <1>1 DEF HajjLookUp
  <2>3. hajjPc' \in [HajjThreads -> HajjSteps] /\ PlacesInv'
    BY <2>1, <2>2, MoveTyped DEF package, HajjSteps
  <2> QED BY <2>2, <2>3 DEF HajjTypeOK, package, hajjFlags
<1>2. CASE ReadPackage(t)
  <2>1. /\ hajjPc[t] = "readPackage"
        /\ hajjPc' = [hajjPc EXCEPT ![t] = "reserve"]
        /\ hajjRead' = [hajjRead EXCEPT ![t] = price]
        /\ seatsOverlap' = (seatsOverlap \/ \E u \in HajjThreads : AboutToWriteSeats(u))
        /\ UNCHANGED <<package, pilgrimage, hajjPayment, hajjCharges,
                       accountOverlap, replayed, hajjCrashed>>
    BY <1>2 DEF ReadPackage, HajjGoto
  <2>2. t \in Bookers
    BY <2>1 DEF PlacesInv
  <2>3. hajjPc' \in [HajjThreads -> HajjSteps] /\ PlacesInv'
    BY <2>1, <2>2, MoveTyped DEF package, HajjSteps
  <2> QED BY <2>1, <2>3 DEF HajjTypeOK, package
<1>3. CASE RefuseBooking(t) \/ ReserveConflict(t)
  <2>1. /\ hajjPc' = [hajjPc EXCEPT ![t] = "done"]
        /\ hajjRead' = [hajjRead EXCEPT ![t] = 0]
        /\ UNCHANGED <<package, pilgrimage, hajjPayment, hajjCharges, hajjFlags>>
    BY <1>3 DEF RefuseBooking, ReserveConflict, HajjEnd, HajjGoto
  <2>2. hajjPc' \in [HajjThreads -> HajjSteps] /\ PlacesInv'
    BY <2>1, MoveTyped DEF package, HajjSteps
  <2> QED BY <2>1, <2>2 DEF HajjTypeOK, package, hajjFlags
<1>4. CASE Reserve(t)
  <2> DEFINE b == ask[t].booking
  <2>1. /\ hajjPc[t] = "reserve"
        /\ pilgrimage[b] = NoBookingRow
        /\ seatsBooked' = seatsBooked + ask[t].pilgrims
        /\ pilgrimage' = [pilgrimage EXCEPT ![b] = BookingRow(t)]
        /\ hajjPc' = [hajjPc EXCEPT ![t] = "findPayment"]
        /\ hajjRead' = [hajjRead EXCEPT ![t] = 0]
        /\ accountOverlap' \in BOOLEAN
        /\ UNCHANGED <<capacity, price, active, ask, hajjPayment, hajjCharges,
                       seatsOverlap, replayed, hajjCrashed>>
    BY <1>4 DEF Reserve, HajjGoto, NoteAccount, HajjTypeOK
  <2>2. t \in Bookers /\ t \in Customers
    BY <2>1 DEF PlacesInv, Customers
  <2>3. b \in Pilgrimages /\ ask[t].pilgrims \in Nat
    BY <2>2, AskFields DEF HajjTypeOK
  <2>4. BookingRow(t) \in PilgrimageRow /\ BookingRow(t) # NoBookingRow
    BY <2>2, BookingRowTyped, RowsDiffer
  <2>5. /\ pilgrimage' \in [Pilgrimages -> PilgrimageRow \cup {NoBookingRow}]
        /\ pilgrimage'[b] # NoBookingRow
        /\ \A c \in Pilgrimages : pilgrimage[c] # NoBookingRow => pilgrimage'[c] # NoBookingRow
    BY <2>1, <2>3, <2>4 DEF HajjTypeOK, PilgrimageRow
  <2>6. HajjTypeOK'
    BY <2>1, <2>3, <2>5 DEF HajjTypeOK, HajjSteps, PilgrimageRow
  <2>7. /\ \A u : PaymentKey(u)' = PaymentKey(u)
        /\ Bookers' = Bookers /\ Admins' = Admins /\ Customers' = Customers
    BY <2>1 DEF PaymentKey, Bookers, Admins, Customers, Payers
  <2>8. \A u \in Customers : ask[u].booking \in Pilgrimages
    BY KeyFields DEF HajjTypeOK
  <2>9. PlacesInv'
    BY <2>1, <2>2, <2>5, <2>7, <2>8 DEF PlacesInv, Paying, PaymentMade, HajjTypeOK
  <2> QED BY <2>6, <2>9
<1> QED BY <1>1, <1>2, <1>3, <1>4

LEMMA PayTyped ==
  ASSUME HajjTypeInv, NEW t \in HajjThreads,
         LoadForPayment(t) \/ FindPayment(t) \/ InsertPayment(t) \/ PaymentConflict(t)
           \/ ProviderCharges(t) \/ RecordCharge(t)
  PROVE  HajjTypeInv'
<1> USE DEF HajjTypeInv
<1>1. CASE LoadForPayment(t)
  <2>1. PICK next \in {"findPayment", "done"} : hajjPc' = [hajjPc EXCEPT ![t] = next]
    BY <1>1 DEF LoadForPayment, HajjGoto
  <2>2. /\ t \in Customers
        /\ pilgrimage[ask[t].booking] # NoBookingRow
        /\ accountOverlap' \in BOOLEAN
        /\ UNCHANGED <<package, pilgrimage, hajjPayment, hajjCharges, hajjRead,
                       seatsOverlap, replayed, hajjCrashed>>
    BY <1>1 DEF LoadForPayment, NoteAccount, HajjTypeOK, Customers
  <2>3. hajjPc' \in [HajjThreads -> HajjSteps] /\ PlacesInv'
    BY <2>1, <2>2, MoveTyped DEF package, HajjSteps
  <2> QED BY <2>2, <2>3 DEF HajjTypeOK, package
<1>2. CASE FindPayment(t)
  <2>1. PICK next \in {"insertPayment", "readAccount", "done"} :
          /\ hajjPc' = [hajjPc EXCEPT ![t] = next]
          /\ next = "readAccount" => hajjPayment[PaymentKey(t)] # NoPayment
    <3>1. CASE hajjPayment[PaymentKey(t)] = NoPayment
      BY <1>2, <3>1 DEF FindPayment, HajjGoto, NoPayment
    <3>2. CASE hajjPayment[PaymentKey(t)] # NoPayment
      BY <1>2, <3>2 DEF FindPayment, HajjGoto
    <3> QED BY <3>1, <3>2
  <2>2. /\ hajjPc[t] = "findPayment"
        /\ replayed' \in BOOLEAN
        /\ UNCHANGED <<package, pilgrimage, hajjPayment, hajjCharges, hajjRead,
                       seatsOverlap, accountOverlap, hajjCrashed>>
    BY <1>2 DEF FindPayment, HajjTypeOK
  <2>3. t \in Customers /\ pilgrimage[ask[t].booking] # NoBookingRow
    BY <2>2 DEF PlacesInv, Paying
  <2>4. hajjPc' \in [HajjThreads -> HajjSteps] /\ PlacesInv'
    BY <2>1, <2>2, <2>3, MoveTyped DEF package, HajjSteps
  <2> QED BY <2>2, <2>4 DEF HajjTypeOK, package
<1>3. CASE InsertPayment(t) \/ RecordCharge(t)
  \* Both write the payment of t and leave it there.
  <2> DEFINE k == PaymentKey(t)
  <2>1. Paying(t) /\ t \in Customers /\ pilgrimage[ask[t].booking] # NoBookingRow
    BY <1>3 DEF InsertPayment, RecordCharge, PlacesInv, Paying
  <2>2. k \in PaymentKeys /\ ask[t].booking \in Pilgrimages /\ ChargeAmount(t) \in Nat
    BY <2>1, KeyFields, ChargeNat DEF HajjTypeOK
  <2>3. UNCHANGED <<package, pilgrimage, hajjCharges, hajjRead, hajjFlags>>
    BY <1>3 DEF InsertPayment, RecordCharge
  <2>4. hajjPayment \in [PaymentKeys -> PaymentRow \cup {NoPayment}]
    BY DEF HajjTypeOK, PaymentRow
  <2>5. PICK row \in PaymentRow : hajjPayment' = [hajjPayment EXCEPT ![k] = row]
    <3>1. CASE InsertPayment(t)
      BY <2>2, <3>1 DEF InsertPayment, PaymentRow
    <3>2. CASE RecordCharge(t)
      <4>1. hajjPayment[k] \in PaymentRow
        BY <2>2, <2>4, <3>2 DEF RecordCharge, PlacesInv, PaymentMade
      <4>2. PICK result \in {"PAID", "FAILED"} :
              hajjPayment' = [hajjPayment EXCEPT ![k].status = result]
        BY <3>2 DEF RecordCharge
      <4>3. [hajjPayment[k] EXCEPT !.status = result] \in PaymentRow
        BY <4>1, <4>2 DEF PaymentRow
      <4> QED BY <4>2, <4>3
    <3> QED BY <1>3, <3>1, <3>2
  <2>6. /\ hajjPayment' \in [PaymentKeys -> PaymentRow \cup {NoPayment}]
        /\ hajjPayment'[k] # NoPayment
        /\ \A l \in PaymentKeys : hajjPayment[l] # NoPayment => hajjPayment'[l] # NoPayment
    BY <2>2, <2>4, <2>5, RowsDiffer
  <2>7. PICK next \in {"charge", "readAccount"} : hajjPc' = [hajjPc EXCEPT ![t] = next]
    BY <1>3 DEF InsertPayment, RecordCharge, HajjGoto
  <2>8. HajjTypeOK'
    BY <2>3, <2>6, <2>7 DEF HajjTypeOK, HajjSteps, PaymentRow, package, hajjFlags
  <2>9. /\ \A u : PaymentKey(u)' = PaymentKey(u)
        /\ Bookers' = Bookers /\ Admins' = Admins /\ Customers' = Customers
    BY <2>3 DEF PaymentKey, Bookers, Admins, Customers, Payers, package
  <2>10. \A u \in Customers : PaymentKey(u) \in PaymentKeys
    BY KeyFields DEF HajjTypeOK
  <2> HIDE DEF k
  <2>11. ASSUME NEW u \in HajjThreads, u # t PROVE hajjPc'[u] = hajjPc[u]
    BY <2>7, <2>11 DEF HajjTypeOK
  <2>12. hajjPc'[t] = next
    BY <2>7 DEF HajjTypeOK
  <2>13. UNCHANGED <<ask, pilgrimage>>
    BY <2>3 DEF package
  <2>14. PlacesInv'
    BY <2>1, <2>6, <2>9, <2>10, <2>11, <2>12, <2>13 DEF PlacesInv, Paying, PaymentMade, k
  <2> QED BY <2>8, <2>14
<1>4. CASE PaymentConflict(t)
  <2>1. /\ hajjPc' = [hajjPc EXCEPT ![t] = "done"]
        /\ hajjRead' = [hajjRead EXCEPT ![t] = 0]
        /\ UNCHANGED <<package, pilgrimage, hajjPayment, hajjCharges, hajjFlags>>
    BY <1>4 DEF PaymentConflict, HajjEnd, HajjGoto
  <2>2. hajjPc' \in [HajjThreads -> HajjSteps] /\ PlacesInv'
    BY <2>1, MoveTyped DEF package, HajjSteps
  <2> QED BY <2>1, <2>2 DEF HajjTypeOK, package, hajjFlags
<1>5. CASE ProviderCharges(t)
  <2> DEFINE k == PaymentKey(t)
  <2>1. /\ hajjPc[t] = "charge"
        /\ hajjCharges' \in {hajjCharges, [hajjCharges EXCEPT ![k] = @ + 1]}
        /\ hajjCrashed' \in BOOLEAN
        /\ UNCHANGED <<package, pilgrimage, hajjPayment, hajjRead,
                       seatsOverlap, accountOverlap, replayed>>
    BY <1>5 DEF ProviderCharges, HajjTypeOK
  <2>2. PICK next \in {"recordPaid", "recordFailed"} : hajjPc' = [hajjPc EXCEPT ![t] = next]
    BY <1>5 DEF ProviderCharges, HajjGoto
  <2>3. /\ t \in Customers /\ pilgrimage[ask[t].booking] # NoBookingRow
        /\ hajjPayment[k] # NoPayment
    BY <2>1 DEF PlacesInv, Paying, PaymentMade
  <2>4. hajjPc' \in [HajjThreads -> HajjSteps] /\ PlacesInv'
    BY <2>1, <2>2, <2>3, MoveTyped DEF package, HajjSteps
  <2>5. hajjCharges' \in [PaymentKeys -> Nat]
    BY <2>1, <2>3, KeyFields DEF HajjTypeOK
  <2> QED BY <2>1, <2>4, <2>5 DEF HajjTypeOK, package
<1> QED BY <1>1, <1>2, <1>3, <1>4, <1>5
LEMMA AccountTyped ==
  ASSUME HajjTypeInv, NEW t \in HajjThreads, ReadAccount(t) \/ WriteAccount(t)
  PROVE  HajjTypeInv'
<1> USE DEF HajjTypeInv
<1> DEFINE b == ask[t].booking
           k == PaymentKey(t)
<1>1. /\ hajjPc[t] \in {"readAccount", "writeAccount"}
      /\ UNCHANGED <<package, hajjPayment, hajjCharges, hajjFlags>>
  BY DEF ReadAccount, WriteAccount
<1>2. /\ t \in Customers /\ pilgrimage[b] # NoBookingRow
      /\ hajjPayment[k] # NoPayment
  BY <1>1 DEF PlacesInv, Paying, PaymentMade
<1>3. b \in Pilgrimages /\ k \in PaymentKeys
  BY <1>2, KeyFields DEF HajjTypeOK
<1>4. pilgrimage[b] \in PilgrimageRow /\ hajjPayment[k] \in PaymentRow
  BY <1>2, <1>3 DEF HajjTypeOK, PilgrimageRow, PaymentRow
<1>5. CASE ReadAccount(t)
  <2>1. PICK next \in {"writeAccount", "done"} : hajjPc' = [hajjPc EXCEPT ![t] = next]
    BY <1>5 DEF ReadAccount, HajjGoto, HajjEnd
  <2>2. UNCHANGED pilgrimage
    BY <1>5 DEF ReadAccount
  <2>3. hajjPc' \in [HajjThreads -> HajjSteps] /\ PlacesInv'
    BY <1>1, <1>2, <2>1, <2>2, MoveTyped DEF package, HajjSteps
  <2>4. pilgrimage[b].amountPaid \in Nat
    BY <1>4 DEF PilgrimageRow
  <2>5. hajjRead' \in [HajjThreads -> Nat]
    BY <1>5, <2>4 DEF ReadAccount, HajjEnd, HajjTypeOK
  <2> QED BY <1>1, <2>2, <2>3, <2>5 DEF HajjTypeOK, package, hajjFlags
<1>6. CASE WriteAccount(t)
  <2> DEFINE paid == hajjRead[t] + hajjPayment[k].amount
             result == ComputeStatus(paid, pilgrimage[b].minimum, pilgrimage[b].total)
  <2>1. paid \in Nat
    BY <1>4 DEF HajjTypeOK, PaymentRow
  <2>2. result \in PilgrimageStatuses
    BY StatusComputed
  <2>3. /\ pilgrimage' = [pilgrimage EXCEPT ![b].amountPaid = paid, ![b].status = result]
        /\ hajjPc' = [hajjPc EXCEPT ![t] = "done"]
        /\ hajjRead' = [hajjRead EXCEPT ![t] = 0]
    BY <1>6 DEF WriteAccount, HajjEnd, HajjGoto
  <2> HIDE DEF paid, result
  <2>4. [pilgrimage[b] EXCEPT !.amountPaid = paid, !.status = result] \in PilgrimageRow
    BY <1>4, <2>1, <2>2 DEF PilgrimageRow
  <2>5. pilgrimage' =
          [pilgrimage EXCEPT ![b] = [pilgrimage[b] EXCEPT !.amountPaid = paid, !.status = result]]
    BY <1>3, <2>3 DEF HajjTypeOK
  <2>6. PICK row \in PilgrimageRow : pilgrimage' = [pilgrimage EXCEPT ![b] = row]
    BY <2>4, <2>5
  <2>7. /\ pilgrimage' \in [Pilgrimages -> PilgrimageRow \cup {NoBookingRow}]
        /\ \A c \in Pilgrimages : pilgrimage[c] # NoBookingRow => pilgrimage'[c] # NoBookingRow
    BY <1>3, <2>6, RowsDiffer DEF HajjTypeOK, PilgrimageRow
  <2>8. HajjTypeOK'
    BY <1>1, <2>3, <2>7 DEF HajjTypeOK, HajjSteps, PilgrimageRow, package, hajjFlags
  <2>9. /\ \A u : PaymentKey(u)' = PaymentKey(u)
        /\ Bookers' = Bookers /\ Admins' = Admins /\ Customers' = Customers
    BY <1>1 DEF PaymentKey, Bookers, Admins, Customers, Payers, package
  <2>10. \A u \in Customers : ask[u].booking \in Pilgrimages
    BY KeyFields DEF HajjTypeOK
  <2>11. ASSUME NEW u \in HajjThreads, u # t PROVE hajjPc'[u] = hajjPc[u]
    BY <2>3, <2>11 DEF HajjTypeOK
  <2>12. hajjPc'[t] = "done" /\ UNCHANGED <<ask, hajjPayment>>
    BY <1>1, <2>3 DEF HajjTypeOK, package
  <2>13. PlacesInv'
    BY <2>7, <2>9, <2>10, <2>11, <2>12 DEF PlacesInv, Paying, PaymentMade
  <2> QED BY <2>8, <2>13
<1> QED BY <1>5, <1>6

LEMMA ResizeTyped ==
  ASSUME HajjTypeInv, NEW t \in HajjThreads, ReadForResize(t) \/ Resize(t) \/ Reprice(t)
  PROVE  HajjTypeInv'
<1> USE DEF HajjTypeInv
<1>1. CASE ReadForResize(t)
  <2>1. PICK next \in {"resize", "done"} : hajjPc' = [hajjPc EXCEPT ![t] = next]
    BY <1>1 DEF ReadForResize, HajjGoto
  <2>2. /\ t \in Admins
        /\ seatsOverlap' \in BOOLEAN
        /\ UNCHANGED <<package, pilgrimage, hajjPayment, hajjCharges, hajjRead,
                       accountOverlap, replayed, hajjCrashed>>
    BY <1>1 DEF ReadForResize, HajjTypeOK
  <2>3. hajjPc' \in [HajjThreads -> HajjSteps] /\ PlacesInv'
    BY <2>1, <2>2, MoveTyped DEF package, HajjSteps
  <2> QED BY <2>2, <2>3 DEF HajjTypeOK, package
<1>2. CASE Resize(t)
  <2>1. /\ hajjPc[t] = "resize"
        /\ capacity' = ask[t].capacity
        /\ price' \in {price, ask[t].price}
        /\ active' \in BOOLEAN
        /\ hajjPc' = [hajjPc EXCEPT ![t] = "done"]
        /\ hajjRead' = [hajjRead EXCEPT ![t] = 0]
        /\ UNCHANGED <<seatsBooked, ask, pilgrimage, hajjPayment, hajjCharges, hajjFlags>>
    BY <1>2 DEF Resize, HajjEnd, HajjGoto
  <2>2. ask[t].capacity \in Nat /\ ask[t].price \in Nat \ {0}
    BY <2>1, AskFields DEF PlacesInv, HajjTypeOK
  <2>3. hajjPc' \in [HajjThreads -> HajjSteps] /\ PlacesInv'
    BY <2>1, MoveTyped DEF HajjSteps
  <2> QED BY <2>1, <2>2, <2>3 DEF HajjTypeOK, hajjFlags
<1>3. CASE Reprice(t)
  <2>1. /\ t \in Admins
        /\ price' \in {price, ask[t].price}
        /\ active' \in BOOLEAN
        /\ hajjPc' = [hajjPc EXCEPT ![t] = "done"]
        /\ hajjRead' = [hajjRead EXCEPT ![t] = 0]
        /\ UNCHANGED <<capacity, seatsBooked, ask, pilgrimage, hajjPayment, hajjCharges, hajjFlags>>
    BY <1>3 DEF Reprice, HajjEnd, HajjGoto
  <2>2. ask[t].price \in Nat \ {0}
    BY <2>1, AskFields DEF HajjTypeOK
  <2>3. hajjPc' \in [HajjThreads -> HajjSteps] /\ PlacesInv'
    BY <2>1, MoveTyped DEF HajjSteps
  <2> QED BY <2>1, <2>2, <2>3 DEF HajjTypeOK, hajjFlags
<1> QED BY <1>1, <1>2, <1>3

LEMMA HajjCrashTyped ==
  ASSUME HajjTypeInv, NEW t \in HajjThreads, HajjCrash(t)
  PROVE  HajjTypeInv'
<1>1. /\ hajjPc' = [hajjPc EXCEPT ![t] = "done"]
      /\ hajjRead' = [hajjRead EXCEPT ![t] = 0]
      /\ hajjCrashed' = TRUE
      /\ UNCHANGED <<package, pilgrimage, hajjPayment, hajjCharges,
                     seatsOverlap, accountOverlap, replayed>>
  BY DEF HajjCrash, HajjEnd, HajjGoto
<1>2. hajjPc' \in [HajjThreads -> HajjSteps] /\ PlacesInv'
  BY <1>1, MoveTyped DEF package, HajjSteps
<1> QED BY <1>1, <1>2 DEF HajjTypeInv, HajjTypeOK, package

LEMMA AlwaysHajjTyped == HajjSpec => []HajjTypeInv
<1>1. HajjTypeInv /\ UNCHANGED hajjVars => HajjTypeInv'
  BY DEF HajjTypeInv, HajjTypeOK, PlacesInv, Paying, PaymentMade, PaymentKey, Bookers, Admins,
         Customers, Payers, hajjVars, package, hajjFlags
<1>2. ASSUME HajjTypeInv, HajjNext PROVE HajjTypeInv'
  <2>1. PICK t \in HajjThreads : HajjStep(t) \/ HajjCrash(t)
    BY <1>2 DEF HajjNext
  <2> QED
    BY <1>2, <2>1, BookTyped, PayTyped, AccountTyped, ResizeTyped, HajjCrashTyped DEF HajjStep
<1> QED BY <1>1, <1>2, HajjInitTyped, PTL DEF HajjSpec

\* Rows, payments, charges and requests are well-formed in every scenario.
THEOREM HajjTypeCorrect == HajjSpec => []HajjTypeOK
<1>1. HajjTypeInv => HajjTypeOK
  BY DEF HajjTypeInv
<1> QED BY <1>1, AlwaysHajjTyped, PTL

-----------------------------------------------------------------------------
(* Seats.                                                                  *)

\* Until requests on the seats overlap, one at most is about to write them,
\* and what it has checked is still so.
SeatsInv ==
  ~seatsOverlap =>
    /\ \A t, u \in HajjThreads : AboutToWriteSeats(t) /\ AboutToWriteSeats(u) => t = u
    /\ \A t \in HajjThreads :
         /\ hajjPc[t] = "reserve" => seatsBooked + ask[t].pilgrims <= capacity
         /\ hajjPc[t] = "resize" => seatsBooked <= ask[t].capacity

\* The steps that do not touch the seats, their overlap or who is about to
\* write them.
LEMMA SeatsLeftAlone ==
  ASSUME HajjTypeInv, SeatsInv, NEW t \in HajjThreads, NEW next \in HajjSteps,
         hajjPc' = [hajjPc EXCEPT ![t] = next],
         next \notin {"reserve", "resize"},
         UNCHANGED <<ask, seatsBooked, capacity, seatsOverlap>>
  PROVE  SeatsInv'
<1>1. \A u \in HajjThreads : hajjPc'[u] = IF u = t THEN next ELSE hajjPc[u]
  BY DEF HajjTypeInv, HajjTypeOK
<1> QED BY <1>1 DEF SeatsInv, AboutToWriteSeats
\* What a step does to the seats: it seats a group, sets the capacity, or
\* leaves both - within the pool, until requests overlap.
LEMMA SeatsStep ==
  ASSUME HajjTypeInv, SeatsInv, NeverOverbooked, [HajjNext]_hajjVars
  PROVE  /\ SeatsInv'
         /\ NeverOverbooked'
         /\ Pool!PoolNext \/ seatsOverlap' \/ UNCHANGED <<capacity, seatsBooked>>
<1>1. CASE UNCHANGED hajjVars
  BY <1>1 DEF hajjVars, package, hajjFlags, SeatsInv, NeverOverbooked, AboutToWriteSeats
<1>2. ASSUME NEW t \in HajjThreads, NEW next \in HajjSteps,
             hajjPc' = [hajjPc EXCEPT ![t] = next],
             next \notin {"reserve", "resize"},
             UNCHANGED <<ask, seatsBooked, capacity, seatsOverlap>>
      PROVE  /\ SeatsInv' /\ NeverOverbooked'
             /\ Pool!PoolNext \/ seatsOverlap' \/ UNCHANGED <<capacity, seatsBooked>>
  BY <1>2, SeatsLeftAlone DEF NeverOverbooked
<1>3. ASSUME NEW t \in HajjThreads, ReadPackage(t) \/ ReadForResize(t)
      PROVE  /\ SeatsInv' /\ NeverOverbooked'
             /\ Pool!PoolNext \/ seatsOverlap' \/ UNCHANGED <<capacity, seatsBooked>>
  <2>1. PICK next \in {"reserve", "resize", "done"} :
          /\ hajjPc' = [hajjPc EXCEPT ![t] = next]
          /\ next = "reserve" => seatsBooked + ask[t].pilgrims <= capacity
          /\ next = "resize" => ask[t].capacity >= seatsBooked
    BY <1>3 DEF ReadPackage, ReadForResize, HajjGoto
  <2>2. /\ UNCHANGED <<ask, seatsBooked, capacity>>
        /\ seatsOverlap' = (seatsOverlap \/ \E u \in HajjThreads : AboutToWriteSeats(u))
    BY <1>3 DEF ReadPackage, ReadForResize, package
  <2>3. \A u \in HajjThreads : hajjPc'[u] = IF u = t THEN next ELSE hajjPc[u]
    BY <2>1 DEF HajjTypeInv, HajjTypeOK
  <2>4. ~seatsOverlap' => \A u \in HajjThreads \ {t} : hajjPc'[u] \notin {"reserve", "resize"}
    BY <2>2, <2>3 DEF AboutToWriteSeats
  <2>5. ~seatsOverlap' => \A u \in HajjThreads : AboutToWriteSeats(u)' => u = t
    BY <2>4 DEF AboutToWriteSeats
  <2>6. ~seatsOverlap' => \A u \in HajjThreads :
          /\ hajjPc'[u] = "reserve" => seatsBooked' + ask'[u].pilgrims <= capacity'
          /\ hajjPc'[u] = "resize" => seatsBooked' <= ask'[u].capacity
    <3>1. ask[t] = ask'[t] /\ hajjPc'[t] = next
      BY <2>2, <2>3
    <3>2. next = "resize" => t \in Admins
      BY <1>3, <2>1, <2>3, <3>1 DEF ReadPackage, ReadForResize, HajjGoto, HajjTypeInv, HajjTypeOK
    <3>3. next = "resize" => ask[t].capacity \in Nat
      BY <3>2, AskFields DEF HajjTypeInv, HajjTypeOK
    <3>4. next = "resize" => seatsBooked <= ask[t].capacity
      BY <2>1, <3>3 DEF HajjTypeInv, HajjTypeOK
    <3> QED BY <2>1, <2>2, <2>4, <3>1, <3>4
  <2>7. SeatsInv'
    BY <2>5, <2>6 DEF SeatsInv
  <2>8. NeverOverbooked'
    BY <2>2 DEF NeverOverbooked, HajjTypeInv, HajjTypeOK
  <2> QED BY <2>2, <2>7, <2>8
<1>4. ASSUME NEW t \in HajjThreads, Reserve(t)
      PROVE  /\ SeatsInv' /\ NeverOverbooked'
             /\ Pool!PoolNext \/ seatsOverlap' \/ UNCHANGED <<capacity, seatsBooked>>
  <2>1. /\ hajjPc[t] = "reserve"
        /\ seatsBooked' = seatsBooked + ask[t].pilgrims
        /\ hajjPc' = [hajjPc EXCEPT ![t] = "findPayment"]
        /\ UNCHANGED <<ask, capacity, seatsOverlap>>
    BY <1>4 DEF Reserve, HajjGoto
  <2>2. ask[t].pilgrims \in Nat \ {0} /\ seatsBooked \in Nat /\ capacity \in Nat
    BY <2>1, AskFields DEF HajjTypeInv, HajjTypeOK, PlacesInv
  <2>3. \A u \in HajjThreads : hajjPc'[u] = IF u = t THEN "findPayment" ELSE hajjPc[u]
    BY <2>1 DEF HajjTypeInv, HajjTypeOK
  <2>4. ~seatsOverlap =>
          /\ seatsBooked + ask[t].pilgrims <= capacity
          /\ \A u \in HajjThreads : hajjPc'[u] \notin {"reserve", "resize"}
    BY <2>1, <2>3 DEF SeatsInv, AboutToWriteSeats
  <2>5. SeatsInv'
    BY <2>1, <2>4 DEF SeatsInv, AboutToWriteSeats
  <2>6. NeverOverbooked'
    BY <2>1, <2>4 DEF NeverOverbooked
  <2>7. Pool!PoolNext \/ seatsOverlap'
    BY <2>1, <2>2, <2>4 DEF Pool!PoolNext, Pool!SeatGroup
  <2> QED BY <2>5, <2>6, <2>7
<1>5. ASSUME NEW t \in HajjThreads, Resize(t)
      PROVE  /\ SeatsInv' /\ NeverOverbooked'
             /\ Pool!PoolNext \/ seatsOverlap' \/ UNCHANGED <<capacity, seatsBooked>>
  <2>1. /\ hajjPc[t] = "resize"
        /\ capacity' = ask[t].capacity
        /\ hajjPc' = [hajjPc EXCEPT ![t] = "done"]
        /\ UNCHANGED <<ask, seatsBooked, seatsOverlap>>
    BY <1>5 DEF Resize, HajjEnd, HajjGoto, hajjFlags
  <2>2. ask[t].capacity \in Nat /\ seatsBooked \in Nat
    BY <2>1, AskFields DEF HajjTypeInv, HajjTypeOK, PlacesInv
  <2>3. \A u \in HajjThreads : hajjPc'[u] = IF u = t THEN "done" ELSE hajjPc[u]
    BY <2>1 DEF HajjTypeInv, HajjTypeOK
  <2>4. ~seatsOverlap =>
          /\ seatsBooked <= ask[t].capacity
          /\ \A u \in HajjThreads : hajjPc'[u] \notin {"reserve", "resize"}
    BY <2>1, <2>3 DEF SeatsInv, AboutToWriteSeats
  <2>5. SeatsInv'
    BY <2>1, <2>4 DEF SeatsInv, AboutToWriteSeats
  <2>6. NeverOverbooked'
    BY <2>1, <2>4 DEF NeverOverbooked
  <2>7. Pool!PoolNext \/ seatsOverlap'
    BY <2>1, <2>2, <2>4 DEF Pool!PoolNext, Pool!SetPlaces
  <2> QED BY <2>5, <2>6, <2>7
<1>6. ASSUME NEW t \in HajjThreads, RefuseBooking(t) \/ ReserveConflict(t)
                 \/ PaymentConflict(t) \/ WriteAccount(t) \/ Reprice(t) \/ HajjCrash(t)
      PROVE  hajjPc' = [hajjPc EXCEPT ![t] = "done"]
             /\ UNCHANGED <<ask, seatsBooked, capacity, seatsOverlap>>
  BY <1>6 DEF RefuseBooking, ReserveConflict, PaymentConflict, WriteAccount, Reprice, HajjCrash,
              HajjEnd, HajjGoto, package, hajjFlags
<1>7. ASSUME NEW t \in HajjThreads, HajjLookUp(t) \/ LoadForPayment(t) \/ FindPayment(t)
                 \/ InsertPayment(t) \/ ProviderCharges(t) \/ RecordCharge(t) \/ ReadAccount(t)
      PROVE  \E next \in HajjSteps \ {"reserve", "resize"} :
               /\ hajjPc' = [hajjPc EXCEPT ![t] = next]
               /\ UNCHANGED <<ask, seatsBooked, capacity, seatsOverlap>>
  <2>1. UNCHANGED <<ask, seatsBooked, capacity, seatsOverlap>>
    BY <1>7 DEF HajjLookUp, LoadForPayment, FindPayment, InsertPayment, ProviderCharges,
                RecordCharge, ReadAccount, package, hajjFlags
  <2>2. CASE HajjLookUp(t) \/ LoadForPayment(t) \/ FindPayment(t)
    BY <2>1, <2>2 DEF HajjLookUp, LoadForPayment, FindPayment, HajjGoto, HajjSteps
  <2>3. CASE InsertPayment(t) \/ ProviderCharges(t) \/ RecordCharge(t)
    BY <2>1, <2>3 DEF InsertPayment, ProviderCharges, RecordCharge, HajjGoto, HajjSteps
  <2>4. CASE ReadAccount(t)
    BY <2>1, <2>4 DEF ReadAccount, HajjGoto, HajjEnd, HajjSteps
  <2> QED BY <1>7, <2>2, <2>3, <2>4
<1>8. CASE HajjNext
  <2>1. PICK t \in HajjThreads : HajjStep(t) \/ HajjCrash(t)
    BY <1>8 DEF HajjNext
  <2>2. "done" \in HajjSteps
    BY DEF HajjSteps
  <2> QED BY <1>2, <1>3, <1>4, <1>5, <1>6, <1>7, <2>1, <2>2 DEF HajjStep
<1> QED BY <1>1, <1>8

LEMMA AlwaysSeatsInv == HajjSpec => [](HajjTypeInv /\ SeatsInv /\ NeverOverbooked)
<1>1. HajjInit => SeatsInv /\ NeverOverbooked
  BY HajjAssumption DEF HajjInit, SeatsInv, NeverOverbooked, AboutToWriteSeats
<1> QED BY <1>1, SeatsStep, AlwaysHajjTyped, PTL DEF HajjSpec

\* Without requests that overlap on its seats, no departure is overbooked,
\* whatever its capacity is set to meanwhile.
THEOREM NeverOverbookedAlways == HajjSpec => []NeverOverbooked
BY AlwaysSeatsInv, PTL

\* Until requests on the seats overlap, every step of the code is one of the
\* abstract pool or leaves it alone.
THEOREM SeatsImplementPool == HajjSpec => ImplementsSeatPool
<1>1. HajjTypeInv /\ SeatsInv /\ NeverOverbooked /\ [HajjNext]_hajjVars
        => [Pool!PoolNext \/ seatsOverlap']_<<capacity, seatsBooked>>
  BY SeatsStep
<1> QED BY <1>1, AlwaysSeatsInv, PTL DEF HajjSpec, ImplementsSeatPool

-----------------------------------------------------------------------------
(* Charges.                                                                *)

\* A key is charged by the request that made its payment row, once: nobody
\* else is about to charge it, and it has not been charged before.
AboutToCharge(t) == hajjPc[t] = "charge"
ChargesInv ==
  /\ \A t, u \in Customers :
       AboutToCharge(t) /\ AboutToCharge(u) /\ PaymentKey(t) = PaymentKey(u) => t = u
  /\ \A t \in Customers : AboutToCharge(t) => hajjCharges[PaymentKey(t)] = 0
  /\ \A k \in PaymentKeys : hajjPayment[k] = NoPayment => hajjCharges[k] = 0
  /\ EachKeyChargedOnce

\* A step that neither charges nor makes a payment row.
LEMMA ChargesLeftAlone ==
  ASSUME HajjTypeInv, ChargesInv,
         UNCHANGED <<ask, hajjCharges>>,
         \A k \in PaymentKeys : hajjPayment'[k] = NoPayment => hajjPayment[k] = NoPayment,
         \A u \in HajjThreads : AboutToCharge(u)' => AboutToCharge(u)
  PROVE  ChargesInv'
<1>1. Customers' = Customers /\ \A u : PaymentKey(u)' = PaymentKey(u)
  BY DEF Customers, Bookers, Payers, PaymentKey
<1>2. Customers \subseteq HajjThreads
  BY DEF Customers, Bookers, Payers
<1> QED BY <1>1, <1>2 DEF ChargesInv, EachKeyChargedOnce

LEMMA ChargesStep ==
  ASSUME HajjTypeInv, ChargesInv, [HajjNext]_hajjVars
  PROVE  ChargesInv'
<1>1. CASE UNCHANGED hajjVars
  BY <1>1, ChargesLeftAlone DEF hajjVars, package, AboutToCharge
<1>2. ASSUME NEW t \in HajjThreads, InsertPayment(t) PROVE ChargesInv'
  <2> DEFINE k == PaymentKey(t)
  <2>1. /\ hajjPayment[k] = NoPayment
        /\ hajjPc' = [hajjPc EXCEPT ![t] = "charge"]
        /\ UNCHANGED <<ask, hajjCharges>>
        /\ \E row : hajjPayment' = [hajjPayment EXCEPT ![k] = row]
    BY <1>2 DEF InsertPayment, HajjGoto, package
  <2>2. t \in Customers /\ k \in PaymentKeys
    BY <1>2, KeyFields DEF InsertPayment, HajjTypeInv, HajjTypeOK, PlacesInv, Paying
  <2>3. Customers' = Customers /\ \A u : PaymentKey(u)' = PaymentKey(u)
    BY <2>1 DEF Customers, Bookers, Payers, PaymentKey
  <2>4. \A u \in Customers : AboutToCharge(u) => PaymentKey(u) # k
    BY <2>1 DEF HajjTypeInv, PlacesInv, PaymentMade, AboutToCharge, Customers, Bookers, Payers
  <2>5. \A u \in Customers : AboutToCharge(u)' => u = t \/ AboutToCharge(u)
    BY <2>1 DEF HajjTypeInv, HajjTypeOK, AboutToCharge, Customers, Bookers, Payers
  <2>6. hajjCharges[k] = 0
    BY <2>1, <2>2 DEF ChargesInv
  <2>7. \A l \in PaymentKeys : hajjPayment'[l] = NoPayment => hajjCharges[l] = 0
    BY <2>1, <2>6 DEF ChargesInv, HajjTypeInv, HajjTypeOK
  <2> HIDE DEF k
  <2> QED BY <2>1, <2>3, <2>4, <2>5, <2>6, <2>7 DEF ChargesInv, EachKeyChargedOnce, k
<1>3. ASSUME NEW t \in HajjThreads, ProviderCharges(t) PROVE ChargesInv'
  <2> DEFINE k == PaymentKey(t)
  <2>1. /\ hajjPc[t] = "charge"
        /\ hajjCharges' \in {hajjCharges, [hajjCharges EXCEPT ![k] = @ + 1]}
        /\ UNCHANGED <<ask, hajjPayment>>
    BY <1>3 DEF ProviderCharges, package
  <2>2. t \in Customers /\ k \in PaymentKeys /\ hajjPayment[k] # NoPayment
    BY <2>1, KeyFields DEF HajjTypeInv, HajjTypeOK, PlacesInv, Paying, PaymentMade
  <2>3. hajjPc' \in {[hajjPc EXCEPT ![t] = "recordPaid"], [hajjPc EXCEPT ![t] = "recordFailed"]}
    BY <1>3 DEF ProviderCharges, HajjGoto
  <2>4. Customers' = Customers /\ \A u : PaymentKey(u)' = PaymentKey(u)
    BY <2>1 DEF Customers, Bookers, Payers, PaymentKey
  <2>5. \A u \in Customers : AboutToCharge(u)' => u # t /\ AboutToCharge(u)
    BY <2>3 DEF HajjTypeInv, HajjTypeOK, AboutToCharge, Customers, Bookers, Payers
  <2>6. \A u \in Customers : AboutToCharge(u)' => PaymentKey(u) # k
    BY <2>1, <2>2, <2>5 DEF ChargesInv, AboutToCharge
  <2>7. hajjCharges[k] = 0 /\ hajjCharges \in [PaymentKeys -> Nat]
    BY <2>1, <2>2 DEF ChargesInv, AboutToCharge, HajjTypeInv, HajjTypeOK
  <2> HIDE DEF k
  <2>8. /\ \A l \in PaymentKeys \ {k} : hajjCharges'[l] = hajjCharges[l]
        /\ hajjCharges'[k] \in {0, 1}
    BY <2>1, <2>2, <2>7
  <2>9. \A u \in Customers : PaymentKey(u) \in PaymentKeys
    BY KeyFields DEF HajjTypeInv, HajjTypeOK
  <2>10. \A u \in Customers : AboutToCharge(u)' => hajjCharges'[PaymentKey(u)] = 0
    BY <2>5, <2>6, <2>8, <2>9 DEF ChargesInv
  <2>11. EachKeyChargedOnce'
    BY <2>8 DEF ChargesInv, EachKeyChargedOnce
  <2>12. \A l \in PaymentKeys : hajjPayment'[l] = NoPayment => hajjCharges'[l] = 0
    BY <2>1, <2>2, <2>8 DEF ChargesInv, k
  <2> QED BY <2>4, <2>5, <2>10, <2>11, <2>12 DEF ChargesInv
<1>4. ASSUME NEW t \in HajjThreads, RecordCharge(t) PROVE ChargesInv'
  <2>1. /\ hajjPc' = [hajjPc EXCEPT ![t] = "readAccount"]
        /\ UNCHANGED <<ask, hajjCharges>>
        /\ \E result : hajjPayment' = [hajjPayment EXCEPT ![PaymentKey(t)].status = result]
    BY <1>4 DEF RecordCharge, HajjGoto, package
  <2>2. \A u \in HajjThreads : AboutToCharge(u)' => AboutToCharge(u)
    BY <2>1 DEF HajjTypeInv, HajjTypeOK, AboutToCharge
  <2>3. HajjTypeInv'
    BY <1>4, PayTyped
  <2>4. \A u \in HajjThreads : hajjPc'[u] = IF u = t THEN "readAccount" ELSE hajjPc[u]
    BY <2>1 DEF HajjTypeInv, HajjTypeOK
  <2>5. PaymentKey(t)' = PaymentKey(t) /\ hajjPayment'[PaymentKey(t)] # NoPayment
    BY <2>1, <2>3, <2>4 DEF HajjTypeInv, PlacesInv, PaymentMade, PaymentKey, Bookers
  <2>6. \A k \in PaymentKeys : hajjPayment'[k] = NoPayment => hajjPayment[k] = NoPayment
    BY <2>1, <2>5 DEF HajjTypeInv, HajjTypeOK
  <2> QED BY <2>1, <2>2, <2>6, ChargesLeftAlone
<1>5. ASSUME NEW t \in HajjThreads, NEW next \in HajjSteps \ {"charge"},
             hajjPc' = [hajjPc EXCEPT ![t] = next],
             UNCHANGED <<ask, hajjCharges, hajjPayment>>
      PROVE  ChargesInv'
  <2>1. \A u \in HajjThreads : AboutToCharge(u)' => AboutToCharge(u)
    BY <1>5 DEF HajjTypeInv, HajjTypeOK, AboutToCharge
  <2> QED BY <1>5, <2>1, ChargesLeftAlone
<1>6. ASSUME NEW t \in HajjThreads,
             \/ HajjLookUp(t) \/ ReadPackage(t) \/ RefuseBooking(t) \/ Reserve(t)
             \/ ReserveConflict(t) \/ LoadForPayment(t) \/ FindPayment(t) \/ PaymentConflict(t)
             \/ ReadAccount(t) \/ WriteAccount(t) \/ ReadForResize(t) \/ Resize(t) \/ Reprice(t)
             \/ HajjCrash(t)
      PROVE  ChargesInv'
  <2>1. UNCHANGED <<ask, hajjCharges, hajjPayment>>
    BY <1>6 DEF HajjLookUp, ReadPackage, RefuseBooking, Reserve, ReserveConflict, LoadForPayment,
                FindPayment, PaymentConflict, ReadAccount, WriteAccount, ReadForResize, Resize,
                Reprice, HajjCrash, package
  <2>2. CASE HajjLookUp(t) \/ ReadPackage(t) \/ Reserve(t) \/ LoadForPayment(t) \/ FindPayment(t)
    BY <1>5, <2>1, <2>2 DEF HajjLookUp, ReadPackage, Reserve, LoadForPayment, FindPayment,
                            HajjGoto, HajjSteps
  <2>3. CASE \/ RefuseBooking(t) \/ ReserveConflict(t) \/ PaymentConflict(t) \/ WriteAccount(t)
             \/ Resize(t) \/ Reprice(t) \/ HajjCrash(t)
    BY <1>5, <2>1, <2>3 DEF RefuseBooking, ReserveConflict, PaymentConflict, WriteAccount, Resize,
                            Reprice, HajjCrash, HajjEnd, HajjGoto, HajjSteps
  <2>4. CASE ReadAccount(t) \/ ReadForResize(t)
    BY <1>5, <2>1, <2>4 DEF ReadAccount, ReadForResize, HajjEnd, HajjGoto, HajjSteps
  <2> QED BY <1>6, <2>2, <2>3, <2>4
<1>7. CASE HajjNext
  <2>1. PICK t \in HajjThreads : HajjStep(t) \/ HajjCrash(t)
    BY <1>7 DEF HajjNext
  <2> QED BY <1>2, <1>3, <1>4, <1>6, <2>1 DEF HajjStep
<1> QED BY <1>1, <1>7

\* However many requests carry one key, and however they overlap or die, its
\* payment is charged once.
THEOREM EachKeyChargedOnceAlways == HajjSpec => []EachKeyChargedOnce
<1>1. HajjInit => ChargesInv
  BY DEF HajjInit, ChargesInv, AboutToCharge, EachKeyChargedOnce, Customers, Bookers, Payers
<1>2. ChargesInv => EachKeyChargedOnce
  BY DEF ChargesInv
<1> QED BY <1>1, <1>2, ChargesStep, AlwaysHajjTyped, PTL DEF HajjSpec
-----------------------------------------------------------------------------
(* Pilgrimage departures: the accounts.                                    *)

\* A payment's row is written by the request that made it: until its status is
\* recorded it is PENDING and nobody else records it.
Recording(t) == hajjPc[t] \in {"charge", "recordPaid", "recordFailed"}
RecordsInv ==
  /\ \A t, u \in Customers :
       Recording(t) /\ Recording(u) /\ PaymentKey(t) = PaymentKey(u) => t = u
  /\ \A t \in Customers :
       /\ Recording(t) =>
            /\ hajjPayment[PaymentKey(t)].status = "PENDING"
            /\ hajjPayment[PaymentKey(t)].booking = ask[t].booking
            /\ t \in Payers => hajjPayment[PaymentKey(t)].amount = ask[t].amount
       /\ hajjPc[t] = "recordPaid" => hajjCharges[PaymentKey(t)] = 1
       /\ hajjPc[t] = "writeAccount" => Paid(PaymentKey(t))

\* A PAID payment has been charged; without crashes only such a one has, or
\* one whose request is about to record it.
ChargesRecorded ==
  \A k \in PaymentKeys :
    /\ Paid(k) => hajjCharges[k] = 1
    /\ ~hajjCrashed /\ hajjCharges[k] > 0
         => Paid(k) \/ \E t \in Customers : hajjPc[t] = "recordPaid" /\ PaymentKey(t) = k

\* Payments are for bookings that exist, and FULLY_PAID is said of an account
\* that has reached its total.
RowsInv ==
  /\ \A k \in PaymentKeys :
       hajjPayment[k] # NoPayment => pilgrimage[hajjPayment[k].booking] # NoBookingRow
  /\ \A b \in Pilgrimages :
       pilgrimage[b].status = "FULLY_PAID" => pilgrimage[b].amountPaid >= pilgrimage[b].total

\* Until a payment is repeated with its key, the request that made its row is
\* the only one that applies it, and to the booking it is for.
OneOwner ==
  ~replayed =>
    /\ \A t, u \in Customers :
         PaymentMade(t) /\ PaymentMade(u) /\ PaymentKey(t) = PaymentKey(u) => t = u
    /\ \A t \in Customers :
         PaymentMade(t) => hajjPayment[PaymentKey(t)].booking = ask[t].booking

\* What the account of b may hold at most: its PAID payments that nobody still
\* has to apply.
Applying(t) == hajjPc[t] \in {"readAccount", "writeAccount"}
Pending(k) == \E t \in Customers : Applying(t) /\ PaymentKey(t) = k
Counts(b, k) == k \in PaymentsOf(b) /\ Paid(k) /\ ~Pending(k)
CountedAmounts(b) ==
  [k \in PaymentKeys |-> IF Counts(b, k) THEN hajjPayment[k].amount ELSE 0]
Counted(b) == Total(CountedAmounts(b), PaymentKeys)
NothingInvented ==
  ~replayed =>
    /\ \A b \in Pilgrimages : pilgrimage[b].amountPaid <= Counted(b)
    /\ \A t \in Customers : hajjPc[t] = "writeAccount" => hajjRead[t] <= Counted(ask[t].booking)

\* Until payments of a booking overlap, one request at most pays for it.
OnePayer ==
  ~accountOverlap =>
    \A t, u \in Customers :
      Paying(t) /\ Paying(u) /\ ask[t].booking = ask[u].booking => t = u

\* The provider has charged, or the row of a payment found says so, and the
\* account does not show it yet.
Unapplied(t) ==
  \/ hajjPc[t] \in {"recordPaid", "writeAccount"}
  \/ hajjPc[t] = "readAccount" /\ Paid(PaymentKey(t))
BeforeCharge(t) == hajjPc[t] \in {"findPayment", "insertPayment", "charge"}

\* What the provider may have charged for b at most: what its account holds,
\* and the payment that is being applied to it.
NothingLost ==
  ~accountOverlap /\ ~hajjCrashed =>
    /\ \A b \in Pilgrimages :
         (\A t \in Customers : Unapplied(t) => ask[t].booking # b)
           => ChargedFor(b) <= pilgrimage[b].amountPaid
    /\ \A t \in Customers :
         /\ Unapplied(t) =>
              ChargedFor(ask[t].booking)
                <= pilgrimage[ask[t].booking].amountPaid + hajjPayment[PaymentKey(t)].amount
         /\ hajjPc[t] = "writeAccount" => hajjRead[t] = pilgrimage[ask[t].booking].amountPaid

\* Until it charges, an instalment is at most what remains, and a deposit is
\* the first payment.
WithinRemaining ==
  ~accountOverlap =>
    \A t \in Customers :
      BeforeCharge(t) =>
        /\ t \in Payers => ask[t].amount + pilgrimage[ask[t].booking].amountPaid
                             <= pilgrimage[ask[t].booking].total
        /\ t \in Bookers => pilgrimage[ask[t].booking].amountPaid = 0

AccountsInv ==
  /\ RecordsInv /\ ChargesRecorded /\ RowsInv /\ OneOwner /\ NothingInvented
  /\ OnePayer /\ NothingLost /\ WithinRemaining /\ NeverChargedBeyondTotal
-----------------------------------------------------------------------------
(* The numbers in the rows, and the totals they make.                      *)

LEMMA Numbers ==
  ASSUME HajjTypeOK
  PROVE  /\ \A b \in Pilgrimages :
              /\ pilgrimage[b].amountPaid \in Nat
              /\ pilgrimage[b].total \in Nat
              /\ pilgrimage[b].pilgrims \in Nat
         /\ \A k \in PaymentKeys : hajjPayment[k].amount \in Nat /\ hajjCharges[k] \in Nat
<1>1. ASSUME NEW b \in Pilgrimages
      PROVE  /\ pilgrimage[b].amountPaid \in Nat
             /\ pilgrimage[b].total \in Nat
             /\ pilgrimage[b].pilgrims \in Nat
  <2>1. pilgrimage[b] \in PilgrimageRow \cup {NoBookingRow}
    BY DEF HajjTypeOK, PilgrimageRow
  <2> QED BY <2>1 DEF PilgrimageRow, NoBookingRow
<1>2. ASSUME NEW k \in PaymentKeys
      PROVE  hajjPayment[k].amount \in Nat /\ hajjCharges[k] \in Nat
  <2>1. hajjPayment[k] \in PaymentRow \cup {NoPayment} /\ hajjCharges[k] \in Nat
    BY DEF HajjTypeOK, PaymentRow
  <2> QED BY <2>1 DEF PaymentRow, NoPayment
<1> QED BY <1>1, <1>2

LEMMA KeysFinite == IsFiniteSet(PaymentKeys) /\ IsFiniteSet(Pilgrimages)
<1>1. IsFiniteSet(PaymentKeys) /\ Pilgrimages \in SUBSET PaymentKeys
  BY HajjAssumption DEF PaymentKeys
<1> QED BY <1>1, FS_Subset

ChargedAmounts(b) ==
  [k \in PaymentKeys |-> IF k \in PaymentsOf(b) THEN Charged(k) ELSE 0]

\* What a payment adds to the charges of b: nothing, or its amount.
LEMMA ChargedValue ==
  ASSUME HajjTypeOK, ChargesInv, NEW b, NEW k \in PaymentKeys
  PROVE  ChargedAmounts(b)[k] = IF hajjPayment[k].booking = b /\ hajjCharges[k] = 1
                                THEN hajjPayment[k].amount ELSE 0
<1>1. hajjPayment[k].amount \in Nat
  BY Numbers
<1>2. hajjCharges[k] \in {0, 1}
  BY Numbers DEF ChargesInv, EachKeyChargedOnce
<1>3. \A n \in Nat : n * 0 = 0 /\ n * 1 = n
  OBVIOUS
<1>4. Charged(k) = IF hajjCharges[k] = 1 THEN hajjPayment[k].amount ELSE 0
  BY <1>1, <1>2, <1>3 DEF Charged
<1> QED BY <1>4 DEF ChargedAmounts, PaymentsOf

LEMMA ChargedSummable ==
  ASSUME HajjTypeOK, ChargesInv, NEW b
  PROVE  /\ Summable(ChargedAmounts(b), PaymentKeys)
         /\ ChargedFor(b) = Total(ChargedAmounts(b), PaymentKeys)
         /\ ChargedFor(b) \in Nat
<1>1. \A k \in PaymentKeys : ChargedAmounts(b)[k] \in Nat
  BY ChargedValue, Numbers
<1>2. Summable(ChargedAmounts(b), PaymentKeys)
  BY <1>1, KeysFinite DEF Summable
<1>3. ChargedFor(b) = Total(ChargedAmounts(b), PaymentKeys)
  BY DEF ChargedFor, ChargedAmounts
<1> QED BY <1>2, <1>3, TotalNat

LEMMA CountedSummable ==
  ASSUME HajjTypeOK, NEW b
  PROVE  /\ Summable(CountedAmounts(b), PaymentKeys)
         /\ Counted(b) \in Nat
<1>1. \A k \in PaymentKeys : CountedAmounts(b)[k] \in Nat
  BY Numbers DEF CountedAmounts
<1>2. Summable(CountedAmounts(b), PaymentKeys)
  BY <1>1, KeysFinite DEF Summable
<1> QED BY <1>2, TotalNat DEF Counted

\* The same of the state that a step leads to.
RowNumbers ==
  /\ \A b \in Pilgrimages : pilgrimage[b].amountPaid \in Nat /\ pilgrimage[b].total \in Nat
  /\ \A k \in PaymentKeys : hajjPayment[k].amount \in Nat /\ hajjCharges[k] \in Nat
LEMMA NumbersNext == HajjTypeOK' => RowNumbers'
<1>1. HajjTypeOK => RowNumbers
  BY Numbers DEF RowNumbers
<1> QED BY <1>1, PTL

ChargedNumbers(b) ==
  /\ \A k \in PaymentKeys :
       ChargedAmounts(b)[k] = IF hajjPayment[k].booking = b /\ hajjCharges[k] = 1
                              THEN hajjPayment[k].amount ELSE 0
  /\ Summable(ChargedAmounts(b), PaymentKeys)
  /\ ChargedFor(b) = Total(ChargedAmounts(b), PaymentKeys)
  /\ ChargedFor(b) \in Nat
LEMMA ChargedNext ==
  /\ HajjTypeOK /\ ChargesInv => \A b : ChargedNumbers(b)
  /\ HajjTypeOK' /\ ChargesInv' => \A b : ChargedNumbers(b)'
<1>1. HajjTypeOK /\ ChargesInv => \A b : ChargedNumbers(b)
  BY ChargedValue, ChargedSummable DEF ChargedNumbers
<1>2. (HajjTypeOK /\ ChargesInv => \A b : ChargedNumbers(b))'
  BY <1>1, PTL
<1> QED BY <1>1, <1>2

CountedNumbers(b) == Summable(CountedAmounts(b), PaymentKeys) /\ Counted(b) \in Nat
LEMMA CountedNext ==
  /\ HajjTypeOK => \A b : CountedNumbers(b)
  /\ HajjTypeOK' => \A b : CountedNumbers(b)'
<1>1. HajjTypeOK => \A b : CountedNumbers(b)
  BY CountedSummable DEF CountedNumbers
<1>2. (HajjTypeOK => \A b : CountedNumbers(b))'
  BY <1>1, PTL
<1> QED BY <1>1, <1>2

\* Payments that count go on counting: the account may hold no less.
LEMMA CountedGrows ==
  ASSUME HajjTypeOK, HajjTypeOK', NEW b,
         \A k \in PaymentKeys : Counts(b, k) => Counts(b, k)',
         \A k \in PaymentKeys : Counts(b, k) => hajjPayment'[k].amount = hajjPayment[k].amount
  PROVE  Counted(b) <= Counted(b)'
<1>1. Summable(CountedAmounts(b), PaymentKeys) /\ Summable(CountedAmounts(b)', PaymentKeys)
  BY CountedNext DEF CountedNumbers
<1>2. /\ \A k \in PaymentKeys : hajjPayment[k].amount \in Nat
      /\ \A k \in PaymentKeys : hajjPayment'[k].amount \in Nat
  BY Numbers, NumbersNext DEF RowNumbers
<1>3. \A k \in PaymentKeys : CountedAmounts(b)[k] <= CountedAmounts(b)'[k]
  BY <1>2 DEF CountedAmounts
<1> HIDE DEF CountedAmounts
<1>4. Total(CountedAmounts(b), PaymentKeys) <= Total(CountedAmounts(b)', PaymentKeys)
  BY <1>1, <1>3, TotalMonotone
<1> QED BY <1>4 DEF Counted

\* A payment that is applied counts from then on.
LEMMA CountedOneMore ==
  ASSUME HajjTypeOK, HajjTypeOK', NEW b, NEW x \in PaymentKeys,
         UNCHANGED hajjPayment,
         ~Counts(b, x), Counts(b, x)',
         \A k \in PaymentKeys \ {x} : Counts(b, k) <=> Counts(b, k)'
  PROVE  Counted(b)' = Counted(b) + hajjPayment[x].amount
<1>1. Summable(CountedAmounts(b), PaymentKeys) /\ Summable(CountedAmounts(b)', PaymentKeys)
  BY CountedNext DEF CountedNumbers
<1>2. \A k \in PaymentKeys \ {x} : CountedAmounts(b)[k] = CountedAmounts(b)'[k]
  BY DEF CountedAmounts
<1>3. CountedAmounts(b)[x] = 0 /\ CountedAmounts(b)'[x] = hajjPayment[x].amount
  BY DEF CountedAmounts
<1>4. Total(CountedAmounts(b)', PaymentKeys)
        = Total(CountedAmounts(b), PaymentKeys) - CountedAmounts(b)[x] + CountedAmounts(b)'[x]
  BY <1>1, <1>2, TotalUpdate
<1>5. hajjPayment[x].amount \in Nat /\ Counted(b) \in Nat
  BY Numbers, CountedSummable
<1> QED BY <1>3, <1>4, <1>5 DEF Counted

\* The charges of b stay what they are while the charged payments do.
LEMMA ChargedForSame ==
  ASSUME HajjTypeOK, HajjTypeOK', ChargesInv, ChargesInv', NEW b,
         UNCHANGED hajjCharges,
         \A k \in PaymentKeys :
           hajjCharges[k] = 1 => /\ hajjPayment'[k].booking = hajjPayment[k].booking
                                 /\ hajjPayment'[k].amount = hajjPayment[k].amount
  PROVE  ChargedFor(b)' = ChargedFor(b)
<1>1. ASSUME NEW k \in PaymentKeys PROVE ChargedAmounts(b)[k] = ChargedAmounts(b)'[k]
  <2>1. ChargedAmounts(b)[k] = IF hajjPayment[k].booking = b /\ hajjCharges[k] = 1
                               THEN hajjPayment[k].amount ELSE 0
    BY ChargedNext DEF ChargedNumbers
  <2>2. ChargedAmounts(b)'[k] = IF hajjPayment'[k].booking = b /\ hajjCharges'[k] = 1
                                THEN hajjPayment'[k].amount ELSE 0
    BY ChargedNext DEF ChargedNumbers
  <2> QED BY <2>1, <2>2
<1>2. Total(ChargedAmounts(b), PaymentKeys) = Total(ChargedAmounts(b)', PaymentKeys)
  BY <1>1, TotalSame
<1>3. ChargedFor(b) = Total(ChargedAmounts(b), PaymentKeys)
  BY ChargedNext DEF ChargedNumbers
<1>4. ChargedFor(b)' = Total(ChargedAmounts(b)', PaymentKeys)
  BY ChargedNext DEF ChargedNumbers
<1> QED BY <1>2, <1>3, <1>4

\* A charge adds its payment's amount to the booking of its row.
LEMMA ChargedForOneMore ==
  ASSUME HajjTypeOK, HajjTypeOK', ChargesInv, ChargesInv', NEW b, NEW x \in PaymentKeys,
         UNCHANGED hajjPayment, hajjCharges[x] = 0, hajjCharges'[x] = 1,
         \A k \in PaymentKeys \ {x} : hajjCharges'[k] = hajjCharges[k]
  PROVE  ChargedFor(b)' = ChargedFor(b) + (IF hajjPayment[x].booking = b
                                           THEN hajjPayment[x].amount ELSE 0)
<1>1. ASSUME NEW k \in PaymentKeys
      PROVE  /\ ChargedAmounts(b)[k] = IF hajjPayment[k].booking = b /\ hajjCharges[k] = 1
                                       THEN hajjPayment[k].amount ELSE 0
             /\ ChargedAmounts(b)'[k] = IF hajjPayment[k].booking = b /\ hajjCharges'[k] = 1
                                        THEN hajjPayment[k].amount ELSE 0
  <2>1. ChargedAmounts(b)[k] = IF hajjPayment[k].booking = b /\ hajjCharges[k] = 1
                               THEN hajjPayment[k].amount ELSE 0
    BY ChargedNext DEF ChargedNumbers
  <2>2. ChargedAmounts(b)'[k] = IF hajjPayment'[k].booking = b /\ hajjCharges'[k] = 1
                                THEN hajjPayment'[k].amount ELSE 0
    BY ChargedNext DEF ChargedNumbers
  <2> QED BY <2>1, <2>2
<1>2. /\ Summable(ChargedAmounts(b), PaymentKeys)
      /\ ChargedFor(b) = Total(ChargedAmounts(b), PaymentKeys)
      /\ ChargedFor(b) \in Nat
  BY ChargedNext DEF ChargedNumbers
<1>3. /\ Summable(ChargedAmounts(b)', PaymentKeys)
      /\ ChargedFor(b)' = Total(ChargedAmounts(b)', PaymentKeys)
  BY ChargedNext DEF ChargedNumbers
<1>4. \A k \in PaymentKeys \ {x} : ChargedAmounts(b)[k] = ChargedAmounts(b)'[k]
  BY <1>1
<1>5. /\ ChargedAmounts(b)[x] = 0
      /\ ChargedAmounts(b)'[x] = IF hajjPayment[x].booking = b
                                 THEN hajjPayment[x].amount ELSE 0
  BY <1>1
<1>6. ChargedFor(b)' = ChargedFor(b) - ChargedAmounts(b)[x] + ChargedAmounts(b)'[x]
  <2>1. Total(ChargedAmounts(b)', PaymentKeys)
          = Total(ChargedAmounts(b), PaymentKeys) - ChargedAmounts(b)[x] + ChargedAmounts(b)'[x]
    <3>1. Summable(ChargedAmounts(b), PaymentKeys) /\ Summable(ChargedAmounts(b)', PaymentKeys)
      BY <1>2, <1>3
    <3> QED BY <1>4, <3>1, TotalUpdate
  <2> QED BY <1>2, <1>3, <2>1
<1>7. (IF hajjPayment[x].booking = b THEN hajjPayment[x].amount ELSE 0) \in Nat
  BY Numbers
<1> QED BY <1>2, <1>5, <1>6, <1>7
-----------------------------------------------------------------------------
(* What keeps each part.                                                   *)

\* Requests ask for the same all along.
LEMMA AskFixed ==
  ASSUME UNCHANGED ask
  PROVE  /\ Customers' = Customers /\ Payers' = Payers /\ Bookers' = Bookers
         /\ \A u : PaymentKey(u)' = PaymentKey(u)
BY DEF Customers, Bookers, Payers, PaymentKey

LEMMA CustomerFields ==
  ASSUME HajjTypeOK, NEW u \in Customers
  PROVE  /\ u \in HajjThreads
         /\ ask[u].booking \in Pilgrimages
         /\ ask[u].amount \in Nat
         /\ PaymentKey(u) \in PaymentKeys
BY KeyFields DEF HajjTypeOK

LEMMA RecordsKept ==
  ASSUME RecordsInv, UNCHANGED <<ask, hajjPayment, hajjCharges>>,
         \A u \in Customers :
           /\ Recording(u)' => hajjPc'[u] = hajjPc[u]
           /\ hajjPc'[u] = "writeAccount" => Paid(PaymentKey(u))
  PROVE  RecordsInv'
BY AskFixed DEF RecordsInv, Recording, Paid

LEMMA ChargesKept ==
  ASSUME ChargesRecorded, UNCHANGED <<ask, hajjPayment, hajjCharges>>,
         hajjCrashed' \/ /\ ~hajjCrashed
                         /\ \A u \in Customers : hajjPc[u] = "recordPaid" => hajjPc'[u] = hajjPc[u]
  PROVE  ChargesRecorded'
BY AskFixed DEF ChargesRecorded, Paid

LEMMA RowsKept ==
  ASSUME RowsInv, UNCHANGED <<pilgrimage, hajjPayment>>
  PROVE  RowsInv'
BY DEF RowsInv

LEMMA OwnerKept ==
  ASSUME HajjTypeOK, OneOwner, UNCHANGED ask,
         ~replayed' =>
           /\ ~replayed
           /\ \A u \in Customers : PaymentMade(u)' => PaymentMade(u)
           /\ \A k \in PaymentKeys : hajjPayment'[k].booking = hajjPayment[k].booking
  PROVE  OneOwner'
BY AskFixed, CustomerFields DEF OneOwner

LEMMA InventedKept ==
  ASSUME HajjTypeOK, HajjTypeOK', NothingInvented, UNCHANGED ask,
         \A b \in Pilgrimages : pilgrimage'[b].amountPaid = pilgrimage[b].amountPaid,
         \A u \in Customers : hajjPc'[u] = "writeAccount" =>
           \/ hajjPc[u] = "writeAccount" /\ hajjRead'[u] = hajjRead[u]
           \/ hajjRead'[u] = pilgrimage[ask[u].booking].amountPaid,
         ~replayed' => ~replayed,
         ~replayed' => \A b \in Pilgrimages : \A k \in PaymentKeys :
           Counts(b, k) => Counts(b, k)' /\ hajjPayment'[k].amount = hajjPayment[k].amount
  PROVE  NothingInvented'
<1> SUFFICES ASSUME ~replayed' PROVE NothingInvented'
  BY DEF NothingInvented
<1>1. ASSUME NEW b \in Pilgrimages
      PROVE  /\ pilgrimage[b].amountPaid <= Counted(b) /\ Counted(b) <= Counted(b)'
             /\ pilgrimage[b].amountPaid \in Nat /\ Counted(b) \in Nat /\ Counted(b)' \in Nat
  <2>1. Counted(b) <= Counted(b)'
    BY CountedGrows
  <2>2. Counted(b) \in Nat /\ Counted(b)' \in Nat
    BY CountedNext DEF CountedNumbers
  <2> QED BY <2>1, <2>2, Numbers DEF NothingInvented
<1>2. ASSUME NEW b \in Pilgrimages PROVE pilgrimage'[b].amountPaid <= Counted(b)'
  BY <1>1
<1>3. ASSUME NEW u \in Customers, hajjPc'[u] = "writeAccount"
      PROVE  hajjRead'[u] <= Counted(ask[u].booking)'
  <2>1. u \in HajjThreads /\ ask[u].booking \in Pilgrimages
    BY CustomerFields
  <2>2. hajjRead[u] \in Nat
    BY <2>1 DEF HajjTypeOK
  <2>3. hajjPc[u] = "writeAccount" => hajjRead[u] <= Counted(ask[u].booking)
    BY DEF NothingInvented
  <2>4. PICK b \in Pilgrimages : b = ask[u].booking
    BY <2>1
  <2>5. hajjRead'[u] <= Counted(b)
    BY <1>1, <1>3, <2>3, <2>4
  <2>6. hajjRead'[u] \in Nat
    BY <1>3, <2>1 DEF HajjTypeOK
  <2>7. hajjRead'[u] <= Counted(b)'
    BY <1>1, <2>5, <2>6
  <2>8. b = ask'[u].booking
    BY <2>4
  <2> QED BY <2>4, <2>7, <2>8
<1> QED BY <1>2, <1>3, AskFixed DEF NothingInvented

LEMMA PayerKept ==
  ASSUME OnePayer, UNCHANGED ask,
         ~accountOverlap' => ~accountOverlap /\ \A u \in Customers : Paying(u)' => Paying(u)
  PROVE  OnePayer'
BY AskFixed DEF OnePayer

\* The next payment of a booking starts.
LEMMA PayerNoted ==
  ASSUME OnePayer, UNCHANGED ask, NEW t \in Customers, NoteAccount(t),
         \A u \in Customers \ {t} : Paying(u)' <=> Paying(u)
  PROVE  /\ OnePayer'
         /\ ~accountOverlap' =>
              ~accountOverlap /\ \A u \in Customers \ {t} : Paying(u) => ask[u].booking # ask[t].booking
<1>1. ~accountOverlap' =>
        /\ ~accountOverlap
        /\ \A u \in Customers \ {t} : Paying(u) => ask[u].booking # ask[t].booking
  BY DEF NoteAccount
<1>2. OnePayer'
  BY <1>1, AskFixed DEF OnePayer
<1> QED BY <1>1, <1>2

LEMMA UnappliedPays == \A u : (Unapplied(u) => Paying(u)) /\ (BeforeCharge(u) => Paying(u))
BY DEF Unapplied, Paying, BeforeCharge

LEMMA LostKept ==
  ASSUME HajjTypeOK, HajjTypeOK', ChargesInv, ChargesInv', NothingLost, OnePayer, UNCHANGED ask,
         ~accountOverlap' /\ ~hajjCrashed' =>
           /\ ~accountOverlap /\ ~hajjCrashed
           /\ \A u \in Customers :
                /\ Unapplied(u) => Unapplied(u)'
                /\ Unapplied(u)' => Paying(u)
                /\ Unapplied(u) => hajjPayment'[PaymentKey(u)].amount = hajjPayment[PaymentKey(u)].amount,
         \A b \in Pilgrimages : ChargedFor(b)' = ChargedFor(b),
         \A b \in Pilgrimages : pilgrimage'[b].amountPaid = pilgrimage[b].amountPaid,
         \A u \in Customers : hajjPc'[u] = "writeAccount" =>
           \/ hajjPc[u] = "writeAccount" /\ hajjRead'[u] = hajjRead[u]
           \/ hajjRead'[u] = pilgrimage[ask[u].booking].amountPaid
  PROVE  NothingLost'
<1> SUFFICES ASSUME ~accountOverlap', ~hajjCrashed' PROVE NothingLost'
  BY DEF NothingLost
<1>1. ASSUME NEW b \in Pilgrimages,
             \A u \in Customers : Unapplied(u)' => ask[u].booking # b
      PROVE  ChargedFor(b)' <= pilgrimage'[b].amountPaid
  BY <1>1 DEF NothingLost
<1>2. ASSUME NEW u \in Customers, Unapplied(u)'
      PROVE  ChargedFor(ask[u].booking)'
               <= pilgrimage'[ask[u].booking].amountPaid + hajjPayment'[PaymentKey(u)].amount
  <2>1. PICK b \in Pilgrimages : b = ask[u].booking
    BY CustomerFields
  <2>2. PaymentKey(u) \in PaymentKeys
    BY CustomerFields
  <2>3. ChargedFor(b)' \in Nat /\ pilgrimage'[b].amountPaid \in Nat
        /\ hajjPayment'[PaymentKey(u)].amount \in Nat
    BY <2>2, NumbersNext, ChargedNext DEF RowNumbers, ChargedNumbers
  <2>4. CASE Unapplied(u)
    BY <2>1, <2>4 DEF NothingLost
  <2>5. CASE ~Unapplied(u)
    <3>1. \A v \in Customers : Unapplied(v) => ask[v].booking # b
      BY <1>2, <2>1, <2>5, UnappliedPays DEF OnePayer
    <3>2. ChargedFor(b) <= pilgrimage[b].amountPaid
      BY <3>1 DEF NothingLost
    <3>3. ChargedFor(b)' <= pilgrimage'[b].amountPaid + hajjPayment'[PaymentKey(u)].amount
      BY <2>3, <3>2
    <3>4. b = ask'[u].booking
      BY <2>1
    <3> QED BY <2>1, <3>3, <3>4
  <2> QED BY <2>4, <2>5
<1>3. ASSUME NEW u \in Customers, hajjPc'[u] = "writeAccount"
      PROVE  hajjRead'[u] = pilgrimage'[ask[u].booking].amountPaid
  BY <1>3, CustomerFields DEF NothingLost
<1> QED BY <1>1, <1>2, <1>3, AskFixed DEF NothingLost

LEMMA RemainingKept ==
  ASSUME HajjTypeOK, WithinRemaining, UNCHANGED ask,
         ~accountOverlap' =>
           /\ ~accountOverlap
           /\ \A u \in Customers : BeforeCharge(u)' =>
                /\ BeforeCharge(u)
                /\ pilgrimage'[ask[u].booking].amountPaid = pilgrimage[ask[u].booking].amountPaid
                /\ pilgrimage'[ask[u].booking].total = pilgrimage[ask[u].booking].total
  PROVE  WithinRemaining'
BY AskFixed DEF WithinRemaining

LEMMA TotalKept ==
  ASSUME NeverChargedBeyondTotal,
         ~accountOverlap' /\ ~hajjCrashed' => ~accountOverlap /\ ~hajjCrashed,
         \A b \in Pilgrimages :
           /\ ChargedFor(b)' = ChargedFor(b)
           /\ pilgrimage'[b].total = pilgrimage[b].total
           /\ PaymentsOf(b) \subseteq PaymentsOf(b)'
           /\ \A k \in PaymentsOf(b) : hajjPayment'[k].amount = hajjPayment[k].amount
  PROVE  NeverChargedBeyondTotal'
BY DEF NeverChargedBeyondTotal
-----------------------------------------------------------------------------
(* Every step of the code keeps all of them.                               *)

\* The charges stay the same while the payments do.
LEMMA NoCharge ==
  ASSUME HajjTypeOK, HajjTypeOK', ChargesInv, ChargesInv', UNCHANGED <<hajjPayment, hajjCharges>>
  PROVE  \A b : /\ ChargedFor(b)' = ChargedFor(b)
                /\ PaymentsOf(b)' = PaymentsOf(b)
BY ChargedForSame DEF PaymentsOf

\* A step that does nothing about payments.
LEMMA AsideKeeps ==
  ASSUME HajjTypeOK, HajjTypeOK', ChargesInv, ChargesInv', AccountsInv,
         UNCHANGED <<ask, pilgrimage, hajjPayment, hajjCharges, accountOverlap, replayed>>,
         hajjCrashed' = hajjCrashed,
         \A u \in HajjThreads : Paying(u) \/ Paying(u)' =>
           hajjPc'[u] = hajjPc[u] /\ hajjRead'[u] = hajjRead[u]
  PROVE  AccountsInv'
<1> USE DEF AccountsInv
<1>1. \A u \in Customers : u \in HajjThreads
  BY CustomerFields
<1>2. \A u \in Customers :
        /\ Recording(u)' => hajjPc'[u] = hajjPc[u]
        /\ hajjPc[u] = "recordPaid" => hajjPc'[u] = hajjPc[u]
        /\ hajjPc'[u] = "writeAccount" => hajjPc[u] = "writeAccount" /\ hajjRead'[u] = hajjRead[u]
        /\ PaymentMade(u)' => PaymentMade(u)
        /\ Paying(u)' => Paying(u)
        /\ Applying(u)' => Applying(u)
        /\ BeforeCharge(u)' => BeforeCharge(u)
        /\ Unapplied(u)' <=> Unapplied(u)
  BY <1>1, AskFixed DEF Recording, PaymentMade, Paying, Applying, BeforeCharge, Unapplied, Paid
<1>3. RecordsInv'
  BY <1>2, RecordsKept DEF RecordsInv
<1>4. ChargesRecorded'
  BY <1>2, ChargesKept DEF ChargesRecorded
<1>5. RowsInv'
  BY RowsKept
<1>6. OneOwner'
  BY <1>2, OwnerKept
<1>7. \A k : Pending(k)' => Pending(k)
  BY <1>2, AskFixed DEF Pending
<1>8. \A b \in Pilgrimages : \A k \in PaymentKeys : Counts(b, k) => Counts(b, k)'
  BY <1>7 DEF Counts, PaymentsOf, Paid
<1>9. NothingInvented'
  BY <1>2, <1>8, InventedKept
<1>10. OnePayer'
  BY <1>2, PayerKept
<1>11. NothingLost'
  BY <1>2, NoCharge, LostKept, UnappliedPays
<1>12. WithinRemaining'
  BY <1>2, RemainingKept
<1>13. NeverChargedBeyondTotal'
  BY NoCharge, TotalKept
<1> QED BY <1>3, <1>4, <1>5, <1>6, <1>9, <1>10, <1>11, <1>12, <1>13

\* What every lemma about a step of one request starts from.
Before == HajjTypeInv /\ ChargesInv /\ AccountsInv /\ HajjTypeInv' /\ ChargesInv'

\* A request t that moves to step `next` leaves the others where they are.
LEMMA OthersStay ==
  ASSUME HajjTypeOK, NEW t \in HajjThreads, NEW next, hajjPc' = [hajjPc EXCEPT ![t] = next]
  PROVE  /\ hajjPc'[t] = next
         /\ \A u \in HajjThreads \ {t} : hajjPc'[u] = hajjPc[u]
BY DEF HajjTypeOK

\* An instalment is accepted.
LEMMA LoadKeeps ==
  ASSUME Before, NEW t \in HajjThreads, LoadForPayment(t),
         pilgrimage[ask[t].booking].status # "FULLY_PAID",
         ask[t].amount <= Remaining(ask[t].booking)
  PROVE  AccountsInv'
<1> USE DEF Before, AccountsInv, HajjTypeInv
<1>1. /\ t \in Payers /\ hajjPc[t] = "start"
      /\ hajjPc' = [hajjPc EXCEPT ![t] = "findPayment"]
      /\ NoteAccount(t)
      /\ UNCHANGED <<ask, pilgrimage, hajjPayment, hajjCharges, hajjRead, replayed, hajjCrashed>>
  BY DEF LoadForPayment, HajjGoto, package
<1>2. t \in Customers
  BY <1>1 DEF Customers
<1>3. hajjPc'[t] = "findPayment" /\ \A u \in Customers \ {t} : hajjPc'[u] = hajjPc[u]
  BY <1>1, OthersStay, CustomerFields
<1>4. \A u \in Customers :
        /\ Recording(u)' => hajjPc'[u] = hajjPc[u]
        /\ hajjPc[u] = "recordPaid" => hajjPc'[u] = hajjPc[u]
        /\ hajjPc'[u] = "writeAccount" => hajjPc[u] = "writeAccount" /\ hajjRead'[u] = hajjRead[u]
        /\ PaymentMade(u)' => PaymentMade(u)
        /\ u # t => (Paying(u)' <=> Paying(u))
        /\ Applying(u)' => Applying(u)
        /\ u # t => (BeforeCharge(u)' <=> BeforeCharge(u))
        /\ Unapplied(u)' <=> Unapplied(u)
  BY <1>1, <1>3, AskFixed DEF Recording, PaymentMade, Paying, Applying, BeforeCharge, Unapplied, Paid
<1>5. /\ OnePayer'
      /\ ~accountOverlap' =>
           ~accountOverlap /\ \A u \in Customers \ {t} : Paying(u) => ask[u].booking # ask[t].booking
  BY <1>1, <1>2, <1>4, PayerNoted
<1>6. RecordsInv'
  BY <1>1, <1>4, RecordsKept DEF RecordsInv
<1>7. ChargesRecorded'
  BY <1>1, <1>4, ChargesKept DEF ChargesRecorded
<1>8. RowsInv'
  BY <1>1, RowsKept
<1>9. OneOwner'
  BY <1>1, <1>4, OwnerKept
<1>10. \A b \in Pilgrimages : \A k \in PaymentKeys : Counts(b, k) => Counts(b, k)'
  <2>1. \A k : Pending(k)' => Pending(k)
    BY <1>1, <1>4, AskFixed DEF Pending
  <2> QED BY <1>1, <2>1 DEF Counts, PaymentsOf, Paid
<1>11. NothingInvented'
  BY <1>1, <1>4, <1>10, InventedKept
<1>12. NothingLost'
  BY <1>1, <1>4, <1>5, NoCharge, LostKept, UnappliedPays
<1>13. ask[t].amount + pilgrimage[ask[t].booking].amountPaid <= pilgrimage[ask[t].booking].total
  BY <1>2, CustomerFields, Numbers DEF Remaining
<1>14. t \notin Bookers
  BY <1>1, AskFields DEF HajjTypeOK
<1>15. WithinRemaining'
  <2>1. ASSUME ~accountOverlap', NEW u \in Customers, BeforeCharge(u)'
        PROVE  /\ u \in Payers => ask[u].amount + pilgrimage[ask[u].booking].amountPaid
                                    <= pilgrimage[ask[u].booking].total
               /\ u \in Bookers => pilgrimage[ask[u].booking].amountPaid = 0
    BY <1>4, <1>5, <1>13, <1>14, <2>1 DEF WithinRemaining
  <2> QED BY <1>1, <2>1, AskFixed DEF WithinRemaining
<1>16. NeverChargedBeyondTotal'
  BY <1>1, <1>5, NoCharge, TotalKept
<1> QED BY <1>5, <1>6, <1>7, <1>8, <1>9, <1>11, <1>12, <1>15, <1>16

\* The seats and the booking row.
LEMMA ReserveKeeps ==
  ASSUME Before, NEW t \in HajjThreads, Reserve(t)
  PROVE  AccountsInv'
<1> USE DEF Before, AccountsInv, HajjTypeInv
<1> DEFINE b == ask[t].booking
<1>1. /\ hajjPc[t] = "reserve" /\ t \in Bookers
      /\ hajjPc' = [hajjPc EXCEPT ![t] = "findPayment"]
      /\ hajjRead' = [hajjRead EXCEPT ![t] = 0]
      /\ NoteAccount(t)
      /\ pilgrimage[b] = NoBookingRow
      /\ pilgrimage' = [pilgrimage EXCEPT ![b] = BookingRow(t)]
      /\ UNCHANGED <<ask, hajjPayment, hajjCharges, replayed, hajjCrashed>>
  BY DEF Reserve, HajjGoto, PlacesInv
<1>2. t \in Customers
  BY <1>1 DEF Customers
<1>3. hajjPc'[t] = "findPayment" /\ \A u \in Customers \ {t} : hajjPc'[u] = hajjPc[u]
  BY <1>1, OthersStay, CustomerFields
<1>4. \A u \in Customers \ {t} : hajjRead'[u] = hajjRead[u]
  BY <1>1, CustomerFields DEF HajjTypeOK
<1>5. \A u \in Customers :
        /\ Recording(u)' => hajjPc'[u] = hajjPc[u]
        /\ hajjPc[u] = "recordPaid" => hajjPc'[u] = hajjPc[u]
        /\ hajjPc'[u] = "writeAccount" => hajjPc[u] = "writeAccount" /\ hajjRead'[u] = hajjRead[u]
        /\ PaymentMade(u)' => PaymentMade(u)
        /\ u # t => (Paying(u)' <=> Paying(u))
        /\ Applying(u)' => Applying(u)
        /\ u # t => (BeforeCharge(u)' <=> BeforeCharge(u))
        /\ Unapplied(u)' <=> Unapplied(u)
  BY <1>1, <1>3, <1>4, AskFixed
     DEF Recording, PaymentMade, Paying, Applying, BeforeCharge, Unapplied, Paid
<1>6. b \in Pilgrimages
  BY <1>2, CustomerFields
<1>7. /\ pilgrimage'[b].amountPaid = 0 /\ pilgrimage[b].amountPaid = 0
      /\ pilgrimage'[b].status = "PENDING_DEPOSIT"
      /\ pilgrimage'[b] # NoBookingRow
      /\ pilgrimage[b].total = 0
      /\ \A c \in Pilgrimages \ {b} : pilgrimage'[c] = pilgrimage[c]
  BY <1>1, <1>6 DEF HajjTypeOK, BookingRow, NoBookingRow
<1> HIDE DEF b
<1>8. \A c \in Pilgrimages : pilgrimage'[c].amountPaid = pilgrimage[c].amountPaid
  BY <1>7
<1>9. \A c \in Pilgrimages : pilgrimage[c] # NoBookingRow => pilgrimage'[c] = pilgrimage[c]
  BY <1>1, <1>7
<1>10. \A u \in Customers : BeforeCharge(u) => pilgrimage'[ask[u].booking] = pilgrimage[ask[u].booking]
  BY <1>9, CustomerFields, UnappliedPays DEF PlacesInv
<1>11. /\ OnePayer'
       /\ ~accountOverlap' =>
            ~accountOverlap /\ \A u \in Customers \ {t} : Paying(u) => ask[u].booking # ask[t].booking
  BY <1>1, <1>2, <1>5, PayerNoted
<1>12. RecordsInv'
  BY <1>1, <1>5, RecordsKept DEF RecordsInv
<1>13. ChargesRecorded'
  BY <1>1, <1>5, ChargesKept DEF ChargesRecorded
<1>14. RowsInv'
  <2>1. \A k \in PaymentKeys : hajjPayment[k] # NoPayment => hajjPayment[k].booking \in Pilgrimages
    BY DEF HajjTypeOK
  <2>2. \A k \in PaymentKeys :
          hajjPayment'[k] # NoPayment => pilgrimage'[hajjPayment'[k].booking] # NoBookingRow
    BY <1>1, <1>9, <2>1 DEF RowsInv
  <2>3. \A c \in Pilgrimages :
          pilgrimage'[c].status = "FULLY_PAID" => pilgrimage'[c].amountPaid >= pilgrimage'[c].total
    BY <1>7 DEF RowsInv
  <2> QED BY <2>2, <2>3 DEF RowsInv
<1>15. OneOwner'
  BY <1>1, <1>5, OwnerKept
<1>16. \A c \in Pilgrimages : \A k \in PaymentKeys : Counts(c, k) => Counts(c, k)'
  <2>1. \A k : Pending(k)' => Pending(k)
    BY <1>1, <1>5, AskFixed DEF Pending
  <2> QED BY <1>1, <2>1 DEF Counts, PaymentsOf, Paid
<1>17. NothingInvented'
  BY <1>1, <1>5, <1>8, <1>16, InventedKept
<1>18. NothingLost'
  BY <1>1, <1>5, <1>8, <1>11, NoCharge, LostKept, UnappliedPays
<1>19. t \notin Payers
  BY <1>1, AskFields DEF HajjTypeOK
<1>20. WithinRemaining'
  <2>1. ASSUME ~accountOverlap', NEW u \in Customers, BeforeCharge(u)'
        PROVE  /\ u \in Payers => ask[u].amount + pilgrimage'[ask[u].booking].amountPaid
                                    <= pilgrimage'[ask[u].booking].total
               /\ u \in Bookers => pilgrimage'[ask[u].booking].amountPaid = 0
    <3>1. CASE u = t
      BY <1>7, <1>19, <3>1 DEF b
    <3>2. CASE u # t
      BY <1>5, <1>10, <1>11, <2>1, <3>2 DEF WithinRemaining
    <3> QED BY <3>1, <3>2
  <2> QED BY <1>1, <2>1, AskFixed DEF WithinRemaining
<1>21. NeverChargedBeyondTotal'
  <2>1. ASSUME ~accountOverlap', ~hajjCrashed', NEW c \in Pilgrimages,
               \A k \in PaymentsOf(c)' \cap Pilgrimages : hajjPayment'[k].amount <= pilgrimage'[c].total
        PROVE  ChargedFor(c)' <= pilgrimage'[c].total
    <3>1. ChargedFor(c)' = ChargedFor(c) /\ PaymentsOf(c)' = PaymentsOf(c) /\ ChargedFor(c) \in Nat
      BY <1>1, NoCharge, ChargedNext DEF ChargedNumbers
    <3>2. CASE c # b
      BY <1>1, <1>7, <1>11, <2>1, <3>1, <3>2 DEF NeverChargedBeyondTotal
    <3>3. CASE c = b
      <4>1. PaymentsOf(c) = {}
        BY <1>1, <1>6, <3>3, HajjAssumption DEF PaymentsOf, RowsInv, NoPayment
      <4>2. ChargedFor(c) <= 0
        BY <1>1, <1>7, <1>11, <2>1, <3>3, <4>1 DEF NeverChargedBeyondTotal
      <4>3. pilgrimage'[c].total \in Nat
        BY NumbersNext DEF RowNumbers
      <4> QED BY <3>1, <4>2, <4>3
    <3> QED BY <3>2, <3>3
  <2> QED BY <2>1 DEF NeverChargedBeyondTotal
<1> QED BY <1>11, <1>12, <1>13, <1>14, <1>15, <1>17, <1>18, <1>20, <1>21
\* A payment is looked for by its key, and found or not.
LEMMA FindKeeps ==
  ASSUME Before, NEW t \in HajjThreads, FindPayment(t)
  PROVE  AccountsInv'
<1> USE DEF Before, AccountsInv, HajjTypeInv
<1>0. PICK next \in {"insertPayment", "readAccount", "done"} :
        /\ hajjPc' = [hajjPc EXCEPT ![t] = next]
        /\ hajjPayment[PaymentKey(t)] = NoPayment => next = "insertPayment"
  <2>1. CASE hajjPayment[PaymentKey(t)] = NoPayment
    BY <2>1 DEF FindPayment, HajjGoto, NoPayment
  <2>2. CASE hajjPayment[PaymentKey(t)] # NoPayment
    BY <2>2 DEF FindPayment, HajjGoto
  <2> QED BY <2>1, <2>2
<1>1. /\ hajjPc[t] = "findPayment" /\ t \in Customers
      /\ replayed' = (replayed \/ hajjPayment[PaymentKey(t)] # NoPayment)
      /\ UNCHANGED <<ask, pilgrimage, hajjPayment, hajjCharges, hajjRead,
                     accountOverlap, hajjCrashed>>
  BY DEF FindPayment, HajjGoto, package, PlacesInv, Paying
<1>2. hajjPc'[t] = next /\ \A u \in Customers \ {t} : hajjPc'[u] = hajjPc[u]
  BY <1>0, <1>1, OthersStay, CustomerFields
<1>3. \A u \in Customers :
        /\ Recording(u)' => hajjPc'[u] = hajjPc[u]
        /\ hajjPc[u] = "recordPaid" => hajjPc'[u] = hajjPc[u]
        /\ hajjPc'[u] = "writeAccount" => hajjPc[u] = "writeAccount"
        /\ Paying(u)' => Paying(u)
        /\ BeforeCharge(u)' => BeforeCharge(u)
        /\ Unapplied(u) => Unapplied(u)'
        /\ Unapplied(u)' => Paying(u)
  BY <1>1, <1>2, AskFixed DEF Recording, Paying, BeforeCharge, Unapplied, Paid
<1>4. ~replayed' => \A u \in Customers :
        /\ PaymentMade(u)' => PaymentMade(u)
        /\ Applying(u)' => Applying(u)
  <2>1. ~replayed' => hajjPayment[PaymentKey(t)] = NoPayment
    BY <1>1
  <2>2. ~replayed' => hajjPc'[t] = "insertPayment"
    BY <1>0, <1>2, <2>1
  <2> QED BY <1>2, <2>2 DEF PaymentMade, Applying
<1>5. RecordsInv'
  BY <1>1, <1>3, RecordsKept DEF RecordsInv
<1>6. ChargesRecorded'
  BY <1>1, <1>3, ChargesKept DEF ChargesRecorded
<1>7. RowsInv'
  BY <1>1, RowsKept
<1>8. OneOwner'
  BY <1>1, <1>4, OwnerKept
<1>9. ~replayed' => \A b \in Pilgrimages : \A k \in PaymentKeys : Counts(b, k) => Counts(b, k)'
  <2>1. ~replayed' => \A k : Pending(k)' => Pending(k)
    BY <1>1, <1>4, AskFixed DEF Pending
  <2> QED BY <1>1, <2>1 DEF Counts, PaymentsOf, Paid
<1>10. NothingInvented'
  BY <1>1, <1>3, <1>9, InventedKept
<1>11. OnePayer'
  BY <1>1, <1>3, PayerKept
<1>12. NothingLost'
  BY <1>1, <1>3, NoCharge, LostKept
<1>13. WithinRemaining'
  BY <1>1, <1>3, RemainingKept
<1>14. NeverChargedBeyondTotal'
  BY <1>1, NoCharge, TotalKept
<1> QED BY <1>5, <1>6, <1>7, <1>8, <1>10, <1>11, <1>12, <1>13, <1>14

\* The payment's row.
LEMMA InsertKeeps ==
  ASSUME Before, NEW t \in HajjThreads, InsertPayment(t)
  PROVE  AccountsInv'
<1> USE DEF Before, AccountsInv, HajjTypeInv
<1> DEFINE row == [booking |-> ask[t].booking, amount |-> ChargeAmount(t), status |-> "PENDING"]
<1>a. t \in Customers
  BY DEF InsertPayment, PlacesInv, Paying
<1>0. PICK x \in PaymentKeys : x = PaymentKey(t)
  BY <1>a, CustomerFields
<1>1. /\ hajjPc[t] = "insertPayment" /\ t \in Customers
      /\ pilgrimage[ask[t].booking] # NoBookingRow
      /\ hajjPayment[x] = NoPayment
      /\ hajjPc' = [hajjPc EXCEPT ![t] = "charge"]
      /\ hajjPayment' = [hajjPayment EXCEPT ![x] = row]
      /\ UNCHANGED <<ask, pilgrimage, hajjCharges, hajjRead, accountOverlap, replayed, hajjCrashed>>
  BY <1>0 DEF InsertPayment, HajjGoto, package, hajjFlags, PlacesInv, Paying
<1>2. hajjPc'[t] = "charge" /\ \A u \in Customers \ {t} : hajjPc'[u] = hajjPc[u]
  BY <1>1, OthersStay, CustomerFields
<1>3. x \in PaymentKeys /\ ask[t].booking \in Pilgrimages
  BY <1>0, <1>1, CustomerFields
<1>4. /\ hajjPayment'[x] = row
      /\ \A k \in PaymentKeys \ {x} : hajjPayment'[k] = hajjPayment[k]
  BY <1>1, <1>3 DEF HajjTypeOK
<1>5. /\ row.booking = ask[t].booking /\ row.status = "PENDING" /\ row.amount = ChargeAmount(t)
      /\ t \in Payers => row.amount = ask[t].amount
  BY <1>1, AskFields DEF ChargeAmount, HajjTypeOK
<1>6. hajjCharges[x] = 0 /\ ~Paid(x) /\ hajjPayment[x].amount = 0
  BY <1>1, <1>3 DEF ChargesInv, Paid, NoPayment
<1> HIDE DEF row
<1>7. \A u \in Customers : PaymentMade(u) => PaymentKey(u) # x
  BY <1>0, <1>1, CustomerFields DEF PlacesInv
<1>8. \A u \in Customers :
        /\ Recording(u)' => u = t \/ Recording(u)
        /\ PaymentMade(u)' => u = t \/ PaymentMade(u)
        /\ Recording(u) => PaymentMade(u)
        /\ hajjPc'[u] = "recordPaid" <=> hajjPc[u] = "recordPaid"
        /\ hajjPc'[u] = "writeAccount" <=> hajjPc[u] = "writeAccount"
        /\ hajjPc[u] = "writeAccount" => PaymentMade(u)
        /\ Paying(u)' => Paying(u)
        /\ Applying(u)' => Applying(u)
        /\ BeforeCharge(u)' => BeforeCharge(u)
  BY <1>1, <1>2 DEF Recording, PaymentMade, Paying, Applying, BeforeCharge
<1>9. \A k \in PaymentKeys : k # x => (Paid(k)' <=> Paid(k))
  BY <1>4 DEF Paid
<1>10. ~Paid(x)'
  BY <1>4, <1>5 DEF Paid
<1>11. ASSUME NEW u \in Customers PROVE Unapplied(u)' <=> Unapplied(u)
  <2>1. /\ hajjPc'[u] = "readAccount" <=> hajjPc[u] = "readAccount"
        /\ PaymentKey(u)' = PaymentKey(u)
    BY <1>1, <1>2, AskFixed
  <2>2. hajjPc[u] = "readAccount" => hajjPayment'[PaymentKey(u)] = hajjPayment[PaymentKey(u)]
    BY <1>4, <1>7, CustomerFields DEF PaymentMade
  <2>3. hajjPc[u] = "readAccount" => (Paid(PaymentKey(u))' <=> Paid(PaymentKey(u)))
    BY <2>1, <2>2 DEF Paid
  <2> QED BY <1>8, <2>1, <2>3 DEF Unapplied
<1>12. RecordsInv'
  <2>1. ASSUME NEW u \in Customers, NEW v \in Customers, Recording(u)', Recording(v)',
               PaymentKey(u) = PaymentKey(v)
        PROVE  u = v
    BY <1>0, <1>7, <1>8, <2>1 DEF RecordsInv
  <2>2. ASSUME NEW u \in Customers, Recording(u)'
        PROVE  /\ hajjPayment'[PaymentKey(u)].status = "PENDING"
               /\ hajjPayment'[PaymentKey(u)].booking = ask[u].booking
               /\ u \in Payers => hajjPayment'[PaymentKey(u)].amount = ask[u].amount
    <3>1. CASE u = t
      BY <1>0, <1>4, <1>5, <3>1
    <3>2. CASE u # t
      <4>1. Recording(u) /\ PaymentKey(u) \in PaymentKeys \ {x}
        BY <1>7, <1>8, <2>2, <3>2, CustomerFields
      <4> QED BY <1>4, <4>1 DEF RecordsInv
    <3> QED BY <3>1, <3>2
  <2>3. ASSUME NEW u \in Customers, hajjPc'[u] = "recordPaid" PROVE hajjCharges'[PaymentKey(u)] = 1
    BY <1>1, <1>8, <2>3 DEF RecordsInv
  <2>4. ASSUME NEW u \in Customers, hajjPc'[u] = "writeAccount" PROVE Paid(PaymentKey(u))'
    <3>1. hajjPc[u] = "writeAccount" /\ PaymentKey(u) \in PaymentKeys /\ PaymentKey(u) # x
      BY <1>7, <1>8, <2>4, CustomerFields
    <3>2. Paid(PaymentKey(u))
      BY <3>1 DEF RecordsInv
    <3>3. hajjPayment'[PaymentKey(u)] = hajjPayment[PaymentKey(u)] /\ PaymentKey(u)' = PaymentKey(u)
      BY <1>1, <1>4, <3>1, AskFixed
    <3> QED BY <3>2, <3>3 DEF Paid
  <2> QED BY <1>1, <2>1, <2>2, <2>3, <2>4, AskFixed DEF RecordsInv, Paid
<1>13. ChargesRecorded'
  <2>1. ASSUME NEW k \in PaymentKeys
        PROVE  /\ Paid(k)' => hajjCharges'[k] = 1
               /\ ~hajjCrashed' /\ hajjCharges'[k] > 0
                    => Paid(k)' \/ \E u \in Customers : hajjPc'[u] = "recordPaid" /\ PaymentKey(u) = k
    BY <1>1, <1>6, <1>8, <1>9, <1>10 DEF ChargesRecorded
  <2> QED BY <1>1, <2>1, AskFixed DEF ChargesRecorded
<1>14. RowsInv'
  BY <1>1, <1>4, <1>5 DEF RowsInv
<1>15. OneOwner'
  <2>1. ASSUME ~replayed', NEW u \in Customers, NEW v \in Customers, PaymentMade(u)', PaymentMade(v)',
               PaymentKey(u) = PaymentKey(v)
        PROVE  u = v
    BY <1>0, <1>1, <1>7, <1>8, <2>1 DEF OneOwner
  <2>2. ASSUME ~replayed', NEW u \in Customers, PaymentMade(u)'
        PROVE  hajjPayment'[PaymentKey(u)].booking = ask[u].booking
    <3>1. CASE u = t
      BY <1>0, <1>4, <1>5, <3>1
    <3>2. CASE u # t
      <4>1. PaymentMade(u) /\ PaymentKey(u) \in PaymentKeys \ {x}
        BY <1>7, <1>8, <2>2, <3>2, CustomerFields
      <4> QED BY <1>1, <1>4, <2>2, <4>1 DEF OneOwner
    <3> QED BY <3>1, <3>2
  <2> QED BY <1>1, <2>1, <2>2, AskFixed DEF OneOwner
<1>16. \A b \in Pilgrimages : \A k \in PaymentKeys :
         Counts(b, k) => Counts(b, k)' /\ hajjPayment'[k].amount = hajjPayment[k].amount
  <2>1. \A k : Pending(k)' => Pending(k)
    BY <1>1, <1>8, AskFixed DEF Pending
  <2> QED BY <1>4, <1>6, <1>9, <2>1 DEF Counts, PaymentsOf
<1>17. NothingInvented'
  BY <1>1, <1>8, <1>16, InventedKept
<1>18. OnePayer'
  BY <1>1, <1>8, PayerKept
<1>19. \A b : ChargedFor(b)' = ChargedFor(b)
  BY <1>1, <1>4, <1>6, ChargedForSame
<1>20. \A u \in Customers :
         Unapplied(u) => hajjPayment'[PaymentKey(u)].amount = hajjPayment[PaymentKey(u)].amount
  <2>1. \A u \in Customers : Unapplied(u) => PaymentMade(u)
    BY DEF Unapplied, PaymentMade
  <2> QED BY <1>4, <1>7, <2>1, CustomerFields
<1>21. NothingLost'
  BY <1>1, <1>8, <1>11, <1>19, <1>20, LostKept, UnappliedPays
<1>22. WithinRemaining'
  BY <1>1, <1>8, RemainingKept
<1>23. NeverChargedBeyondTotal'
  <2>1. ASSUME ~accountOverlap', ~hajjCrashed', NEW c \in Pilgrimages,
               \A k \in PaymentsOf(c)' \cap Pilgrimages : hajjPayment'[k].amount <= pilgrimage'[c].total
        PROVE  ChargedFor(c)' <= pilgrimage'[c].total
    <3>1. \A k \in PaymentsOf(c) : k # x => k \in PaymentsOf(c)' /\ hajjPayment'[k] = hajjPayment[k]
      BY <1>4 DEF PaymentsOf
    <3>2. hajjPayment[x].amount <= pilgrimage[c].total
      BY <1>6, Numbers
    <3>3. \A k \in PaymentsOf(c) \cap Pilgrimages : hajjPayment[k].amount <= pilgrimage[c].total
      BY <1>1, <2>1, <3>1, <3>2
    <3> QED BY <1>1, <1>19, <2>1, <3>3 DEF NeverChargedBeyondTotal
  <2> QED BY <2>1 DEF NeverChargedBeyondTotal
<1> QED BY <1>12, <1>13, <1>14, <1>15, <1>17, <1>18, <1>21, <1>22, <1>23

\* The provider's charge.
LEMMA ChargeKeeps ==
  ASSUME Before, NEW t \in HajjThreads, ProviderCharges(t)
  PROVE  AccountsInv'
<1> USE DEF Before, AccountsInv, HajjTypeInv
<1>a. t \in Customers
  BY DEF ProviderCharges, PlacesInv, Paying
<1>0. PICK x \in PaymentKeys, b \in Pilgrimages : x = PaymentKey(t) /\ b = ask[t].booking
  BY <1>a, CustomerFields
<1>1. /\ hajjPc[t] = "charge" /\ t \in Customers
      /\ UNCHANGED <<ask, pilgrimage, hajjPayment, hajjRead, accountOverlap, replayed>>
  BY DEF ProviderCharges, package, PlacesInv, Paying
<1>2. PICK next \in {"recordPaid", "recordFailed"} :
        /\ hajjPc' = [hajjPc EXCEPT ![t] = next]
        /\ next = "recordPaid" => hajjCharges' = [hajjCharges EXCEPT ![x] = @ + 1]
        /\ next = "recordPaid" => hajjCrashed' = hajjCrashed
        /\ next = "recordFailed" =>
             \/ hajjCharges' = hajjCharges /\ hajjCrashed' = hajjCrashed
             \/ hajjCharges' = [hajjCharges EXCEPT ![x] = @ + 1] /\ hajjCrashed' = TRUE
  BY <1>0 DEF ProviderCharges, HajjGoto
<1>3. hajjPc'[t] = next /\ \A u \in Customers \ {t} : hajjPc'[u] = hajjPc[u]
  BY <1>1, <1>2, OthersStay, CustomerFields
<1>4. x \in PaymentKeys /\ b \in Pilgrimages
  BY <1>0
<1>5. /\ hajjCharges[x] = 0
      /\ hajjPayment[x].booking = b
      /\ hajjPayment[x].status = "PENDING"
      /\ t \in Payers => hajjPayment[x].amount = ask[t].amount
  BY <1>0, <1>1 DEF ChargesInv, AboutToCharge, RecordsInv, Recording
<1>6. /\ \A k \in PaymentKeys \ {x} : hajjCharges'[k] = hajjCharges[k]
      /\ next = "recordPaid" => hajjCharges'[x] = 1
      /\ next = "recordFailed" => hajjCharges'[x] = 0 \/ hajjCrashed'
  BY <1>2, <1>4, <1>5 DEF HajjTypeOK
<1>7. ~hajjCrashed' => ~hajjCrashed
  BY <1>2 DEF HajjTypeOK
<1>8. ~Paid(x)
  BY <1>5 DEF Paid
<1>9. \A u \in Customers :
        /\ Recording(u)' <=> Recording(u)
        /\ PaymentMade(u)' => PaymentMade(u)
        /\ u # t => (hajjPc'[u] = "recordPaid" <=> hajjPc[u] = "recordPaid")
        /\ hajjPc[u] = "recordPaid" => u # t /\ Recording(u)
        /\ hajjPc'[u] = "writeAccount" <=> hajjPc[u] = "writeAccount"
        /\ Paying(u)' => Paying(u)
        /\ Applying(u)' => Applying(u)
        /\ BeforeCharge(u)' => BeforeCharge(u)
        /\ u # t => (Unapplied(u)' <=> Unapplied(u))
  BY <1>1, <1>3, AskFixed
     DEF Recording, PaymentMade, Paying, Applying, BeforeCharge, Unapplied, Paid
<1>10. Recording(t) /\ Paying(t) /\ ~Unapplied(t) /\ BeforeCharge(t)
  BY <1>1 DEF Recording, Paying, Unapplied, BeforeCharge
<1>11. RecordsInv'
  <2>1. ASSUME NEW u \in Customers, hajjPc'[u] = "recordPaid" PROVE hajjCharges'[PaymentKey(u)] = 1
    <3>1. CASE u = t
      BY <1>0, <1>3, <1>6, <2>1, <3>1
    <3>2. CASE u # t
      <4>1. hajjPc[u] = "recordPaid" /\ PaymentKey(u) \in PaymentKeys \ {x}
        BY <1>0, <1>1, <1>9, <1>10, <2>1, <3>2, CustomerFields DEF RecordsInv
      <4> QED BY <1>6, <4>1 DEF RecordsInv
    <3> QED BY <3>1, <3>2
  <2> QED BY <1>1, <1>9, <2>1, AskFixed DEF RecordsInv, Paid
<1>12. ChargesRecorded'
  <2>1. ASSUME NEW k \in PaymentKeys
        PROVE  /\ Paid(k) => hajjCharges'[k] = 1
               /\ ~hajjCrashed' /\ hajjCharges'[k] > 0
                    => Paid(k) \/ \E u \in Customers : hajjPc'[u] = "recordPaid" /\ PaymentKey(u) = k
    <3>1. CASE k = x
      <4>1. ~hajjCrashed' /\ hajjCharges'[k] > 0 => hajjPc'[t] = "recordPaid" /\ PaymentKey(t) = k
        BY <1>0, <1>3, <1>6, <3>1
      <4> QED BY <1>1, <1>8, <3>1, <4>1
    <3>2. CASE k # x
      BY <1>6, <1>7, <1>9, <3>2 DEF ChargesRecorded
    <3> QED BY <3>1, <3>2
  <2> QED BY <1>1, <2>1, AskFixed DEF ChargesRecorded, Paid
<1>13. RowsInv'
  BY <1>1, RowsKept
<1>14. OneOwner'
  BY <1>1, <1>9, OwnerKept
<1>15. \A c \in Pilgrimages : \A k \in PaymentKeys : Counts(c, k) => Counts(c, k)'
  <2>1. \A k : Pending(k)' => Pending(k)
    BY <1>1, <1>9, AskFixed DEF Pending
  <2> QED BY <1>1, <2>1 DEF Counts, PaymentsOf, Paid
<1>16. NothingInvented'
  BY <1>1, <1>9, <1>15, InventedKept
<1>17. OnePayer'
  BY <1>1, <1>9, PayerKept
<1>18. WithinRemaining'
  BY <1>1, <1>9, RemainingKept
<1>19. CASE hajjCharges' = hajjCharges
  <2>1. next = "recordFailed"
    BY <1>5, <1>6, <1>19
  <2>2. ~Unapplied(t)'
    BY <1>3, <2>1 DEF Unapplied
  <2>3. NothingLost'
    BY <1>1, <1>7, <1>9, <1>10, <1>19, <2>2, NoCharge, LostKept, UnappliedPays
  <2>4. NeverChargedBeyondTotal'
    BY <1>1, <1>7, <1>19, NoCharge, TotalKept
  <2> QED BY <1>11, <1>12, <1>13, <1>14, <1>16, <1>17, <1>18, <2>3, <2>4
<1>20. CASE hajjCrashed'
  <2>1. NothingLost' /\ NeverChargedBeyondTotal'
    BY <1>20 DEF NothingLost, NeverChargedBeyondTotal
  <2> QED BY <1>11, <1>12, <1>13, <1>14, <1>16, <1>17, <1>18, <2>1
<1>21. CASE next = "recordPaid" /\ ~hajjCrashed' /\ accountOverlap'
  <2>1. NothingLost' /\ NeverChargedBeyondTotal'
    BY <1>21 DEF NothingLost, NeverChargedBeyondTotal
  <2> QED BY <1>11, <1>12, <1>13, <1>14, <1>16, <1>17, <1>18, <2>1
<1>22. CASE next = "recordPaid" /\ ~hajjCrashed' /\ ~accountOverlap'
  <2>1. ~accountOverlap /\ ~hajjCrashed
    BY <1>1, <1>7, <1>22
  <2>2. \A u \in Customers \ {t} : Paying(u) => ask[u].booking # b
    BY <1>0, <1>1, <1>10, <2>1 DEF OnePayer
  <2>3. ChargedFor(b) <= pilgrimage[b].amountPaid
    BY <1>0, <1>1, <1>4, <1>10, <2>1, <2>2, UnappliedPays DEF NothingLost
  <2>4. \A c : ChargedFor(c)' = ChargedFor(c) + (IF hajjPayment[x].booking = c
                                                 THEN hajjPayment[x].amount ELSE 0)
    BY <1>1, <1>4, <1>5, <1>6, <1>22, ChargedForOneMore
  <2>5. \A c : ChargedFor(c) \in Nat
    BY ChargedNext DEF ChargedNumbers
  <2>6. /\ ChargedFor(b)' = ChargedFor(b) + hajjPayment[x].amount
        /\ \A c \in Pilgrimages \ {b} : ChargedFor(c)' = ChargedFor(c)
    BY <1>5, <2>4, <2>5
  <2>7. hajjPayment[x].amount \in Nat /\ pilgrimage[b].amountPaid \in Nat /\ pilgrimage[b].total \in Nat
    BY <1>4, Numbers
  <2>8. ChargedFor(b)' <= pilgrimage[b].amountPaid + hajjPayment[x].amount
    BY <2>3, <2>5, <2>6, <2>7
  <2>9. NothingLost'
    <3>1. Unapplied(t)'
      BY <1>3, <1>22 DEF Unapplied
    <3>2. ASSUME NEW c \in Pilgrimages, \A u \in Customers : Unapplied(u)' => ask[u].booking # c
          PROVE  ChargedFor(c)' <= pilgrimage[c].amountPaid
      <4>1. c # b
        BY <1>0, <1>1, <3>1, <3>2
      <4>2. \A u \in Customers : Unapplied(u) => ask[u].booking # c
        BY <1>9, <1>10, <3>2
      <4> QED BY <2>1, <2>6, <4>1, <4>2 DEF NothingLost
    <3>3. ASSUME NEW u \in Customers, Unapplied(u)'
          PROVE  ChargedFor(ask[u].booking)'
                   <= pilgrimage[ask[u].booking].amountPaid + hajjPayment[PaymentKey(u)].amount
      <4>1. CASE u = t
        <5>1. ask[u].booking = b /\ ask'[u].booking = b /\ PaymentKey(u) = x
          BY <1>0, <1>1, <4>1
        <5> QED BY <2>8, <5>1
      <4>2. CASE u # t
        <5>1. Unapplied(u) /\ ask[u].booking \in Pilgrimages \ {b}
          BY <1>9, <2>2, <3>3, <4>2, CustomerFields, UnappliedPays
        <5>2. PICK c \in Pilgrimages \ {b} : c = ask[u].booking /\ c = ask'[u].booking
          BY <1>1, <5>1
        <5> QED BY <2>1, <2>6, <5>1, <5>2 DEF NothingLost
      <4> QED BY <4>1, <4>2
    <3>4. ASSUME NEW u \in Customers, hajjPc'[u] = "writeAccount"
          PROVE  hajjRead[u] = pilgrimage[ask[u].booking].amountPaid
      BY <1>9, <2>1, <3>4 DEF NothingLost
    <3> QED BY <1>1, <3>2, <3>3, <3>4, AskFixed DEF NothingLost
  <2>10. NeverChargedBeyondTotal'
    <3>1. ASSUME NEW c \in Pilgrimages,
                 \A k \in PaymentsOf(c) \cap Pilgrimages : hajjPayment[k].amount <= pilgrimage[c].total
          PROVE  ChargedFor(c)' <= pilgrimage[c].total
      <4>1. CASE c # b
        BY <2>1, <2>6, <3>1, <4>1 DEF NeverChargedBeyondTotal
      <4>2. CASE c = b /\ t \in Payers
        <5>1. ask[t].amount + pilgrimage[b].amountPaid <= pilgrimage[b].total
          BY <1>0, <1>1, <1>10, <2>1, <4>2 DEF WithinRemaining
        <5>2. pilgrimage[b].amountPaid + hajjPayment[x].amount <= pilgrimage[b].total
          BY <1>5, <2>7, <4>2, <5>1
        <5>3. ChargedFor(b)' \in Nat
          BY ChargedNext DEF ChargedNumbers
        <5>4. ChargedFor(b)' <= pilgrimage[b].total
          BY <2>7, <2>8, <5>2, <5>3
        <5> QED BY <4>2, <5>4
      <4>3. CASE c = b /\ t \in Bookers
        <5>1. pilgrimage[b].amountPaid = 0
          BY <1>0, <1>1, <1>10, <2>1, <4>3 DEF WithinRemaining
        <5>2. x \in PaymentsOf(b) \cap Pilgrimages
          BY <1>0, <1>4, <1>5, <4>3 DEF PaymentsOf, PaymentKey
        <5>3. hajjPayment[x].amount <= pilgrimage[b].total
          BY <3>1, <4>3, <5>2
        <5>4. ChargedFor(b)' \in Nat
          BY ChargedNext DEF ChargedNumbers
        <5>5. ChargedFor(b)' <= pilgrimage[b].total
          BY <2>7, <2>8, <5>1, <5>3, <5>4
        <5> QED BY <4>3, <5>5
      <4> QED BY <1>1, <4>1, <4>2, <4>3 DEF Customers
    <3>2. \A c : PaymentsOf(c)' = PaymentsOf(c)
      BY <1>1 DEF PaymentsOf
    <3> QED BY <1>1, <3>1, <3>2 DEF NeverChargedBeyondTotal
  <2> QED BY <1>11, <1>12, <1>13, <1>14, <1>16, <1>17, <1>18, <2>9, <2>10
<1> QED BY <1>2, <1>19, <1>20, <1>21, <1>22
\* The payment's status.
LEMMA RecordKeeps ==
  ASSUME Before, NEW t \in HajjThreads, RecordCharge(t)
  PROVE  AccountsInv'
<1> USE DEF Before, AccountsInv, HajjTypeInv
<1>a. t \in Customers
  BY DEF RecordCharge, PlacesInv, Paying
<1>0. PICK x \in PaymentKeys : x = PaymentKey(t)
  BY <1>a, CustomerFields
<1>1. /\ hajjPc[t] \in {"recordPaid", "recordFailed"} /\ t \in Customers
      /\ hajjPc' = [hajjPc EXCEPT ![t] = "readAccount"]
      /\ hajjPayment' = [hajjPayment EXCEPT ![x].status =
                           IF hajjPc[t] = "recordPaid" THEN "PAID" ELSE "FAILED"]
      /\ UNCHANGED <<ask, pilgrimage, hajjCharges, hajjRead, accountOverlap, replayed, hajjCrashed>>
  BY <1>0, <1>a DEF RecordCharge, HajjGoto, package, hajjFlags
<1>2. hajjPc'[t] = "readAccount" /\ \A u \in Customers \ {t} : hajjPc'[u] = hajjPc[u]
  BY <1>1, OthersStay, CustomerFields
<1>3. hajjPayment[x] # NoPayment /\ hajjPayment[x].status = "PENDING" /\ ~Paid(x)
  BY <1>0, <1>1 DEF RecordsInv, Recording, Paid, NoPayment
<1>4. \A k \in PaymentKeys \ {x} : hajjPayment'[k] = hajjPayment[k]
  BY <1>1 DEF HajjTypeOK
<1>5. hajjPayment[x] \in PaymentRow
  BY <1>3 DEF HajjTypeOK, PaymentRow
<1>6. /\ hajjPayment'[x].booking = hajjPayment[x].booking
      /\ hajjPayment'[x].amount = hajjPayment[x].amount
      /\ hajjPayment'[x].status = IF hajjPc[t] = "recordPaid" THEN "PAID" ELSE "FAILED"
  BY <1>1, <1>5 DEF HajjTypeOK, PaymentRow
<1>7. \A k \in PaymentKeys : /\ hajjPayment'[k].booking = hajjPayment[k].booking
                             /\ hajjPayment'[k].amount = hajjPayment[k].amount
  BY <1>4, <1>6
<1>8. \A k \in PaymentKeys : k # x => (Paid(k)' <=> Paid(k))
  BY <1>4 DEF Paid
<1>9. Paid(x)' <=> hajjPc[t] = "recordPaid"
  BY <1>6 DEF Paid
<1>10. \A u \in Customers :
        /\ Recording(u)' => u # t /\ Recording(u)
        /\ hajjPc'[u] = "recordPaid" <=> u # t /\ hajjPc[u] = "recordPaid"
        /\ hajjPc'[u] = "writeAccount" <=> hajjPc[u] = "writeAccount"
        /\ hajjPc[u] = "recordPaid" => Recording(u)
        /\ PaymentMade(u)' => PaymentMade(u)
        /\ Paying(u)' => Paying(u)
        /\ Applying(u)' => u = t \/ Applying(u)
        /\ BeforeCharge(u)' => BeforeCharge(u)
  BY <1>1, <1>2 DEF Recording, PaymentMade, Paying, Applying, BeforeCharge
<1>11. Recording(t) /\ Paying(t)
  BY <1>1 DEF Recording, Paying
<1>12. \A u \in Customers : u # t /\ Recording(u) => PaymentKey(u) \in PaymentKeys \ {x}
  BY <1>0, <1>1, <1>11, CustomerFields DEF RecordsInv
<1>13. RecordsInv'
  <2>1. ASSUME NEW u \in Customers, NEW v \in Customers, Recording(u)', Recording(v)',
               PaymentKey(u) = PaymentKey(v)
        PROVE  u = v
    BY <1>10, <2>1 DEF RecordsInv
  <2>2. ASSUME NEW u \in Customers, Recording(u)'
        PROVE  /\ hajjPayment'[PaymentKey(u)].status = "PENDING"
               /\ hajjPayment'[PaymentKey(u)].booking = ask[u].booking
               /\ u \in Payers => hajjPayment'[PaymentKey(u)].amount = ask[u].amount
    BY <1>4, <1>10, <1>12, <2>2 DEF RecordsInv
  <2>3. ASSUME NEW u \in Customers, hajjPc'[u] = "recordPaid" PROVE hajjCharges'[PaymentKey(u)] = 1
    BY <1>1, <1>10, <2>3 DEF RecordsInv
  <2>4. ASSUME NEW u \in Customers, hajjPc'[u] = "writeAccount" PROVE Paid(PaymentKey(u))'
    <3>1. Paid(PaymentKey(u)) /\ PaymentKey(u) \in PaymentKeys
      BY <1>10, <2>4, CustomerFields DEF RecordsInv
    <3>2. PaymentKey(u) # x /\ PaymentKey(u)' = PaymentKey(u)
      BY <1>1, <1>3, <3>1, AskFixed
    <3>3. hajjPayment'[PaymentKey(u)] = hajjPayment[PaymentKey(u)]
      BY <1>4, <3>1, <3>2
    <3> QED BY <3>1, <3>2, <3>3 DEF Paid
  <2> QED BY <1>1, <2>1, <2>2, <2>3, <2>4, AskFixed DEF RecordsInv, Paid
<1>14. ChargesRecorded'
  <2>1. ASSUME NEW k \in PaymentKeys
        PROVE  /\ Paid(k)' => hajjCharges'[k] = 1
               /\ ~hajjCrashed' /\ hajjCharges'[k] > 0
                    => Paid(k)' \/ \E u \in Customers : hajjPc'[u] = "recordPaid" /\ PaymentKey(u) = k
    <3>1. CASE k = x
      <4>1. Paid(k)' => hajjCharges'[k] = 1
        BY <1>0, <1>1, <1>9, <3>1 DEF RecordsInv
      <4>2. ASSUME ~hajjCrashed', hajjCharges'[k] > 0 PROVE Paid(k)'
        <5>1. PICK u \in Customers : hajjPc[u] = "recordPaid" /\ PaymentKey(u) = x
          BY <1>1, <1>3, <3>1, <4>2 DEF ChargesRecorded
        <5>2. u = t
          BY <1>10, <1>12, <5>1
        <5> QED BY <1>9, <3>1, <5>1, <5>2
      <4> QED BY <4>1, <4>2
    <3>2. CASE k # x
      <4>1. Paid(k)' => hajjCharges'[k] = 1
        BY <1>1, <1>8, <3>2 DEF ChargesRecorded
      <4>2. ASSUME ~hajjCrashed', hajjCharges'[k] > 0, ~Paid(k)'
            PROVE  \E u \in Customers : hajjPc'[u] = "recordPaid" /\ PaymentKey(u) = k
        <5>1. PICK u \in Customers : hajjPc[u] = "recordPaid" /\ PaymentKey(u) = k
          BY <1>1, <1>8, <3>2, <4>2 DEF ChargesRecorded
        <5>2. u # t
          BY <1>0, <3>2, <5>1
        <5> QED BY <1>10, <5>1, <5>2
      <4> QED BY <4>1, <4>2
    <3> QED BY <3>1, <3>2
  <2> QED BY <1>1, <2>1, AskFixed DEF ChargesRecorded
<1>15. RowsInv'
  BY <1>1, <1>3, <1>4, <1>7 DEF RowsInv
<1>16. OneOwner'
  BY <1>1, <1>7, <1>10, OwnerKept
<1>17. \A b \in Pilgrimages : \A k \in PaymentKeys :
         Counts(b, k) => Counts(b, k)' /\ hajjPayment'[k].amount = hajjPayment[k].amount
  <2>1. \A k : k # x => (Pending(k)' => Pending(k))
    BY <1>0, <1>1, <1>10, AskFixed DEF Pending
  <2> QED BY <1>3, <1>7, <1>8, <2>1 DEF Counts, PaymentsOf
<1>18. NothingInvented'
  BY <1>1, <1>10, <1>17, InventedKept
<1>19. OnePayer'
  BY <1>1, <1>10, PayerKept
<1>20. \A b : ChargedFor(b)' = ChargedFor(b)
  BY <1>1, <1>7, ChargedForSame
<1>21. ASSUME NEW u \in Customers
       PROVE  /\ Unapplied(u) => Unapplied(u)'
              /\ Unapplied(u)' => Paying(u)
              /\ hajjPayment'[PaymentKey(u)].amount = hajjPayment[PaymentKey(u)].amount
  <2>1. PaymentKey(u)' = PaymentKey(u) /\ PaymentKey(u) \in PaymentKeys
    BY <1>1, AskFixed, CustomerFields
  <2>2. Paid(PaymentKey(u)) => PaymentKey(u) # x
    BY <1>3
  <2>3. Paid(PaymentKey(u)) => Paid(PaymentKey(u))'
    BY <1>4, <2>1, <2>2 DEF Paid
  <2>4. CASE u # t
    <3>1. hajjPc'[u] = hajjPc[u]
      BY <1>2, <2>4
    <3>2. Unapplied(u) => Unapplied(u)'
      BY <2>3, <3>1 DEF Unapplied
    <3>3. Unapplied(u)' => Paying(u)
      BY <3>1 DEF Unapplied, Paying
    <3> QED BY <1>7, <2>1, <3>2, <3>3
  <2>5. CASE u = t
    <3>1. hajjPc[t] = "recordPaid" => Paid(PaymentKey(t))'
      BY <1>0, <1>6, <2>1, <2>5 DEF Paid
    <3> QED BY <1>1, <1>2, <1>7, <1>11, <2>1, <2>5, <3>1 DEF Unapplied
  <2> QED BY <1>7, <2>1, <2>4, <2>5
<1>22. NothingLost'
  BY <1>1, <1>10, <1>20, <1>21, LostKept
<1>23. WithinRemaining'
  BY <1>1, <1>10, RemainingKept
<1>24. NeverChargedBeyondTotal'
  <2>1. \A b : PaymentsOf(b)' = PaymentsOf(b)
    BY <1>7 DEF PaymentsOf
  <2>2. \A b : \A k \in PaymentsOf(b) : hajjPayment'[k].amount = hajjPayment[k].amount
    BY <1>7 DEF PaymentsOf
  <2> QED BY <1>1, <1>20, <2>1, <2>2, TotalKept
<1> QED BY <1>13, <1>14, <1>15, <1>16, <1>18, <1>19, <1>22, <1>23, <1>24

\* A PAID payment's booking is read.
LEMMA ReadKeeps ==
  ASSUME Before, NEW t \in HajjThreads, ReadAccount(t), Paid(PaymentKey(t))
  PROVE  AccountsInv'
<1> USE DEF Before, AccountsInv, HajjTypeInv
<1>1. /\ hajjPc[t] = "readAccount" /\ t \in Customers
      /\ hajjPc' = [hajjPc EXCEPT ![t] = "writeAccount"]
      /\ hajjRead' = [hajjRead EXCEPT ![t] = pilgrimage[ask[t].booking].amountPaid]
      /\ UNCHANGED <<ask, pilgrimage, hajjPayment, hajjCharges, accountOverlap, replayed, hajjCrashed>>
  BY DEF ReadAccount, HajjGoto, package, hajjFlags, PlacesInv, Paying, Paid
<1>2. /\ hajjPc'[t] = "writeAccount" /\ \A u \in Customers \ {t} : hajjPc'[u] = hajjPc[u]
      /\ hajjRead'[t] = pilgrimage[ask[t].booking].amountPaid
      /\ \A u \in Customers \ {t} : hajjRead'[u] = hajjRead[u]
  BY <1>1, OthersStay, CustomerFields DEF HajjTypeOK
<1>3. \A u \in Customers :
        /\ Recording(u)' => hajjPc'[u] = hajjPc[u]
        /\ hajjPc[u] = "recordPaid" => hajjPc'[u] = hajjPc[u]
        /\ hajjPc'[u] = "writeAccount" =>
             \/ hajjPc[u] = "writeAccount" /\ hajjRead'[u] = hajjRead[u]
             \/ u = t /\ hajjRead'[u] = pilgrimage[ask[u].booking].amountPaid
        /\ PaymentMade(u)' => PaymentMade(u)
        /\ Paying(u)' => Paying(u)
        /\ Applying(u)' => Applying(u)
        /\ BeforeCharge(u)' => BeforeCharge(u)
        /\ Unapplied(u) => Unapplied(u)'
        /\ Unapplied(u)' => Paying(u)
  BY <1>1, <1>2, AskFixed DEF Recording, PaymentMade, Paying, Applying, BeforeCharge, Unapplied, Paid
<1>4. RecordsInv'
  BY <1>1, <1>3, RecordsKept DEF RecordsInv
<1>5. ChargesRecorded'
  BY <1>1, <1>3, ChargesKept DEF ChargesRecorded
<1>6. RowsInv'
  BY <1>1, RowsKept
<1>7. OneOwner'
  BY <1>1, <1>3, OwnerKept
<1>8. \A b \in Pilgrimages : \A k \in PaymentKeys : Counts(b, k) => Counts(b, k)'
  <2>1. \A k : Pending(k)' => Pending(k)
    BY <1>1, <1>3, AskFixed DEF Pending
  <2> QED BY <1>1, <2>1 DEF Counts, PaymentsOf, Paid
<1>9. NothingInvented'
  BY <1>1, <1>3, <1>8, InventedKept
<1>10. OnePayer'
  BY <1>1, <1>3, PayerKept
<1>11. NothingLost'
  BY <1>1, <1>3, NoCharge, LostKept
<1>12. WithinRemaining'
  BY <1>1, <1>3, RemainingKept
<1>13. NeverChargedBeyondTotal'
  BY <1>1, NoCharge, TotalKept
<1> QED BY <1>4, <1>5, <1>6, <1>7, <1>9, <1>10, <1>11, <1>12, <1>13

\* A request ends before it pays, has nothing to apply, or dies.
LEMMA EndKeeps ==
  ASSUME Before, NEW t \in HajjThreads, HajjEnd(t),
         UNCHANGED <<ask, pilgrimage, hajjPayment, hajjCharges, accountOverlap, replayed>>,
         hajjCrashed' = TRUE \/ (hajjCrashed' = hajjCrashed /\ ~Unapplied(t))
  PROVE  AccountsInv'
<1> USE DEF Before, AccountsInv, HajjTypeInv
<1>1. /\ hajjPc' = [hajjPc EXCEPT ![t] = "done"]
      /\ hajjRead' = [hajjRead EXCEPT ![t] = 0]
  BY DEF HajjEnd, HajjGoto
<1>2. /\ hajjPc'[t] = "done" /\ \A u \in Customers \ {t} : hajjPc'[u] = hajjPc[u]
      /\ \A u \in Customers \ {t} : hajjRead'[u] = hajjRead[u]
  BY <1>1, OthersStay, CustomerFields DEF HajjTypeOK
<1>3. \A u \in Customers :
        /\ Recording(u)' => hajjPc'[u] = hajjPc[u]
        /\ hajjPc'[u] = "writeAccount" => hajjPc[u] = "writeAccount" /\ hajjRead'[u] = hajjRead[u]
        /\ PaymentMade(u)' => PaymentMade(u)
        /\ Paying(u)' => Paying(u)
        /\ Applying(u)' => Applying(u)
        /\ BeforeCharge(u)' => BeforeCharge(u)
        /\ u # t => (Unapplied(u) <=> Unapplied(u)')
        /\ u = t => ~Unapplied(u)'
  BY <1>2, AskFixed DEF Recording, PaymentMade, Paying, Applying, BeforeCharge, Unapplied, Paid
<1>4. hajjCrashed' \/ /\ ~hajjCrashed
                      /\ \A u \in Customers : hajjPc[u] = "recordPaid" => hajjPc'[u] = hajjPc[u]
  BY <1>2 DEF Unapplied, HajjTypeOK
<1>5. ~hajjCrashed' => ~hajjCrashed /\ ~Unapplied(t)
  BY DEF HajjTypeOK
<1>6. RecordsInv'
  BY <1>3, RecordsKept DEF RecordsInv
<1>7. ChargesRecorded'
  BY <1>4, ChargesKept DEF ChargesRecorded
<1>8. RowsInv'
  BY RowsKept
<1>9. OneOwner'
  BY <1>3, OwnerKept
<1>10. \A b \in Pilgrimages : \A k \in PaymentKeys : Counts(b, k) => Counts(b, k)'
  <2>1. \A k : Pending(k)' => Pending(k)
    BY <1>3, AskFixed DEF Pending
  <2> QED BY <2>1 DEF Counts, PaymentsOf, Paid
<1>11. NothingInvented'
  BY <1>3, <1>10, InventedKept
<1>12. OnePayer'
  BY <1>3, PayerKept
<1>13. NothingLost'
  BY <1>3, <1>5, NoCharge, LostKept, UnappliedPays
<1>14. WithinRemaining'
  BY <1>3, RemainingKept
<1>15. NeverChargedBeyondTotal'
  BY <1>5, NoCharge, TotalKept
<1> QED BY <1>6, <1>7, <1>8, <1>9, <1>11, <1>12, <1>13, <1>14, <1>15

\* FULLY_PAID is computed of an account that has reached its total.
LEMMA FullyPaidReached ==
  ASSUME NEW paid \in Nat, NEW minimum, NEW total \in Nat,
         ComputeStatus(paid, minimum, total) = "FULLY_PAID"
  PROVE  paid >= total
BY DEF ComputeStatus

\* The payment is added to the booking.
LEMMA WriteKeeps ==
  ASSUME Before, NEW t \in HajjThreads, WriteAccount(t)
  PROVE  AccountsInv'
<1> USE DEF Before, AccountsInv, HajjTypeInv
<1>a. t \in Customers /\ hajjPc[t] = "writeAccount" /\ pilgrimage[ask[t].booking] # NoBookingRow
  BY DEF WriteAccount, PlacesInv, Paying
<1>0. PICK x \in PaymentKeys, b \in Pilgrimages : x = PaymentKey(t) /\ b = ask[t].booking
  BY <1>a, CustomerFields
<1> DEFINE paid == hajjRead[t] + hajjPayment[x].amount
           result == ComputeStatus(paid, pilgrimage[b].minimum, pilgrimage[b].total)
<1>1. /\ pilgrimage' = [pilgrimage EXCEPT ![b].amountPaid = paid, ![b].status = result]
      /\ HajjEnd(t)
      /\ UNCHANGED <<ask, hajjPayment, hajjCharges, accountOverlap, replayed, hajjCrashed>>
  BY <1>0 DEF WriteAccount, package, hajjFlags
<1>2. /\ hajjPc'[t] = "done" /\ \A u \in Customers \ {t} : hajjPc'[u] = hajjPc[u]
      /\ \A u \in Customers \ {t} : hajjRead'[u] = hajjRead[u]
  BY <1>1, OthersStay, CustomerFields DEF HajjTypeOK, HajjEnd, HajjGoto
<1>3. Paid(x) /\ hajjPayment[x].amount \in Nat /\ hajjRead[t] \in Nat /\ paid \in Nat
  BY <1>0, <1>a, Numbers DEF RecordsInv, HajjTypeOK
<1>4. pilgrimage[b] \in PilgrimageRow
  BY <1>0, <1>a DEF HajjTypeOK, PilgrimageRow
<1>5. result = "FULLY_PAID" => paid >= pilgrimage[b].total
  BY <1>3, <1>4, FullyPaidReached DEF PilgrimageRow
<1> HIDE DEF result
<1>6. /\ pilgrimage'[b].amountPaid = paid
      /\ pilgrimage'[b].status = result
      /\ pilgrimage'[b].total = pilgrimage[b].total
      /\ \A c \in Pilgrimages \ {b} : pilgrimage'[c] = pilgrimage[c]
  BY <1>1, <1>4 DEF HajjTypeOK, PilgrimageRow
<1>7. pilgrimage'[b] # NoBookingRow
  <2>1. pilgrimage'[b].status = pilgrimage'[b].status /\ result \in PilgrimageStatuses
    BY StatusComputed DEF result
  <2> QED BY <1>6, <2>1 DEF PilgrimageStatuses, NoBookingRow
<1>8. paid = hajjRead[t] + hajjPayment[x].amount
  OBVIOUS
<1> HIDE DEF paid
<1>9. \A c \in Pilgrimages : pilgrimage'[c].total = pilgrimage[c].total
  BY <1>6
<1>10. \A u \in Customers :
        /\ Recording(u)' => hajjPc'[u] = hajjPc[u]
        /\ hajjPc[u] = "recordPaid" => hajjPc'[u] = hajjPc[u]
        /\ hajjPc'[u] = "writeAccount"
             => u # t /\ hajjPc[u] = "writeAccount" /\ hajjRead'[u] = hajjRead[u]
        /\ PaymentMade(u)' => PaymentMade(u)
        /\ Paying(u)' => Paying(u)
        /\ u # t => (Applying(u)' <=> Applying(u))
        /\ ~Applying(t)'
        /\ BeforeCharge(u)' => u # t /\ BeforeCharge(u)
        /\ u # t => (Unapplied(u) <=> Unapplied(u)')
        /\ ~Unapplied(t)'
  BY <1>a, <1>1, <1>2, AskFixed
     DEF Recording, PaymentMade, Paying, Applying, BeforeCharge, Unapplied, Paid
<1>11. Unapplied(t) /\ Paying(t) /\ PaymentMade(t) /\ Applying(t)
  BY <1>a DEF Unapplied, Paying, PaymentMade, Applying
<1>12. ~accountOverlap => \A u \in Customers \ {t} : Paying(u) => ask[u].booking # b
  BY <1>0, <1>a, <1>11 DEF OnePayer
<1>13. RecordsInv'
  BY <1>1, <1>10, RecordsKept DEF RecordsInv
<1>14. ChargesRecorded'
  BY <1>1, <1>10, ChargesKept DEF ChargesRecorded, HajjTypeOK
<1>15. RowsInv'
  <2>1. \A k \in PaymentKeys : hajjPayment[k] # NoPayment => hajjPayment[k].booking \in Pilgrimages
    BY DEF HajjTypeOK
  <2>2. \A k \in PaymentKeys :
          hajjPayment[k] # NoPayment => pilgrimage'[hajjPayment[k].booking] # NoBookingRow
    BY <1>6, <1>7, <2>1 DEF RowsInv
  <2>3. \A c \in Pilgrimages :
          pilgrimage'[c].status = "FULLY_PAID" => pilgrimage'[c].amountPaid >= pilgrimage'[c].total
    BY <1>5, <1>6 DEF RowsInv
  <2> QED BY <1>1, <2>2, <2>3 DEF RowsInv
<1>16. OneOwner'
  BY <1>1, <1>10, OwnerKept
<1>17. NothingInvented'
  <2> SUFFICES ASSUME ~replayed' PROVE NothingInvented'
    BY DEF NothingInvented
  <2>1. ~replayed
    BY <1>1
  <2>2. /\ hajjPayment[x].booking = b
        /\ \A u \in Customers \ {t} : PaymentMade(u) => PaymentKey(u) # x
    BY <1>0, <1>a, <1>11, <2>1 DEF OneOwner
  <2>3. \A u : Applying(u) => PaymentMade(u)
    BY DEF Applying, PaymentMade
  <2>4. Pending(x) /\ ~Pending(x)'
    BY <1>0, <1>1, <1>a, <1>10, <1>11, <2>2, <2>3, AskFixed DEF Pending
  <2>5. \A k : k # x => (Pending(k)' <=> Pending(k))
    BY <1>0, <1>1, <1>10, AskFixed DEF Pending
  <2>6. \A c : \A k \in PaymentKeys \ {x} : Counts(c, k) <=> Counts(c, k)'
    BY <1>1, <2>5 DEF Counts, PaymentsOf, Paid
  <2>7. /\ \A c : ~Counts(c, x)
        /\ Counts(b, x)'
    BY <1>1, <1>3, <2>2, <2>4 DEF Counts, PaymentsOf, Paid
  <2>8. Counted(b)' = Counted(b) + hajjPayment[x].amount
    BY <1>1, <2>6, <2>7, CountedOneMore
  <2>9. \A c : Counted(c) <= Counted(c)' /\ Counted(c) \in Nat /\ Counted(c)' \in Nat
    BY <1>1, <2>6, <2>7, CountedGrows, CountedNext DEF CountedNumbers
  <2>10. hajjRead[t] <= Counted(b)
    BY <1>0, <1>a, <2>1 DEF NothingInvented
  <2>11. ASSUME NEW c \in Pilgrimages PROVE pilgrimage'[c].amountPaid <= Counted(c)'
    <3>1. CASE c = b
      BY <1>3, <1>6, <1>8, <2>8, <2>9, <2>10, <3>1
    <3>2. CASE c # b
      <4>1. pilgrimage[c].amountPaid <= Counted(c) /\ pilgrimage[c].amountPaid \in Nat
        BY <2>1, Numbers DEF NothingInvented
      <4> QED BY <1>6, <2>9, <3>2, <4>1
    <3> QED BY <3>1, <3>2
  <2>12. ASSUME NEW u \in Customers, hajjPc'[u] = "writeAccount"
         PROVE  hajjRead'[u] <= Counted(ask[u].booking)'
    <3>1. PICK c : c = ask[u].booking
      OBVIOUS
    <3>2. hajjRead'[u] = hajjRead[u] /\ hajjRead[u] <= Counted(c) /\ hajjRead[u] \in Nat
      BY <1>10, <2>1, <2>12, <3>1, CustomerFields DEF NothingInvented, HajjTypeOK
    <3>3. hajjRead'[u] <= Counted(c)'
      BY <2>9, <3>2
    <3>4. c = ask'[u].booking
      BY <1>1, <3>1
    <3> QED BY <3>1, <3>3, <3>4
  <2> QED BY <1>1, <2>11, <2>12, AskFixed DEF NothingInvented
<1>18. OnePayer'
  BY <1>1, <1>10, PayerKept
<1>19. \A c : ChargedFor(c)' = ChargedFor(c) /\ ChargedFor(c) \in Nat
  BY <1>1, NoCharge, ChargedNext DEF ChargedNumbers
<1>20. NothingLost'
  <2> SUFFICES ASSUME ~accountOverlap', ~hajjCrashed' PROVE NothingLost'
    BY DEF NothingLost
  <2>1. ~accountOverlap /\ ~hajjCrashed
    BY <1>1
  <2>2. ChargedFor(b) <= pilgrimage[b].amountPaid + hajjPayment[x].amount
    BY <1>0, <1>a, <1>11, <2>1 DEF NothingLost
  <2>3. hajjRead[t] = pilgrimage[b].amountPaid
    BY <1>0, <1>a, <2>1 DEF NothingLost
  <2>4. ChargedFor(b) <= paid
    BY <1>8, <2>2, <2>3
  <2>5. ASSUME NEW c \in Pilgrimages, \A u \in Customers : Unapplied(u)' => ask[u].booking # c
        PROVE  ChargedFor(c)' <= pilgrimage'[c].amountPaid
    <3>1. CASE c = b
      BY <1>6, <1>19, <2>4, <3>1
    <3>2. CASE c # b
      <4>1. \A u \in Customers : Unapplied(u) => ask[u].booking # c
        BY <1>0, <1>10, <2>5, <3>2
      <4> QED BY <1>6, <1>19, <2>1, <3>2, <4>1 DEF NothingLost
    <3> QED BY <3>1, <3>2
  <2>6. ASSUME NEW u \in Customers, Unapplied(u)' \/ hajjPc'[u] = "writeAccount"
        PROVE  u # t /\ ask[u].booking \in Pilgrimages \ {b}
    BY <1>10, <1>12, <2>1, <2>6, CustomerFields, UnappliedPays DEF Paying
  <2>7. ASSUME NEW u \in Customers, Unapplied(u)'
        PROVE  ChargedFor(ask[u].booking)'
                 <= pilgrimage'[ask[u].booking].amountPaid + hajjPayment[PaymentKey(u)].amount
    <3>1. PICK c \in Pilgrimages \ {b} : c = ask[u].booking /\ c = ask'[u].booking
      BY <1>1, <2>6, <2>7
    <3>2. ChargedFor(c) <= pilgrimage[c].amountPaid + hajjPayment[PaymentKey(u)].amount
      BY <1>10, <2>1, <2>6, <2>7, <3>1 DEF NothingLost
    <3> QED BY <1>6, <1>19, <3>1, <3>2
  <2>8. ASSUME NEW u \in Customers, hajjPc'[u] = "writeAccount"
        PROVE  hajjRead'[u] = pilgrimage'[ask[u].booking].amountPaid
    BY <1>6, <1>10, <2>1, <2>6, <2>8 DEF NothingLost
  <2> QED BY <1>1, <2>5, <2>7, <2>8, AskFixed DEF NothingLost
<1>21. WithinRemaining'
  <2>1. ASSUME ~accountOverlap', NEW u \in Customers, BeforeCharge(u)'
        PROVE  /\ BeforeCharge(u)
               /\ pilgrimage'[ask[u].booking] = pilgrimage[ask[u].booking]
    BY <1>1, <1>6, <1>10, <1>12, <2>1, CustomerFields, UnappliedPays
  <2> QED BY <1>1, <2>1, RemainingKept
<1>22. NeverChargedBeyondTotal'
  BY <1>1, <1>9, NoCharge, TotalKept
<1> QED BY <1>13, <1>14, <1>15, <1>16, <1>17, <1>18, <1>20, <1>21, <1>22
-----------------------------------------------------------------------------
LEMMA AccountsInit == HajjInit => AccountsInv
<1> SUFFICES ASSUME HajjInit PROVE AccountsInv
  OBVIOUS
<1>1. HajjTypeOK /\ ChargesInv
  <2>1. HajjTypeOK
    BY HajjInitTyped DEF HajjTypeInv
  <2>2. ChargesInv
    BY DEF HajjInit, ChargesInv, AboutToCharge, EachKeyChargedOnce, Customers, Bookers, Payers
  <2> QED BY <2>1, <2>2
<1>2. \A t \in Customers : hajjPc[t] = "start"
  BY CustomerFields, <1>1 DEF HajjInit
<1>3. \A k \in PaymentKeys : hajjPayment[k] = NoPayment /\ hajjCharges[k] = 0 /\ ~Paid(k)
  BY DEF HajjInit, Paid, NoPayment
<1>4. \A b \in Pilgrimages : pilgrimage[b] = NoBookingRow
  BY DEF HajjInit
<1>5. \A b \in Pilgrimages : pilgrimage[b].amountPaid = 0 /\ pilgrimage[b].status # "FULLY_PAID"
                              /\ pilgrimage[b].total = 0
  BY <1>4 DEF NoBookingRow
<1>6. \A t \in Customers : /\ ~Recording(t) /\ ~PaymentMade(t) /\ ~Paying(t) /\ ~Unapplied(t)
                           /\ ~BeforeCharge(t)
  BY <1>2 DEF Recording, PaymentMade, Paying, Unapplied, BeforeCharge
<1>7. ASSUME NEW b PROVE ChargedFor(b) = 0 /\ Counted(b) \in Nat
  <2>1. \A k \in PaymentKeys : ChargedAmounts(b)[k] = 0
    BY <1>1, <1>3, ChargedNext DEF ChargedNumbers
  <2> QED BY <1>1, <2>1, TotalZero, ChargedNext, CountedNext DEF ChargedNumbers, CountedNumbers
<1>8. RecordsInv
  BY <1>2, <1>6 DEF RecordsInv
<1>9. ChargesRecorded
  BY <1>3 DEF ChargesRecorded
<1>10. RowsInv
  BY <1>3, <1>5 DEF RowsInv
<1>11. OneOwner
  BY <1>6 DEF OneOwner
<1>12. NothingInvented
  <2>1. \A b \in Pilgrimages : pilgrimage[b].amountPaid <= Counted(b)
    BY <1>5, <1>7
  <2> QED BY <1>2, <2>1 DEF NothingInvented
<1>13. OnePayer
  BY <1>6 DEF OnePayer
<1>14. NothingLost
  BY <1>2, <1>5, <1>6, <1>7 DEF NothingLost
<1>15. WithinRemaining
  BY <1>6 DEF WithinRemaining
<1>16. NeverChargedBeyondTotal
  BY <1>5, <1>7 DEF NeverChargedBeyondTotal
<1> QED BY <1>8, <1>9, <1>10, <1>11, <1>12, <1>13, <1>14, <1>15, <1>16 DEF AccountsInv

LEMMA AccountsStep ==
  ASSUME Before, [HajjNext]_hajjVars
  PROVE  AccountsInv'
<1> USE DEF Before, HajjTypeInv
<1>1. CASE UNCHANGED hajjVars
  BY <1>1, AsideKeeps DEF hajjVars, package, hajjFlags
<1>2. ASSUME NEW t \in HajjThreads, NEW next \in HajjSteps,
             ~Paying(t), hajjPc' = [hajjPc EXCEPT ![t] = next],
             next \in {"start", "readPackage", "reserve", "resize", "done"},
             \A u \in HajjThreads \ {t} : hajjRead'[u] = hajjRead[u],
             UNCHANGED <<ask, pilgrimage, hajjPayment, hajjCharges, accountOverlap, replayed>>,
             hajjCrashed' = hajjCrashed
      PROVE  AccountsInv'
  <2>1. hajjPc'[t] = next /\ \A u \in HajjThreads \ {t} : hajjPc'[u] = hajjPc[u]
    BY <1>2, OthersStay
  <2>2. \A u \in HajjThreads : Paying(u) \/ Paying(u)' =>
          hajjPc'[u] = hajjPc[u] /\ hajjRead'[u] = hajjRead[u]
    BY <1>2, <2>1 DEF Paying
  <2> QED BY <1>2, <2>2, AsideKeeps
<1>3. ASSUME NEW t \in HajjThreads, NEW r, hajjRead' = [hajjRead EXCEPT ![t] = r]
      PROVE  \A u \in HajjThreads \ {t} : hajjRead'[u] = hajjRead[u]
  BY <1>3 DEF HajjTypeOK
<1>4. ASSUME NEW t \in HajjThreads, HajjLookUp(t) PROVE AccountsInv'
  <2>1. PICK next \in {"readPackage", "done"} : hajjPc' = [hajjPc EXCEPT ![t] = next]
    BY <1>4 DEF HajjLookUp, HajjGoto
  <2>2. /\ hajjPc[t] = "start"
        /\ UNCHANGED <<ask, pilgrimage, hajjPayment, hajjCharges, hajjRead, accountOverlap, replayed,
                       hajjCrashed>>
    BY <1>4 DEF HajjLookUp, package, hajjFlags
  <2>3. ~Paying(t)
    BY <2>2 DEF Paying
  <2> QED BY <1>2, <2>1, <2>2, <2>3 DEF HajjSteps
<1>5. ASSUME NEW t \in HajjThreads, ReadPackage(t) PROVE AccountsInv'
  <2>1. /\ hajjPc[t] = "readPackage"
        /\ hajjPc' = [hajjPc EXCEPT ![t] = "reserve"]
        /\ hajjRead' = [hajjRead EXCEPT ![t] = price]
        /\ UNCHANGED <<ask, pilgrimage, hajjPayment, hajjCharges, accountOverlap, replayed,
                       hajjCrashed>>
    BY <1>5 DEF ReadPackage, HajjGoto, package
  <2>2. ~Paying(t)
    BY <2>1 DEF Paying
  <2> QED BY <1>2, <1>3, <2>1, <2>2 DEF HajjSteps
<1>6. ASSUME NEW t \in HajjThreads,
             RefuseBooking(t) \/ ReserveConflict(t) \/ Resize(t) \/ Reprice(t)
      PROVE  AccountsInv'
  <2>1. /\ hajjPc[t] \in {"start", "readPackage", "reserve", "resize"}
        /\ hajjPc' = [hajjPc EXCEPT ![t] = "done"]
        /\ hajjRead' = [hajjRead EXCEPT ![t] = 0]
        /\ UNCHANGED <<ask, pilgrimage, hajjPayment, hajjCharges, accountOverlap, replayed,
                       hajjCrashed>>
    BY <1>6 DEF RefuseBooking, ReserveConflict, Resize, Reprice, HajjEnd, HajjGoto, package,
                hajjFlags
  <2>2. ~Paying(t)
    BY <2>1 DEF Paying
  <2> QED BY <1>2, <1>3, <2>1, <2>2 DEF HajjSteps
<1>7. ASSUME NEW t \in HajjThreads, ReadForResize(t) PROVE AccountsInv'
  <2>1. PICK next \in {"resize", "done"} : hajjPc' = [hajjPc EXCEPT ![t] = next]
    BY <1>7 DEF ReadForResize, HajjGoto
  <2>2. /\ hajjPc[t] = "start"
        /\ UNCHANGED <<ask, pilgrimage, hajjPayment, hajjCharges, hajjRead, accountOverlap, replayed,
                       hajjCrashed>>
    BY <1>7 DEF ReadForResize, package
  <2>3. ~Paying(t)
    BY <2>2 DEF Paying
  <2> QED BY <1>2, <2>1, <2>2, <2>3 DEF HajjSteps
<1>8. ASSUME NEW t \in HajjThreads, LoadForPayment(t) PROVE AccountsInv'
  <2>1. CASE /\ pilgrimage[ask[t].booking].status # "FULLY_PAID"
             /\ ask[t].amount <= Remaining(ask[t].booking)
    BY <1>8, <2>1, LoadKeeps
  <2>2. CASE ~ /\ pilgrimage[ask[t].booking].status # "FULLY_PAID"
               /\ ask[t].amount <= Remaining(ask[t].booking)
    <3>1. /\ hajjPc[t] = "start"
          /\ hajjPc' = [hajjPc EXCEPT ![t] = "done"]
          /\ UNCHANGED <<ask, pilgrimage, hajjPayment, hajjCharges, hajjRead, accountOverlap,
                         replayed, hajjCrashed>>
      BY <1>8, <2>2 DEF LoadForPayment, HajjGoto, package
    <3>2. ~Paying(t)
      BY <3>1 DEF Paying
    <3> QED BY <1>2, <3>1, <3>2 DEF HajjSteps
  <2> QED BY <2>1, <2>2
<1>9. ASSUME NEW t \in HajjThreads, PaymentConflict(t) PROVE AccountsInv'
  <2>1. /\ hajjPc[t] = "insertPayment" /\ HajjEnd(t)
        /\ UNCHANGED <<ask, pilgrimage, hajjPayment, hajjCharges, accountOverlap, replayed>>
        /\ hajjCrashed' = hajjCrashed
    BY <1>9 DEF PaymentConflict, package, hajjFlags
  <2>2. ~Unapplied(t)
    BY <2>1 DEF Unapplied
  <2> QED BY <2>1, <2>2, EndKeeps
<1>10. ASSUME NEW t \in HajjThreads, HajjCrash(t) PROVE AccountsInv'
  <2>1. /\ HajjEnd(t) /\ hajjCrashed' = TRUE
        /\ UNCHANGED <<ask, pilgrimage, hajjPayment, hajjCharges, accountOverlap, replayed>>
    BY <1>10 DEF HajjCrash, package
  <2> QED BY <2>1, EndKeeps
<1>11. ASSUME NEW t \in HajjThreads, ReadAccount(t) PROVE AccountsInv'
  <2>1. CASE Paid(PaymentKey(t))
    BY <1>11, <2>1, ReadKeeps
  <2>2. CASE ~Paid(PaymentKey(t))
    <3>1. /\ hajjPc[t] = "readAccount" /\ HajjEnd(t)
          /\ UNCHANGED <<ask, pilgrimage, hajjPayment, hajjCharges, accountOverlap, replayed>>
          /\ hajjCrashed' = hajjCrashed
      BY <1>11, <2>2 DEF ReadAccount, package, hajjFlags, Paid
    <3>2. ~Unapplied(t)
      BY <2>2, <3>1 DEF Unapplied
    <3> QED BY <3>1, <3>2, EndKeeps
  <2> QED BY <2>1, <2>2
<1>12. CASE HajjNext
  <2>1. PICK t \in HajjThreads : HajjStep(t) \/ HajjCrash(t)
    BY <1>12 DEF HajjNext
  <2> QED
    BY <1>4, <1>5, <1>6, <1>7, <1>8, <1>9, <1>10, <1>11, <2>1, ReserveKeeps, FindKeeps, InsertKeeps,
       ChargeKeeps, RecordKeeps, WriteKeeps DEF HajjStep
<1> QED BY <1>1, <1>12

LEMMA AlwaysChargesInv == HajjSpec => []ChargesInv
<1>1. HajjInit => ChargesInv
  BY DEF HajjInit, ChargesInv, AboutToCharge, EachKeyChargedOnce, Customers, Bookers, Payers
<1> QED BY <1>1, ChargesStep, AlwaysHajjTyped, PTL DEF HajjSpec

LEMMA AlwaysAccountsInv == HajjSpec => [](HajjTypeInv /\ ChargesInv /\ AccountsInv)
<1>1. HajjTypeInv /\ ChargesInv /\ AccountsInv /\ HajjTypeInv' /\ ChargesInv' /\ [HajjNext]_hajjVars
        => AccountsInv'
  BY AccountsStep DEF Before
<1> QED BY <1>1, AccountsInit, AlwaysHajjTyped, AlwaysChargesInv, PTL DEF HajjSpec

\* What an account may hold is part of what has been charged for its booking.
LEMMA CountedIsCharged ==
  ASSUME HajjTypeOK, ChargesInv, ChargesRecorded, NEW b
  PROVE  Counted(b) <= ChargedFor(b)
<1>1. \A k \in PaymentKeys : Counts(b, k) => hajjPayment[k].booking = b /\ hajjCharges[k] = 1
  BY DEF Counts, PaymentsOf, ChargesRecorded
<1>2. \A k \in PaymentKeys : CountedAmounts(b)[k] <= ChargedAmounts(b)[k]
  BY <1>1, Numbers, ChargedNext DEF CountedAmounts, ChargedNumbers
<1> QED BY <1>2, TotalMonotone, ChargedNext, CountedNext DEF ChargedNumbers, CountedNumbers, Counted

\* FULLY_PAID is said only of bookings whose whole total has been charged, for
\* any number of instalments that overlap or die, until one is repeated.
LEMMA FullyPaidIsCharged ==
  ASSUME HajjTypeInv, ChargesInv, AccountsInv
  PROVE  FullyPaidMeansChargedOnce
<1> SUFFICES ASSUME ~replayed, NEW b \in Pilgrimages, pilgrimage[b].status = "FULLY_PAID"
             PROVE  ChargedFor(b) >= pilgrimage[b].total
  BY DEF FullyPaidMeansChargedOnce, FullyPaidMeansCharged
<1>1. pilgrimage[b].total <= pilgrimage[b].amountPaid
  BY Numbers DEF AccountsInv, RowsInv, HajjTypeInv
<1>2. pilgrimage[b].amountPaid <= Counted(b)
  BY DEF AccountsInv, NothingInvented
<1>3. Counted(b) <= ChargedFor(b)
  BY CountedIsCharged DEF AccountsInv, HajjTypeInv
<1>4. /\ pilgrimage[b].total \in Nat /\ pilgrimage[b].amountPaid \in Nat
      /\ Counted(b) \in Nat /\ ChargedFor(b) \in Nat
  BY Numbers, ChargedNext, CountedNext DEF ChargedNumbers, CountedNumbers, HajjTypeInv
<1> QED BY <1>1, <1>2, <1>3, <1>4

PaidAmounts(b) ==
  [k \in PaymentKeys |-> IF k \in PaymentsOf(b) /\ Paid(k) THEN hajjPayment[k].amount ELSE 0]

\* When nobody pays for a booking, nothing has been invented and nothing lost:
\* its account is the sum of its PAID payments.
LEMMA AccountsDoAgree ==
  ASSUME HajjTypeInv, ChargesInv, AccountsInv
  PROVE  HajjAccountsAgree
<1> SUFFICES ASSUME ~accountOverlap, ~replayed, ~hajjCrashed, NEW b \in Pilgrimages,
                    \A t \in Customers : Paying(t) => ask[t].booking # b
             PROVE  pilgrimage[b].amountPaid = PaidInto(b)
  BY DEF HajjAccountsAgree
<1>1. HajjTypeOK
  BY DEF HajjTypeInv
<1>2. ChargedFor(b) <= pilgrimage[b].amountPaid
  BY UnappliedPays DEF AccountsInv, NothingLost
<1>3. pilgrimage[b].amountPaid <= Counted(b)
  BY DEF AccountsInv, NothingInvented
<1>4. \A k \in PaymentKeys : PaidAmounts(b)[k] \in Nat
  BY <1>1, Numbers DEF PaidAmounts
<1>5. Summable(PaidAmounts(b), PaymentKeys)
  BY <1>4, KeysFinite DEF Summable
<1>6. PaidInto(b) = Total(PaidAmounts(b), PaymentKeys)
  BY DEF PaidInto, PaidAmounts
<1>7. Counted(b) <= PaidInto(b)
  <2>1. \A k \in PaymentKeys : CountedAmounts(b)[k] <= PaidAmounts(b)[k]
    BY <1>1, Numbers DEF CountedAmounts, PaidAmounts, Counts
  <2> QED BY <1>1, <1>5, <1>6, <2>1, TotalMonotone, CountedNext DEF CountedNumbers, Counted
<1>8. PaidInto(b) <= ChargedFor(b)
  <2>1. \A k \in PaymentKeys :
          k \in PaymentsOf(b) /\ Paid(k) => hajjPayment[k].booking = b /\ hajjCharges[k] = 1
    BY DEF PaymentsOf, AccountsInv, ChargesRecorded
  <2>2. \A k \in PaymentKeys : PaidAmounts(b)[k] <= ChargedAmounts(b)[k]
    BY <1>1, <2>1, Numbers, ChargedNext DEF PaidAmounts, ChargedNumbers
  <2> QED BY <1>1, <1>5, <1>6, <2>2, TotalMonotone, ChargedNext DEF ChargedNumbers
<1>9. /\ pilgrimage[b].amountPaid \in Nat /\ PaidInto(b) \in Nat
      /\ Counted(b) \in Nat /\ ChargedFor(b) \in Nat
  BY <1>1, <1>5, <1>6, Numbers, ChargedNext, CountedNext, TotalNat
     DEF ChargedNumbers, CountedNumbers
<1> QED BY <1>2, <1>3, <1>7, <1>8, <1>9

\* HajjMoneySound: each key is charged once, accounts are the sums of their
\* PAID payments, FULLY_PAID means charged and instalments stay within the
\* total - as far as overlapping, dying and repeated requests let them.
THEOREM HajjMoneyAlwaysSound == HajjSpec => []HajjMoneySound
<1>1. HajjTypeInv /\ ChargesInv /\ AccountsInv => HajjMoneySound
  BY FullyPaidIsCharged, AccountsDoAgree DEF HajjMoneySound, ChargesInv, AccountsInv
<1> QED BY <1>1, AlwaysAccountsInv, PTL
-----------------------------------------------------------------------------
(* Seats and bookings.                                                     *)

Seated == [b \in Pilgrimages |-> pilgrimage[b].pilgrims]
SeatedNumbers == Summable(Seated, Pilgrimages) /\ Total(Seated, Pilgrimages) \in Nat
LEMMA SeatedNext ==
  /\ HajjTypeOK => SeatedNumbers
  /\ HajjTypeOK' => SeatedNumbers'
<1>1. HajjTypeOK => SeatedNumbers
  BY Numbers, KeysFinite, TotalNat DEF SeatedNumbers, Seated, Summable
<1>2. (HajjTypeOK => SeatedNumbers)'
  BY <1>1, PTL
<1> QED BY <1>1, <1>2

LEMMA SeatsAreBookingsStep ==
  ASSUME HajjTypeInv, HajjTypeInv', SeatsAreBookings, [HajjNext]_hajjVars
  PROVE  SeatsAreBookings'
<1> USE DEF HajjTypeInv
<1>1. SeatsAreBookings <=> seatsBooked = Total(Seated, Pilgrimages)
  BY DEF SeatsAreBookings, Seated
<1>2. SeatsAreBookings' <=> seatsBooked' = Total(Seated', Pilgrimages)
  BY DEF SeatsAreBookings, Seated
<1>3. ASSUME seatsBooked' = seatsBooked,
             \A b \in Pilgrimages : pilgrimage'[b].pilgrims = pilgrimage[b].pilgrims
      PROVE  SeatsAreBookings'
  <2>1. \A b \in Pilgrimages : Seated[b] = Seated'[b]
    BY <1>3 DEF Seated
  <2> QED BY <1>1, <1>2, <1>3, <2>1, TotalSame
<1>4. ASSUME NEW t \in HajjThreads, Reserve(t) PROVE SeatsAreBookings'
  <2>a. t \in Bookers
    BY <1>4 DEF Reserve, PlacesInv
  <2>0. PICK b \in Pilgrimages : b = ask[t].booking
    BY <2>a, AskFields DEF HajjTypeOK
  <2>1. /\ pilgrimage[b] = NoBookingRow
        /\ pilgrimage' = [pilgrimage EXCEPT ![b] = BookingRow(t)]
        /\ seatsBooked' = seatsBooked + ask[t].pilgrims
    BY <1>4, <2>0 DEF Reserve
  <2>2. /\ pilgrimage[b].pilgrims = 0
        /\ pilgrimage'[b].pilgrims = ask[t].pilgrims
        /\ \A c \in Pilgrimages \ {b} : pilgrimage'[c].pilgrims = pilgrimage[c].pilgrims
    BY <2>1 DEF HajjTypeOK, BookingRow, NoBookingRow
  <2>3. Seated[b] = 0 /\ Seated'[b] = ask[t].pilgrims
    BY <2>2 DEF Seated
  <2>4. \A c \in Pilgrimages \ {b} : Seated[c] = Seated'[c]
    BY <2>2 DEF Seated
  <2>5. Summable(Seated, Pilgrimages) /\ Summable(Seated', Pilgrimages)
        /\ Total(Seated, Pilgrimages) \in Nat
    BY SeatedNext DEF SeatedNumbers
  <2>6. Total(Seated', Pilgrimages) = Total(Seated, Pilgrimages) - Seated[b] + Seated'[b]
    BY <2>4, <2>5, TotalUpdate
  <2>7. ask[t].pilgrims \in Nat
    BY <2>a, AskFields DEF HajjTypeOK
  <2> QED BY <1>1, <1>2, <2>1, <2>3, <2>5, <2>6, <2>7
<1>5. ASSUME NEW t \in HajjThreads, WriteAccount(t) PROVE SeatsAreBookings'
  <2>1. \A b \in Pilgrimages : pilgrimage'[b].pilgrims = pilgrimage[b].pilgrims
    <3>a. t \in Customers /\ pilgrimage[ask[t].booking] # NoBookingRow
      BY <1>5 DEF WriteAccount, PlacesInv, Paying
    <3>0. PICK c \in Pilgrimages : c = ask[t].booking
      BY <3>a, CustomerFields
    <3>1. PICK paid, result :
            pilgrimage' = [pilgrimage EXCEPT ![c].amountPaid = paid, ![c].status = result]
      BY <1>5, <3>0 DEF WriteAccount
    <3>2. pilgrimage[c] \in PilgrimageRow
      BY <3>a, <3>0 DEF HajjTypeOK, PilgrimageRow
    <3> QED BY <3>1, <3>2 DEF HajjTypeOK, PilgrimageRow
  <2>2. seatsBooked' = seatsBooked
    BY <1>5 DEF WriteAccount, package
  <2> QED BY <1>3, <2>1, <2>2
<1>6. ASSUME UNCHANGED <<seatsBooked, pilgrimage>> PROVE SeatsAreBookings'
  BY <1>3, <1>6
<1>7. ASSUME NEW t \in HajjThreads, HajjStep(t) \/ HajjCrash(t), ~Reserve(t), ~WriteAccount(t)
      PROVE  SeatsAreBookings'
  <2>1. UNCHANGED <<seatsBooked, pilgrimage>>
    BY <1>7 DEF HajjStep, HajjCrash, HajjLookUp, ReadPackage, RefuseBooking, ReserveConflict,
                LoadForPayment, FindPayment, InsertPayment, PaymentConflict, ProviderCharges,
                RecordCharge, ReadAccount, ReadForResize, Resize, Reprice, package
  <2> QED BY <1>6, <2>1
<1>8. CASE UNCHANGED hajjVars
  BY <1>6, <1>8 DEF hajjVars, package
<1>9. CASE HajjNext
  BY <1>4, <1>5, <1>7, <1>9 DEF HajjNext
<1> QED BY <1>8, <1>9

\* SeatsAreBookings: seatsBooked counts exactly the pilgrims of the bookings
\* that exist, whatever overlaps, is repeated or dies.
THEOREM SeatsAreAlwaysBookings == HajjSpec => []SeatsAreBookings
<1>1. HajjInit => SeatsAreBookings
  <2> SUFFICES ASSUME HajjInit PROVE SeatsAreBookings
    OBVIOUS
  <2>1. \A b \in Pilgrimages : [c \in Pilgrimages |-> pilgrimage[c].pilgrims][b] = 0
    BY DEF HajjInit, NoBookingRow
  <2>2. Total([c \in Pilgrimages |-> pilgrimage[c].pilgrims], Pilgrimages) = 0
    BY <2>1, TotalZero
  <2> QED BY <2>2 DEF HajjInit, SeatsAreBookings
<1> QED BY <1>1, SeatsAreBookingsStep, AlwaysHajjTyped, PTL DEF HajjSpec
-----------------------------------------------------------------------------
(* The run of MC_Sales: each step of it is a step of every service, or       *)
(* leaves it alone.                                                          *)

LEMMA SalesInit == MCInit => HotelInit /\ PackageInit /\ HajjInit
BY DEF MCInit

LEMMA SalesStep ==
  [MCNext]_salesVars =>
    [HotelNext]_hotelVars /\ [PackageNext]_packageVars /\ [HajjNext]_hajjVars
BY DEF MCNext, salesVars

LEMMA SalesServices == MCSpec => HotelSpec /\ PackageSpec /\ HajjSpec
BY SalesInit, SalesStep, PTL DEF MCSpec, HotelSpec, PackageSpec, HajjSpec

\* SalesTypeOK: the rows and requests of the three services stay well-formed,
\* for any number of creators, cancellers, packagers and customers.
THEOREM SalesTypeCorrect == MCSpec => []SalesTypeOK
BY SalesServices, HotelTypeCorrect, PackagesAlwaysSound, HajjTypeCorrect, PTL
   DEF SalesTypeOK
=============================================================================
