--------------------------- MODULE FlightBooking ---------------------------
(***************************************************************************)
(* One flight booking, from the request that creates it to its refund:     *)
(* BookingsService (createBooking, issueTicketsForBooking, cancelBooking,  *)
(* performCancellation), the flight half of PaymentsService and            *)
(* CorporateApprovalsService.decide, run by concurrent HTTP requests that  *)
(* share nothing but the database.                                         *)
(*                                                                         *)
(* Every await of the code is a point where other requests run, so every   *)
(* database statement and every call of a supplier or payment provider is  *)
(* an action of its own, and the status moves through StatusMachine.  A    *)
(* request may die at any such point; nothing resumes it.                  *)
(*                                                                         *)
(* pc[r] is what request r does next.  When it is a booking status, the    *)
(* next thing is a transition to that status.                              *)
(***************************************************************************)
EXTENDS BookingStatus, Sequences, FiniteSets

CONSTANTS
  Creators,     \* createBooking requests that carry the booking's idempotency key
  Cancellers,   \* cancelBooking requests of users allowed to cancel it
  Approvers,    \* decide requests of approvers of the employee's company
  Passengers,   \* passengers of the booking
  AdapterKinds, \* the optional methods a supplier adapter may implement
  Sales,        \* the kinds of sale explored: where the fare was searched, who books it
  CrashAllowed  \* whether a request may die half way

ASSUME FlightAssumption ==
  /\ IsFiniteSet(Creators \cup Cancellers \cup Approvers)
  /\ Creators \cap Cancellers = {}   \* a request has one kind
  /\ (Creators \cup Cancellers) \cap Approvers = {}
  /\ AdapterKinds \subseteq SUBSET {"issueTicket", "cancelBooking", "refundBooking"}
  /\ Sales \subseteq [channel: {"B2C", "B2B", "CORPORATE"},
                       buyer: {"customer", "agent", "employee"}]
  /\ CrashAllowed \in BOOLEAN

Requests == Creators \cup Cancellers \cup Approvers

VARIABLES
  \* The booking row and its history: StatusMachine's variables.
  status, history, tx,
  \* The other rows of the booking.
  supplierReference,  \* whether bookings.supplier_booking_reference is set
  walletRows,         \* keys of its wallet ledger rows: "debit", "refund"
  payment,            \* payments.status, or "none"
  refunds,            \* refunds[r]: status of the refund row made by r, or "none"
  approval,           \* corporate_approvals.status, or "none"
  issued, voided,     \* tickets made, as <<request, passenger>>, and those now VOID
  \* What suppliers and payment provider did, which the database may not know.
  booked,     \* creators whose supplier call made a booking
  released,   \* whether the supplier has taken a cancellation or a refund
  charge,     \* charge[r]: "none", "PAID", "FAILED", or "LOST": charged but answered FAILED
  paidBack,   \* requests for which the provider returned the money
  \* The request threads.
  pc, wasTicketed, todo,
  \* Fixed when the booking is asked for.
  channel,        \* the sales channel its fare was searched on
  buyer,          \* the row its maker is: an agent pays by wallet, the others by card
  needsApproval,  \* TravelPolicyService.evaluate: outside policy, not blocked
  adapter         \* the optional methods of the offer's supplier adapter

SM == INSTANCE StatusMachine WITH Callers <- Requests

machine == <<status, history, tx>>
rows == <<supplierReference, walletRows, payment, refunds, approval, issued, voided>>
outside == <<booked, released, charge, paidBack>>
thread == <<pc, wasTicketed, todo>>
fixed == <<channel, buyer, needsApproval, adapter>>
vars == <<machine, rows, outside, thread, fixed>>

\* What a request goes on with once its transition to a status committed.
After ==
  [ PRICE_PENDING |-> "PRICE_CONFIRMED", PRICE_CONFIRMED |-> "BOOKING_PENDING",
    BOOKING_PENDING |-> "supplierBook", CONFIRMED |-> "settle",
    FAILED |-> "done", TICKETED |-> "done", REFUND_PENDING |-> "voidTickets",
    CANCELLED |-> "createRefund", REFUNDED |-> "done" ]

Init ==
  /\ SM!Init
  /\ supplierReference = FALSE
  /\ walletRows = {}
  /\ payment = "none"
  /\ refunds = [r \in Requests |-> "none"]
  /\ approval = "none"
  /\ issued = {}
  /\ voided = {}
  /\ booked = {}
  /\ released = FALSE
  /\ charge = [r \in Requests |-> "none"]
  /\ paidBack = {}
  /\ pc = [r \in Requests |->
             IF r \in Creators THEN "start"
             ELSE IF r \in Cancellers THEN "load" ELSE "loadApproval"]
  /\ wasTicketed = [r \in Requests |-> FALSE]
  /\ todo = [r \in Requests |-> Passengers]
  /\ \E sale \in Sales : channel = sale.channel /\ buyer = sale.buyer
  /\ needsApproval \in BOOLEAN
  /\ needsApproval => channel = "CORPORATE" /\ buyer = "employee"
  /\ adapter \in AdapterKinds

Goto(r, next) ==
  /\ pc' = [pc EXCEPT ![r] = next]
  /\ UNCHANGED <<wasTicketed, todo, fixed>>

-----------------------------------------------------------------------------
(* createBooking                                                           *)

\* A booking with this key is returned as it is; otherwise the offer, the
\* supplier's reprice, the agency and the travel policy are looked at.
LookUpKey(r) ==
  /\ pc[r] = "start"
  /\ Goto(r, IF status = SM!NoBooking THEN "validate" ELSE "done")
  /\ UNCHANGED <<machine, rows, outside>>

\* Offer gone or expired, fare gone or changed, agency not active or short of
\* funds, policy violated: nothing has been written.
RejectRequest(r) ==
  /\ pc[r] = "validate"
  /\ Goto(r, "done")
  /\ UNCHANGED <<machine, rows, outside>>

InsertBooking(r) ==
  /\ pc[r] = "validate"
  /\ SM!Create
  /\ Goto(r, "PRICE_PENDING")
  /\ UNCHANGED <<rows, outside>>

\* Mutant: the second insert finds the booking and goes on with it.
ConflictGoesOn(r) ==
  /\ pc[r] = "validate"
  /\ status # SM!NoBooking
  /\ Goto(r, "PRICE_PENDING")
  /\ UNCHANGED <<machine, rows, outside>>

\* The unique idempotency key rejects the second of two inserts.
InsertConflict(r) ==
  /\ pc[r] = "validate"
  /\ status # SM!NoBooking
  /\ Goto(r, "done")
  /\ UNCHANGED <<machine, rows, outside>>

\* adapter.createBooking confirms, or it declines or throws; in the last two
\* cases the supplier may still have made the booking.
SupplierBook(r) ==
  /\ pc[r] = "supplierBook"
  /\ \E confirmed, made \in BOOLEAN :
       /\ confirmed => made
       /\ booked' = IF made THEN booked \cup {r} ELSE booked
       /\ Goto(r, IF confirmed THEN "saveReference" ELSE "FAILED")
  /\ UNCHANGED <<machine, rows, released, charge, paidBack>>

\* Mutants: the same UPDATE confirms the booking; money is taken first.
ConfirmWithReference(r) ==
  /\ pc[r] = "saveReference"
  /\ supplierReference' = TRUE
  /\ status' = "CONFIRMED"
  /\ Goto(r, "settle")
  /\ UNCHANGED <<history, tx, walletRows, payment, refunds, approval, issued, voided, outside>>

SettleFirst(r) ==
  /\ pc[r] = "saveReference"
  /\ supplierReference' = TRUE
  /\ Goto(r, "settle")
  /\ UNCHANGED <<machine, walletRows, payment, refunds, approval, issued, voided, outside>>

SaveReference(r) ==
  /\ pc[r] = "saveReference"
  /\ supplierReference' = TRUE
  /\ Goto(r, "CONFIRMED")
  /\ UNCHANGED <<machine, walletRows, payment, refunds, approval, issued, voided, outside>>

\* Fares of the corporate channel pass the approval gate, the others are ticketed.
AfterSettling == IF channel = "CORPORATE" THEN "approval" ELSE "issue"

\* wallet.debitForBooking, whose inside is WalletLedger: the row is posted,
\* or InsufficientFundsError is logged and the booking goes on.
DebitWallet(r) ==
  /\ pc[r] = "settle"
  /\ buyer = "agent"
  /\ walletRows' \in {walletRows, walletRows \cup {"debit"}}
  /\ Goto(r, AfterSettling)
  /\ UNCHANGED <<machine, supplierReference, payment, refunds, approval, issued, voided, outside>>

\* Any other error of the debit is thrown to the caller.
DebitError(r) ==
  /\ pc[r] = "settle"
  /\ buyer = "agent"
  /\ Goto(r, "done")
  /\ UNCHANGED <<machine, rows, outside>>

\* payments.chargeForBooking: no payment has the key yet, a PENDING row is made.
CreatePayment(r) ==
  /\ pc[r] = "settle"
  /\ buyer # "agent"
  /\ payment = "none"
  /\ payment' = "PENDING"
  /\ Goto(r, "charge")
  /\ UNCHANGED <<machine, supplierReference, walletRows, refunds, approval, issued, voided, outside>>

\* provider.charge; an error on the way back reads as FAILED.
ChargeProvider(r) ==
  /\ pc[r] = "charge"
  /\ \E result \in {"PAID", "FAILED", "LOST"} : charge' = [charge EXCEPT ![r] = result]
  /\ Goto(r, "recordCharge")
  /\ UNCHANGED <<machine, rows, booked, released, paidBack>>

\* Mutant: a lost answer is recorded as such.
RecordRawCharge(r) ==
  /\ pc[r] = "recordCharge"
  /\ payment' = charge[r]
  /\ Goto(r, AfterSettling)
  /\ UNCHANGED <<machine, supplierReference, walletRows, refunds, approval, issued, voided, outside>>

RecordCharge(r) ==
  /\ pc[r] = "recordCharge"
  /\ payment' = IF charge[r] = "PAID" THEN "PAID" ELSE "FAILED"
  /\ Goto(r, AfterSettling)
  /\ UNCHANGED <<machine, supplierReference, walletRows, refunds, approval, issued, voided, outside>>

\* Mutant: the approval is asked for and not waited for.
CreateApprovalGoesOn(r) ==
  /\ pc[r] = "approval"
  /\ buyer = "employee"
  /\ approval' = IF needsApproval THEN "PENDING" ELSE "APPROVED"
  /\ Goto(r, "issue")
  /\ UNCHANGED <<machine, supplierReference, walletRows, payment, refunds, issued, voided, outside>>

\* The CORPORATE branch: a human must decide, or the policy engine has.
CreateApproval(r) ==
  /\ pc[r] = "approval"
  /\ buyer = "employee"
  /\ approval' = IF needsApproval THEN "PENDING" ELSE "APPROVED"
  /\ Goto(r, IF needsApproval THEN "done" ELSE "issue")
  /\ UNCHANGED <<machine, supplierReference, walletRows, payment, refunds, issued, voided, outside>>

\* Nobody's approval can be asked for if the buyer is no employee: the booking
\* is neither approved nor ticketed.
NoOneToApprove(r) ==
  /\ pc[r] = "approval"
  /\ buyer # "employee"
  /\ Goto(r, "done")
  /\ UNCHANGED <<machine, rows, outside>>

-----------------------------------------------------------------------------
(* issueTicketsForBooking                                                  *)

\* One round of the loop: the supplier issues a ticket and its row is made,
\* or something in between fails and the loop goes on.
IssueTicket(r, p) ==
  /\ pc[r] = "issue"
  /\ "issueTicket" \in adapter
  /\ p \in todo[r]
  /\ issued' \in {issued, issued \cup {<<r, p>>}}
  /\ todo' = [todo EXCEPT ![r] = @ \ {p}]
  /\ UNCHANGED <<machine, supplierReference, walletRows, payment, refunds,
                 approval, voided, outside, pc, wasTicketed, fixed>>

\* Only when every passenger has a ticket is the booking moved to TICKETED.
EndIssuing(r) ==
  /\ pc[r] = "issue"
  /\ "issueTicket" \in adapter => todo[r] = {}
  /\ Goto(r, IF "issueTicket" \in adapter /\ {r} \X Passengers \subseteq issued
             THEN "TICKETED" ELSE "done")
  /\ UNCHANGED <<machine, rows, outside>>

-----------------------------------------------------------------------------
(* cancelBooking and performCancellation                                   *)

\* The booking is loaded; everything after looks at this snapshot.
LoadForCancel(r) ==
  /\ pc[r] = "load"
  /\ status # SM!NoBooking
  /\ pc' = [pc EXCEPT ![r] = IF status \in {"CONFIRMED", "TICKETED"}
                             THEN "supplierUndo" ELSE "done"]
  /\ wasTicketed' = [wasTicketed EXCEPT ![r] = status = "TICKETED"]
  /\ UNCHANGED <<machine, rows, outside, todo, fixed>>

\* adapter.refundBooking or adapter.cancelBooking, when there is one, answers
\* FAILED or throws (the request ends there), or agrees.
UndoMethod(r) == IF wasTicketed[r] THEN "refundBooking" ELSE "cancelBooking"

\* Mutant: a refusal of the supplier is only logged.
RefusalIgnored(r) ==
  /\ pc[r] = "supplierUndo"
  /\ Goto(r, IF wasTicketed[r] THEN "REFUND_PENDING" ELSE "CANCELLED")
  /\ UNCHANGED <<machine, rows, outside>>

SupplierRefuses(r) ==
  /\ pc[r] = "supplierUndo"
  /\ UndoMethod(r) \in adapter
  /\ released' \in BOOLEAN /\ (released => released')
  /\ Goto(r, "done")
  /\ UNCHANGED <<machine, rows, booked, charge, paidBack>>

SupplierAgrees(r) ==
  /\ pc[r] = "supplierUndo"
  /\ released' = (released \/ UndoMethod(r) \in adapter)
  /\ Goto(r, IF wasTicketed[r] THEN "REFUND_PENDING" ELSE "CANCELLED")
  /\ UNCHANGED <<machine, rows, booked, charge, paidBack>>

\* prisma.ticket.updateMany: every ticket of the booking becomes VOID.
VoidTickets(r) ==
  /\ pc[r] = "voidTickets"
  /\ voided' = issued
  /\ Goto(r, "createRefund")
  /\ UNCHANGED <<machine, supplierReference, walletRows, payment, refunds, approval, issued, outside>>

SetRefund(r, refundStatus) ==
  /\ refunds' = [refunds EXCEPT ![r] = refundStatus]
  /\ UNCHANGED <<machine, supplierReference, walletRows, payment, approval, issued, voided, outside>>

CreateRefund(r) ==
  /\ pc[r] = "createRefund"
  /\ SetRefund(r, "PROCESSING")
  /\ Goto(r, "settleRefund")

\* wallet.creditForBooking with key `refund:<booking id>`: posted unless a row
\* with that key is there already.
CreditWallet(r) ==
  /\ pc[r] = "settleRefund"
  /\ buyer = "agent"
  /\ walletRows' = walletRows \cup {"refund"}
  /\ Goto(r, "completeRefund")
  /\ UNCHANGED <<machine, supplierReference, payment, refunds, approval, issued, voided, outside>>

\* refundPayment: the payment is read, and only a PAID one is sent back.
ReadPayment(r) ==
  /\ pc[r] = "settleRefund"
  /\ buyer # "agent"
  /\ Goto(r, IF payment = "PAID" THEN "providerRefund" ELSE "completeRefund")
  /\ UNCHANGED <<machine, rows, outside>>

\* provider.refund answers REFUNDED, or FAILED; neither provider throws.  An
\* error on the way back reads as FAILED, although the money may have gone.
ProviderRefunds(r) ==
  /\ pc[r] = "providerRefund"
  /\ paidBack' = paidBack \cup {r}
  /\ Goto(r, "recordRefunded")
  /\ UNCHANGED <<machine, rows, booked, released, charge>>

ProviderRefuses(r) ==
  /\ pc[r] = "providerRefund"
  /\ paidBack' \in {paidBack, paidBack \cup {r}}
  /\ Goto(r, "recordRefundFailed")
  /\ UNCHANGED <<machine, rows, booked, released, charge>>

\* settleRefund writes the provider's answer to the payment and returns.
RecordProviderRefund(r) ==
  /\ pc[r] \in {"recordRefunded", "recordRefundFailed"}
  /\ payment' = IF pc[r] = "recordRefunded" THEN "REFUNDED" ELSE "FAILED"
  /\ Goto(r, "completeRefund")
  /\ UNCHANGED <<machine, supplierReference, walletRows, refunds, approval, issued, voided, outside>>

\* Any error inside the settlement is caught, wherever it comes from.
SettleError(r) ==
  /\ pc[r] \in {"settleRefund", "recordRefunded", "recordRefundFailed", "completeRefund"}
  /\ Goto(r, "rejectRefund")
  /\ UNCHANGED <<machine, rows, outside>>

\* Mutant: a booking whose refund was rejected is not moved on.
CloseRefundOrStop(r) ==
  /\ pc[r] \in {"completeRefund", "rejectRefund"}
  /\ SetRefund(r, IF pc[r] = "completeRefund" THEN "COMPLETED" ELSE "REJECTED")
  /\ Goto(r, IF wasTicketed[r] /\ pc[r] = "completeRefund" THEN "REFUNDED" ELSE "done")

\* The refund row is closed: COMPLETED, or REJECTED after an error.
CloseRefund(r) ==
  /\ pc[r] \in {"completeRefund", "rejectRefund"}
  /\ SetRefund(r, IF pc[r] = "completeRefund" THEN "COMPLETED" ELSE "REJECTED")
  /\ Goto(r, IF wasTicketed[r] THEN "REFUNDED" ELSE "done")

-----------------------------------------------------------------------------
(* CorporateApprovalsService.decide                                        *)

LoadApproval(r) ==
  /\ pc[r] = "loadApproval"
  /\ approval # "none"
  /\ Goto(r, IF approval = "PENDING" THEN "decide" ELSE "done")
  /\ UNCHANGED <<machine, rows, outside>>

\* The decision is written by id; then the booking is ticketed (it has a
\* supplier reference: getAdapterForBooking) or cancelled.
Decide(r) ==
  /\ pc[r] = "decide"
  /\ \E decision \in {"APPROVED", "REJECTED"} :
       /\ approval' = decision
       /\ Goto(r, IF decision = "REJECTED" THEN "load"
                  ELSE IF supplierReference THEN "issue" ELSE "done")
  /\ UNCHANGED <<machine, supplierReference, walletRows, payment, refunds, issued, voided, outside>>

-----------------------------------------------------------------------------
(* Transitions, and the end of requests                                    *)

TransitionRead(r) ==
  /\ pc[r] \in DOMAIN After
  /\ SM!Read(r, pc[r])
  /\ UNCHANGED <<rows, outside, thread, fixed>>

TransitionCommit(r) ==
  /\ SM!Commit(r)
  /\ Goto(r, After[pc[r]])
  /\ UNCHANGED <<rows, outside>>

\* Mutants: the exception is swallowed; the transition is tried for ever.
ThrowSwallowed(r) ==
  /\ pc[r] \in DOMAIN After
  /\ tx[r] = SM!NoTx
  /\ ~IsTransitionAllowed(status, pc[r])
  /\ Goto(r, After[pc[r]])
  /\ UNCHANGED <<machine, rows, outside>>

ThrowRetried(r) ==
  /\ pc[r] \in DOMAIN After
  /\ tx[r] = SM!NoTx
  /\ ~IsTransitionAllowed(status, pc[r])
  /\ UNCHANGED vars

\* The table does not allow the move: ConflictException, out of the request.
TransitionThrows(r) ==
  /\ pc[r] \in DOMAIN After
  /\ tx[r] = SM!NoTx
  /\ ~IsTransitionAllowed(status, pc[r])
  /\ Goto(r, "done")
  /\ UNCHANGED <<machine, rows, outside>>

\* The API process dies, or a statement fails and the error leaves the
\* request (except where SettleError catches it): an open transaction
\* is rolled back and the rest of the request never happens.
Crash(r) ==
  /\ CrashAllowed
  /\ pc[r] # "done"
  /\ tx' = [tx EXCEPT ![r] = SM!NoTx]
  /\ Goto(r, "done")
  /\ UNCHANGED <<status, history, rows, outside>>

Create(r) ==
  \/ LookUpKey(r) \/ RejectRequest(r) \/ InsertBooking(r) \/ InsertConflict(r)
  \/ SupplierBook(r) \/ SaveReference(r)
  \/ DebitWallet(r) \/ DebitError(r)
  \/ CreatePayment(r) \/ ChargeProvider(r) \/ RecordCharge(r)
  \/ CreateApproval(r) \/ NoOneToApprove(r)

Issue(r) == (\E p \in Passengers : IssueTicket(r, p)) \/ EndIssuing(r)

Cancel(r) ==
  \/ LoadForCancel(r) \/ SupplierRefuses(r) \/ SupplierAgrees(r)
  \/ VoidTickets(r) \/ CreateRefund(r)
  \/ CreditWallet(r) \/ ReadPayment(r)
  \/ ProviderRefunds(r) \/ ProviderRefuses(r) \/ RecordProviderRefund(r)
  \/ SettleError(r) \/ CloseRefund(r)

Approve(r) == LoadApproval(r) \/ Decide(r)

Transition(r) == TransitionRead(r) \/ TransitionCommit(r) \/ TransitionThrows(r)

Step(r) == Create(r) \/ Issue(r) \/ Cancel(r) \/ Approve(r) \/ Transition(r)

Next == \E r \in Requests : Step(r) \/ Crash(r)

Spec == Init /\ [][Next]_vars

\* Node's event loop runs every request that has something to do.
FairSpec == Spec /\ \A r \in Requests : WF_vars(Step(r))
-----------------------------------------------------------------------------
(* Properties that hold.                                                   *)

RequestPcs ==
  DOMAIN After \cup
  {"start", "validate", "supplierBook", "saveReference", "settle", "charge",
   "recordCharge", "approval", "issue", "load", "supplierUndo", "voidTickets",
   "createRefund", "settleRefund", "providerRefund", "recordRefunded",
   "recordRefundFailed", "completeRefund", "rejectRefund", "loadApproval",
   "decide", "done"}

RowsOK ==
  /\ supplierReference \in BOOLEAN
  /\ walletRows \in SUBSET {"debit", "refund"}
  /\ payment \in {"none", "PENDING", "PAID", "FAILED", "REFUNDED"}
  /\ refunds \in [Requests -> {"none", "PROCESSING", "COMPLETED", "REJECTED"}]
  /\ approval \in {"none", "PENDING", "APPROVED", "REJECTED"}
  /\ issued \in SUBSET (Requests \X Passengers)
  /\ voided \in SUBSET issued

OutsideOK ==
  /\ booked \in SUBSET Requests
  /\ released \in BOOLEAN
  /\ charge \in [Requests -> {"none", "PAID", "FAILED", "LOST"}]
  /\ paidBack \in SUBSET Requests

ThreadOK ==
  /\ pc \in [Requests -> RequestPcs]
  /\ wasTicketed \in [Requests -> BOOLEAN]
  /\ todo \in [Requests -> SUBSET Passengers]

FixedOK ==
  /\ [channel |-> channel, buyer |-> buyer] \in Sales
  /\ needsApproval \in BOOLEAN
  /\ adapter \in AdapterKinds

TypeOK == SM!TypeOK /\ RowsOK /\ OutsideOK /\ ThreadOK /\ FixedOK

Charged == {r \in Requests : charge[r] \in {"PAID", "LOST"}}

\* "a retried request with the same key returns the exact booking the first
\* attempt produced, never a second one": however often the request is
\* repeated, at the same time or after a crash, the supplier is asked for at
\* most one booking and the provider for at most one charge.
OneBookingPerKey ==
  /\ \A r, q \in booked : r = q
  /\ \A r, q \in Charged : r = q

Recorded(to) == \E i \in DOMAIN history : history[i].to = to

\* "a failed/declined attempt (above) never touches the wallet at all": money
\* is only taken for a booking that was moved to CONFIRMED, and a FAILED
\* booking has cost nothing.
NoMoneyBeforeConfirmation ==
  "debit" \in walletRows \/ Charged # {} => Recorded("CONFIRMED") /\ status # "FAILED"

CancelMoves == {i \in DOMAIN history : history[i].to \in {"CANCELLED", "REFUND_PENDING"}}

\* No refund without its own committed cancellation: there are never more
\* refund rows than moves to CANCELLED or REFUND_PENDING, and money goes back
\* only through one of those rows.
RefundsFollowCancellations ==
  /\ Cardinality({r \in Requests : refunds[r] # "none"}) <= Cardinality(CancelMoves)
  /\ "refund" \in walletRows => \E r \in Requests : refunds[r] # "none"
  /\ \A r \in paidBack : refunds[r] # "none"

\* "NOT ticketed yet ... Ticketing only happens once a CORPORATE_APPROVER
\* decides": no ticket for a booking that awaits its approval, and none if
\* only one approver acted and rejected it.
NoTicketBeforeApproval ==
  channel = "CORPORATE" /\ issued # {} =>
    /\ approval \notin {"none", "PENDING"}
    /\ (\A a, b \in Approvers : a = b) => approval = "APPROVED"

\* "never flip our own state before the supplier confirms": a booking that was
\* cancelled or sent to refund is one the supplier has let go, if its adapter
\* can ask for that.
SupplierReleasedFirst ==
  /\ Recorded("CANCELLED") /\ "cancelBooking" \in adapter => released
  /\ Recorded("REFUND_PENDING") /\ "refundBooking" \in adapter => released

\* Status and history are written by the state machine alone.
MovesByStateMachine == SM!Spec

\* Without crashes every request that found its booking comes to its end.
EveryRequestEnds ==
  \A r \in Requests : pc[r] \notin {"load", "loadApproval", "done"} ~> pc[r] = "done"

\* "REFUND_PENDING: a refund was requested; resolves to REFUNDED or, if the
\* supplier rejects it, FAILED" (of one canceller: a second one that loaded the
\* booking before it was ticketed moves it to CANCELLED).  Which of the two it
\* must be is RefundedMeansSettled, which the code does not keep.
RefundArrives == status = "REFUND_PENDING" ~> status \in {"REFUNDED", "FAILED"}

\* No refund row is left PROCESSING.
RefundsAreClosed ==
  \A r \in Requests : refunds[r] = "PROCESSING" ~> refunds[r] \in {"COMPLETED", "REJECTED"}

\* What a cancellation has begun to give back is settled one way or the other:
\* the booking leaves REFUND_PENDING and its refund row leaves PROCESSING.
RefundsSettle == RefundArrives /\ RefundsAreClosed

-----------------------------------------------------------------------------
(* What the comments of the code say and the code does not keep.  The run  *)
(* flight_double_refund refutes NeverRefundMoreThanCharged, and the run    *)
(* flight_rejected_refund RefundedMeansSettled; in the instance of         *)
(* MC_FlightBooking_safety each of the others has a counterexample too.    *)

\* "Refunds go back to whatever actually paid": the wallet is not credited
\* for a booking whose debit was refused.
NoCreditWithoutDebit ==
  "refund" \in walletRows /\ (\A r \in Creators : pc[r] = "done") => "debit" \in walletRows

\* "a cancellation can never refund more than was actually charged".
NeverRefundMoreThanCharged == Cardinality(paidBack) <= Cardinality(Charged)

\* "REFUND_PENDING: a refund was requested; resolves to REFUNDED or, if the
\* supplier rejects it, FAILED": a booking is REFUNDED only after a refund of it
\* was COMPLETED, not when the only one was REJECTED.
RefundedMeansSettled ==
  status = "REFUNDED" => \E r \in Requests : refunds[r] = "COMPLETED"

\* "Never silently claim the money moved when it didn't": a refund row is
\* closed as COMPLETED only if the money that was paid has gone back.
CompletedMeansRefunded ==
  [][\A r \in Requests :
       refunds[r] # "COMPLETED" /\ refunds'[r] = "COMPLETED" /\ payment \notin {"none", "PENDING"}
         => paidBack # {} \/ \A q \in Creators : charge[q] # "PAID"]_vars

\* "Every transition is checked against ALLOWED_BOOKING_TRANSITIONS".
StatusFollowsTable == SM!StatusFollowsTable

\* "This request was already approved": a decision is not taken again.
DecisionIsFinal ==
  [][approval' # approval => approval \in {"none", "PENDING"}]_vars
=============================================================================
