------------------------ MODULE FlightBooking_proofs ------------------------
(***************************************************************************)
(* Proofs about FlightBooking, for any sets of requests, passengers, kinds *)
(* of sale and adapters, with crashes or without.                          *)
(***************************************************************************)
EXTENDS FlightBooking, FiniteSetTheorems, TLAPS

\* A request with an open transition is one whose next thing is that
\* transition.
PendingIsAsked ==
  \A r \in Requests : tx[r] # SM!NoTx => pc[r] \in DOMAIN After /\ tx[r].to = pc[r]

TypeInv == TypeOK /\ PendingIsAsked

\* Transitions go to statuses, and a request goes on with something it knows.
LEMMA AfterLemma ==
  /\ DOMAIN After \subseteq Statuses
  /\ \A s \in DOMAIN After : After[s] \in RequestPcs
  BY DEF After, Statuses, RequestPcs

LEMMA InitTyped == Init => TypeInv
<1> SUFFICES ASSUME Init PROVE TypeInv
  OBVIOUS
<1>1. SM!TypeOK
  BY DEF Init, SM!Init, SM!TypeOK
<1>2. RowsOK
  BY DEF Init, RowsOK
<1>3. OutsideOK
  BY DEF Init, OutsideOK
<1>4. ThreadOK
  <2>1. ASSUME NEW r \in Requests PROVE pc[r] \in RequestPcs
    BY FlightAssumption DEF Init, Requests, RequestPcs
  <2> QED BY <2>1 DEF Init, ThreadOK
<1>5. FixedOK
  <2>1. PICK sale \in Sales : channel = sale.channel /\ buyer = sale.buyer
    BY DEF Init
  <2>2. /\ sale \in [channel: {"B2C", "B2B", "CORPORATE"},
                      buyer: {"customer", "agent", "employee"}]
        /\ sale = [channel |-> sale.channel, buyer |-> sale.buyer]
    BY <2>1, FlightAssumption
  <2>3. [channel |-> channel, buyer |-> buyer] \in Sales
    BY <2>1, <2>2
  <2> QED BY <2>1, <2>2, <2>3 DEF Init, FixedOK
<1>6. PendingIsAsked
  BY DEF Init, SM!Init, PendingIsAsked
<1> QED BY <1>1, <1>2, <1>3, <1>4, <1>5, <1>6 DEF TypeInv, TypeOK

-----------------------------------------------------------------------------
\* A step of r that is not a transition leaves the machine well-formed and
\* every open transition asked for.
LEMMA AskedLemma ==
  ASSUME TypeInv, NEW r \in Requests, pc[r] \notin DOMAIN After,
         UNCHANGED machine, \A q \in Requests : q # r => pc'[q] = pc[q]
  PROVE  SM!TypeOK' /\ PendingIsAsked'
<1>1. SM!TypeOK'
  BY DEF TypeInv, TypeOK, SM!TypeOK, machine
<1>2. PendingIsAsked'
  BY DEF TypeInv, TypeOK, ThreadOK, PendingIsAsked, machine
<1> QED BY <1>1, <1>2

\* Every step of createBooking outside the state machine keeps the state typed.
LEMMA CreateTyped ==
  ASSUME TypeInv, NEW r \in Requests, Create(r)
  PROVE  TypeInv'
<1> USE DEF Goto, SetRefund, TypeInv, TypeOK, RowsOK, OutsideOK, ThreadOK, FixedOK,
            machine, rows, outside, fixed, After, RequestPcs, AfterSettling
<1>1. CASE LookUpKey(r)
  BY <1>1, AskedLemma DEF LookUpKey
<1>2. CASE RejectRequest(r)
  BY <1>2, AskedLemma DEF RejectRequest
<1>3. CASE InsertBooking(r)
  <2>1. SM!TypeOK' /\ PendingIsAsked'
    BY <1>3 DEF InsertBooking, PendingIsAsked, SM!Create, SM!TypeOK, SM!Statuses
  <2> QED BY <1>3, <2>1 DEF InsertBooking
<1>4. CASE InsertConflict(r)
  BY <1>4, AskedLemma DEF InsertConflict
<1>5. CASE SupplierBook(r)
  BY <1>5, AskedLemma DEF SupplierBook
<1>6. CASE SaveReference(r)
  BY <1>6, AskedLemma DEF SaveReference
<1>7. CASE DebitWallet(r)
  BY <1>7, AskedLemma DEF DebitWallet
<1>8. CASE DebitError(r)
  BY <1>8, AskedLemma DEF DebitError
<1>9. CASE CreatePayment(r)
  BY <1>9, AskedLemma DEF CreatePayment
<1>10. CASE ChargeProvider(r)
  BY <1>10, AskedLemma DEF ChargeProvider
<1>11. CASE RecordCharge(r)
  BY <1>11, AskedLemma DEF RecordCharge
<1>12. CASE CreateApproval(r)
  BY <1>12, AskedLemma DEF CreateApproval
<1>13. CASE NoOneToApprove(r)
  BY <1>13, AskedLemma DEF NoOneToApprove
<1> QED BY <1>1, <1>2, <1>3, <1>4, <1>5, <1>6, <1>7, <1>8, <1>9, <1>10, <1>11, <1>12, <1>13
        DEF Create

\* So does every step of issueTicketsForBooking,
LEMMA IssueTyped ==
  ASSUME TypeInv, NEW r \in Requests, Issue(r)
  PROVE  TypeInv'
<1> USE DEF Goto, SetRefund, TypeInv, TypeOK, RowsOK, OutsideOK, ThreadOK, FixedOK,
            machine, rows, outside, fixed, After, RequestPcs, AfterSettling
<1>1. ASSUME NEW p \in Passengers, IssueTicket(r, p) PROVE TypeInv'
  BY <1>1, AskedLemma DEF IssueTicket
<1>2. CASE EndIssuing(r)
  BY <1>2, AskedLemma DEF EndIssuing
<1> QED BY <1>1, <1>2 DEF Issue

\* every step of performCancellation,
LEMMA CancelTyped ==
  ASSUME TypeInv, NEW r \in Requests, Cancel(r)
  PROVE  TypeInv'
<1> USE DEF Goto, SetRefund, TypeInv, TypeOK, RowsOK, OutsideOK, ThreadOK, FixedOK,
            machine, rows, outside, fixed, After, RequestPcs, AfterSettling
<1>1. CASE LoadForCancel(r)
  BY <1>1, AskedLemma DEF LoadForCancel
<1>2. CASE SupplierRefuses(r)
  BY <1>2, AskedLemma DEF SupplierRefuses
<1>3. CASE SupplierAgrees(r)
  BY <1>3, AskedLemma DEF SupplierAgrees
<1>4. CASE VoidTickets(r)
  BY <1>4, AskedLemma DEF VoidTickets
<1>5. CASE CreateRefund(r)
  BY <1>5, AskedLemma DEF CreateRefund
<1>6. CASE CreditWallet(r)
  BY <1>6, AskedLemma DEF CreditWallet
<1>7. CASE ReadPayment(r)
  BY <1>7, AskedLemma DEF ReadPayment
<1>8. CASE ProviderRefunds(r)
  BY <1>8, AskedLemma DEF ProviderRefunds
<1>9. CASE ProviderRefuses(r)
  BY <1>9, AskedLemma DEF ProviderRefuses
<1>10. CASE RecordProviderRefund(r)
  BY <1>10, AskedLemma DEF RecordProviderRefund
<1>11. CASE SettleError(r)
  BY <1>11, AskedLemma DEF SettleError
<1>12. CASE CloseRefund(r)
  BY <1>12, AskedLemma DEF CloseRefund
<1> QED BY <1>1, <1>2, <1>3, <1>4, <1>5, <1>6, <1>7, <1>8, <1>9, <1>10, <1>11, <1>12 DEF Cancel

\* and every step of decide.
LEMMA ApproveTyped ==
  ASSUME TypeInv, NEW r \in Requests, Approve(r)
  PROVE  TypeInv'
<1> USE DEF Goto, SetRefund, TypeInv, TypeOK, RowsOK, OutsideOK, ThreadOK, FixedOK,
            machine, rows, outside, fixed, After, RequestPcs, AfterSettling
<1>1. CASE LoadApproval(r)
  BY <1>1, AskedLemma DEF LoadApproval
<1>2. CASE Decide(r)
  BY <1>2, AskedLemma DEF Decide
<1> QED BY <1>1, <1>2 DEF Approve

\* A committed transition appends a row of statuses, and its caller goes on.
LEMMA CommitTyped ==
  ASSUME TypeInv, NEW r \in Requests, TransitionCommit(r)
  PROVE  TypeInv'
<1> USE DEF TypeInv, TypeOK
<1>1. /\ pc[r] \in DOMAIN After
      /\ tx[r] \in SM!HistoryRow
  BY DEF TransitionCommit, SM!Commit, SM!TypeOK, PendingIsAsked
<1>2. SM!TypeOK'
  BY <1>1 DEF TransitionCommit, SM!Commit, SM!TypeOK, SM!HistoryRow
<1>3. PendingIsAsked'
  BY DEF TransitionCommit, SM!Commit, SM!TypeOK, Goto, ThreadOK, PendingIsAsked
<1>4. ThreadOK'
  BY <1>1, AfterLemma DEF TransitionCommit, Goto, ThreadOK
<1>5. RowsOK' /\ OutsideOK' /\ FixedOK'
  BY DEF TransitionCommit, Goto, RowsOK, OutsideOK, FixedOK, rows, outside, fixed
<1> QED BY <1>2, <1>3, <1>4, <1>5

LEMMA TransitionTyped ==
  ASSUME TypeInv, NEW r \in Requests, Transition(r)
  PROVE  TypeInv'
<1>1. CASE TransitionRead(r)
  <2> USE DEF TypeInv, TypeOK
  <2>1. status \in Statuses /\ pc[r] \in Statuses
    BY <1>1, AfterLemma DEF TransitionRead, SM!Read, SM!TypeOK, SM!Statuses, Statuses
  <2>2. SM!TypeOK'
    BY <1>1, <2>1 DEF TransitionRead, SM!Read, SM!TypeOK, SM!HistoryRow, SM!Statuses, Statuses
  <2>3. PendingIsAsked'
    BY <1>1 DEF TransitionRead, SM!Read, SM!TypeOK, PendingIsAsked, thread
  <2>4. RowsOK' /\ OutsideOK' /\ FixedOK' /\ ThreadOK'
    BY <1>1 DEF TransitionRead, RowsOK, OutsideOK, FixedOK, ThreadOK, rows, outside, fixed, thread
  <2> QED BY <2>2, <2>3, <2>4
<1>2. CASE TransitionCommit(r)
  BY <1>2, CommitTyped
<1>3. CASE TransitionThrows(r)
  <2> USE DEF TypeInv, TypeOK
  <2>1. SM!TypeOK' /\ PendingIsAsked'
    BY <1>3 DEF TransitionThrows, Goto, SM!TypeOK, ThreadOK, PendingIsAsked, machine
  <2>2. ThreadOK'
    BY <1>3 DEF TransitionThrows, Goto, ThreadOK, RequestPcs
  <2>3. RowsOK' /\ OutsideOK' /\ FixedOK'
    BY <1>3 DEF TransitionThrows, Goto, RowsOK, OutsideOK, FixedOK, rows, outside, fixed
  <2> QED BY <2>1, <2>2, <2>3
<1> QED BY <1>1, <1>2, <1>3 DEF Transition

LEMMA CrashTyped ==
  ASSUME TypeInv, NEW r \in Requests, Crash(r)
  PROVE  TypeInv'
<1> USE DEF TypeInv, TypeOK
<1>1. SM!TypeOK' /\ PendingIsAsked'
  BY DEF Crash, Goto, SM!TypeOK, ThreadOK, PendingIsAsked
<1>2. ThreadOK'
  BY DEF Crash, Goto, ThreadOK, RequestPcs
<1>3. RowsOK' /\ OutsideOK' /\ FixedOK'
  BY DEF Crash, Goto, RowsOK, OutsideOK, FixedOK, rows, outside, fixed
<1> QED BY <1>1, <1>2, <1>3

LEMMA AlwaysTyped == Spec => []TypeInv
<1>1. TypeInv /\ [Next]_vars => TypeInv'
  <2> SUFFICES ASSUME TypeInv, [Next]_vars PROVE TypeInv'
    OBVIOUS
  <2>1. ASSUME NEW r \in Requests, Step(r) PROVE TypeInv'
    BY <2>1, CreateTyped, IssueTyped, CancelTyped, ApproveTyped, TransitionTyped DEF Step
  <2>2. ASSUME NEW r \in Requests, Crash(r) PROVE TypeInv'
    BY <2>2, CrashTyped
  <2>3. CASE UNCHANGED vars
    BY <2>3 DEF vars, machine, rows, outside, thread, fixed, TypeInv, TypeOK, SM!TypeOK,
                RowsOK, OutsideOK, ThreadOK, FixedOK, PendingIsAsked
  <2> QED BY <2>1, <2>2, <2>3 DEF Next
<1> QED BY <1>1, InitTyped, PTL DEF Spec

\* The booking's rows, the requests that work on it and what suppliers and
\* provider did are well-formed at all times.
THEOREM FlightTypeCorrect == Spec => []TypeOK
BY AlwaysTyped, PTL DEF TypeInv

-----------------------------------------------------------------------------
(* Status and history are written by the state machine alone.              *)

LEMMA MachineStep ==
  ASSUME TypeInv, Next
  PROVE  SM!Next \/ UNCHANGED machine
<1>1. ASSUME NEW r \in Requests, Create(r) PROVE SM!Next \/ UNCHANGED machine
  BY <1>1 DEF Create, LookUpKey, RejectRequest, InsertBooking, InsertConflict,
              SupplierBook, SaveReference, DebitWallet, DebitError, CreatePayment,
              ChargeProvider, RecordCharge, CreateApproval, NoOneToApprove, SM!Next
<1>2. ASSUME NEW r \in Requests, Issue(r) \/ Cancel(r) \/ Approve(r)
      PROVE  UNCHANGED machine
  BY <1>2 DEF machine, Issue, IssueTicket, EndIssuing, Cancel, LoadForCancel, SupplierRefuses,
              SupplierAgrees, VoidTickets, CreateRefund, SetRefund, CreditWallet, ReadPayment,
              ProviderRefunds, ProviderRefuses, RecordProviderRefund, SettleError,
              CloseRefund, Approve, LoadApproval, Decide
<1>3. ASSUME NEW r \in Requests, Transition(r) PROVE SM!Next \/ UNCHANGED machine
  <2>1. CASE TransitionRead(r)
    BY <2>1, AfterLemma DEF TransitionRead, SM!Next, SM!Statuses, Statuses
  <2>2. CASE TransitionCommit(r)
    BY <2>2 DEF TransitionCommit, SM!Next
  <2>3. CASE TransitionThrows(r)
    BY <2>3 DEF TransitionThrows
  <2> QED BY <1>3, <2>1, <2>2, <2>3 DEF Transition
<1>4. ASSUME NEW r \in Requests, Crash(r) PROVE SM!Next \/ UNCHANGED machine
  <2>1. CASE tx[r] = SM!NoTx
    BY <1>4, <2>1 DEF Crash, machine, TypeInv, TypeOK, SM!TypeOK
  <2>2. CASE tx[r] # SM!NoTx
    BY <1>4, <2>2 DEF Crash, SM!Next, SM!Rollback
  <2> QED BY <2>1, <2>2
<1> QED BY <1>1, <1>2, <1>3, <1>4 DEF Next, Step

\* However many requests work on the booking and wherever they die, its
\* status and history change as StatusMachine says: FlightBooking implements it.
THEOREM FlightMovesByStateMachine == Spec => MovesByStateMachine
<1>1. Init => SM!Init
  BY DEF Init
<1>2. TypeInv /\ [Next]_vars => [SM!Next]_(SM!vars)
  BY MachineStep DEF SM!vars, vars, machine
<1> QED BY <1>1, <1>2, AlwaysTyped, PTL DEF Spec, MovesByStateMachine, SM!Spec

-----------------------------------------------------------------------------
(* The inductive invariants.                                               *)

\* Where a request is between its INSERT of the booking and the confirmation,
\* and between that and the end of its creation.
BeforeConfirmed ==
  {"PRICE_PENDING", "PRICE_CONFIRMED", "BOOKING_PENDING", "supplierBook",
   "saveReference", "CONFIRMED", "FAILED"}
CreatingPcs == BeforeConfirmed \cup {"settle", "charge", "recordCharge", "approval"}

\* The requests that create the booking, or did so far enough to leave a trace
\* at the supplier or the provider.
Working == booked \cup Charged \cup {r \in Requests : pc[r] \in CreatingPcs}

\* The unique key lets one request past its INSERT.
OneWorker ==
  /\ status = SM!NoBooking => Working = {}
  /\ \A r, q \in Working : r = q

Untouched == Charged = {} /\ "debit" \notin walletRows

\* Money waits for the confirmation, and a FAILED booking is never worked on.
MoneyInv ==
  /\ status = SM!NoBooking => Untouched
  /\ \A r \in Requests : pc[r] \in BeforeConfirmed => Untouched
  /\ \A r \in Requests : pc[r] \in {"settle", "charge"} => Recorded("CONFIRMED")
  /\ ~Untouched => Recorded("CONFIRMED")
  /\ status = "FAILED" =>
       Untouched /\ \A r \in Requests : pc[r] \notin {"settle", "charge"}

\* A request that asks for CANCELLED or REFUND_PENDING has been to the supplier.
ReleaseInv ==
  /\ \A r \in Requests :
       /\ pc[r] = "CANCELLED" /\ "cancelBooking" \in adapter => released
       /\ pc[r] = "REFUND_PENDING" /\ "refundBooking" \in adapter => released
  /\ SupplierReleasedFirst

\* An approval is decided by an approver, and tickets wait for it.
OneApprover == \A a, b \in Approvers : a = b
NoTicketing == issued = {} /\ \A r \in Requests : pc[r] # "issue"
ApprovalInv ==
  /\ status = SM!NoBooking => approval = "none"
  /\ \A r \in Requests :
       /\ pc[r] \in CreatingPcs => approval = "none"
       /\ pc[r] \in {"loadApproval", "decide"} => r \in Approvers
       /\ pc[r] = "decide" => approval # "none"
       /\ pc[r] = "decide" /\ OneApprover => approval = "PENDING"
  /\ channel = "CORPORATE" /\ approval \in {"none", "PENDING"} => NoTicketing
  /\ channel = "CORPORATE" /\ approval = "REJECTED" /\ OneApprover => NoTicketing

\* Requests that committed a cancellation and have yet to make the refund row,
\* and those that have made it.
Owed == {r \in Requests : pc[r] \in {"voidTickets", "createRefund"}}
Refunded == {r \in Requests : refunds[r] # "none"}
SettlingPcs ==
  {"settleRefund", "providerRefund", "recordRefunded", "recordRefundFailed",
   "completeRefund", "rejectRefund"}
RefundInv ==
  /\ Cardinality(Owed \cup Refunded) <= Cardinality(CancelMoves)
  /\ \A r \in Requests : pc[r] \in SettlingPcs => refunds[r] # "none"
  /\ "refund" \in walletRows => Refunded # {}
  /\ \A r \in paidBack : refunds[r] # "none"

-----------------------------------------------------------------------------
(* One supplier booking and one charge.                                    *)

\* Working changes only where its parts do.
LEMMA WorkingShrinks ==
  ASSUME OneWorker, Working' \subseteq Working,
         status' = SM!NoBooking => status = SM!NoBooking
  PROVE  OneWorker'
BY DEF OneWorker

\* A transition leads on from a creating request to a creating request only.
LEMMA AfterCreating ==
  ASSUME NEW s \in DOMAIN After, After[s] \in CreatingPcs
  PROVE  s \in CreatingPcs
BY DEF After, CreatingPcs, BeforeConfirmed

LEMMA CreateKeepsOne ==
  ASSUME TypeInv, OneWorker, NEW r \in Requests, Create(r)
  PROVE  OneWorker'
<1> USE DEF TypeInv, TypeOK, ThreadOK, OutsideOK, Goto, machine, outside,
            Working, Charged, CreatingPcs, BeforeConfirmed
<1>1. CASE LookUpKey(r) \/ RejectRequest(r) \/ InsertConflict(r)
  BY <1>1, WorkingShrinks DEF LookUpKey, RejectRequest, InsertConflict
<1>2. CASE InsertBooking(r)
  <2>1. Working = {} /\ status' # SM!NoBooking
    BY <1>2 DEF InsertBooking, SM!Create, SM!NoBooking, OneWorker
  <2>2. Working' \subseteq {r}
    BY <1>2, <2>1 DEF InsertBooking
  <2> QED BY <2>1, <2>2 DEF OneWorker
<1>3. CASE SupplierBook(r)
  BY <1>3, WorkingShrinks DEF SupplierBook
<1>4. CASE SaveReference(r)
  BY <1>4, WorkingShrinks DEF SaveReference
<1>5. CASE DebitWallet(r) \/ DebitError(r)
  BY <1>5, WorkingShrinks DEF DebitWallet, DebitError, AfterSettling
<1>6. CASE CreatePayment(r)
  BY <1>6, WorkingShrinks DEF CreatePayment
<1>7. CASE ChargeProvider(r)
  BY <1>7, WorkingShrinks DEF ChargeProvider
<1>8. CASE RecordCharge(r)
  BY <1>8, WorkingShrinks DEF RecordCharge, AfterSettling
<1>9. CASE CreateApproval(r) \/ NoOneToApprove(r)
  BY <1>9, WorkingShrinks DEF CreateApproval, NoOneToApprove
<1> QED BY <1>1, <1>2, <1>3, <1>4, <1>5, <1>6, <1>7, <1>8, <1>9 DEF Create

LEMMA OthersKeepOne ==
  ASSUME TypeInv, OneWorker, NEW r \in Requests, Issue(r) \/ Cancel(r) \/ Approve(r)
  PROVE  OneWorker'
<1> USE DEF TypeInv, TypeOK, ThreadOK, OutsideOK, Goto, SetRefund, machine, outside,
            Working, Charged, CreatingPcs, BeforeConfirmed
<1>1. CASE Issue(r)
  BY <1>1, WorkingShrinks DEF Issue, IssueTicket, EndIssuing
<1>2. CASE Cancel(r)
  BY <1>2, WorkingShrinks DEF Cancel, LoadForCancel, SupplierRefuses, SupplierAgrees,
     VoidTickets, CreateRefund, CreditWallet, ReadPayment, ProviderRefunds,
     ProviderRefuses, RecordProviderRefund, SettleError, CloseRefund
<1>3. CASE Approve(r)
  BY <1>3, WorkingShrinks DEF Approve, LoadApproval, Decide
<1> QED BY <1>1, <1>2, <1>3

LEMMA MachineKeepsOne ==
  ASSUME TypeInv, OneWorker, NEW r \in Requests, Transition(r) \/ Crash(r)
  PROVE  OneWorker'
<1> USE DEF TypeInv, TypeOK, ThreadOK, OutsideOK, Goto, machine, outside, Working, Charged
<1>1. CASE TransitionRead(r)
  BY <1>1, WorkingShrinks DEF TransitionRead, SM!Read, thread
<1>2. CASE TransitionCommit(r)
  <2>1. /\ tx[r] \in SM!HistoryRow
        /\ pc[r] \in DOMAIN After
    BY <1>2 DEF TransitionCommit, SM!Commit, SM!TypeOK, PendingIsAsked
  <2>2. status' # SM!NoBooking
    BY <1>2, <2>1 DEF TransitionCommit, SM!Commit, SM!HistoryRow, SM!Statuses, SM!NoBooking
  <2>3. Working' \subseteq Working
    BY <1>2, <2>1, AfterCreating DEF TransitionCommit
  <2> QED BY <2>2, <2>3, WorkingShrinks
<1>3. CASE TransitionThrows(r)
  BY <1>3, WorkingShrinks DEF TransitionThrows, CreatingPcs, BeforeConfirmed
<1>4. CASE Crash(r)
  BY <1>4, WorkingShrinks DEF Crash, CreatingPcs, BeforeConfirmed
<1> QED BY <1>1, <1>2, <1>3, <1>4 DEF Transition

LEMMA AlwaysOneWorker == Spec => []OneWorker
<1>1. Init => OneWorker
  BY DEF Init, OneWorker, Working, Charged, CreatingPcs, BeforeConfirmed
<1>2. TypeInv /\ OneWorker /\ [Next]_vars => OneWorker'
  <2> SUFFICES ASSUME TypeInv, OneWorker, [Next]_vars PROVE OneWorker'
    OBVIOUS
  <2>1. ASSUME NEW r \in Requests, Step(r) \/ Crash(r) PROVE OneWorker'
    BY <2>1, CreateKeepsOne, OthersKeepOne, MachineKeepsOne DEF Step
  <2>2. CASE UNCHANGED vars
    BY <2>2 DEF vars, machine, outside, thread, OneWorker, Working, Charged
  <2> QED BY <2>1, <2>2 DEF Next
<1> QED BY <1>1, <1>2, AlwaysTyped, PTL DEF Spec

\* "a retried request with the same key returns the exact booking the first
\* attempt produced, never a second one": the supplier books and the provider
\* charges for at most one of any number of requests.
THEOREM OneBookingPerKeyAlways == Spec => []OneBookingPerKey
<1>1. OneWorker => OneBookingPerKey
  BY DEF OneWorker, OneBookingPerKey, Working
<1> QED BY <1>1, AlwaysOneWorker, PTL

-----------------------------------------------------------------------------
(* Money waits for the confirmation.                                       *)

\* The request that creates the booking is the only one that does.
LEMMA Alone ==
  ASSUME OneWorker, NEW r \in Requests, pc[r] \in CreatingPcs
  PROVE  /\ status # SM!NoBooking
         /\ booked \subseteq {r} /\ Charged \subseteq {r}
         /\ \A q \in Requests : q # r => pc[q] \notin CreatingPcs
BY DEF OneWorker, Working

\* What has been recorded stays recorded, and a commit records its status.
LEMMA CommitRecords ==
  ASSUME TypeInv, NEW r \in Requests, TransitionCommit(r)
  PROVE  /\ pc[r] \in DOMAIN After
         /\ status' = pc[r]
         /\ status' # SM!NoBooking
         /\ \A s \in Statuses : Recorded(s)' <=> Recorded(s) \/ s = pc[r]
<1>1. /\ tx[r] \in SM!HistoryRow
      /\ pc[r] \in DOMAIN After
      /\ tx[r].to = pc[r]
  BY DEF TransitionCommit, SM!Commit, TypeInv, TypeOK, SM!TypeOK, PendingIsAsked
<1>2. /\ history \in Seq(SM!HistoryRow)
      /\ history' = Append(history, tx[r])
      /\ status' = tx[r].to
  BY DEF TransitionCommit, SM!Commit, TypeInv, TypeOK, SM!TypeOK
<1>3. /\ DOMAIN history' = DOMAIN history \cup {Len(history) + 1}
      /\ history'[Len(history) + 1] = tx[r]
      /\ \A i \in DOMAIN history : history'[i] = history[i]
  BY <1>1, <1>2
<1>4. status' # SM!NoBooking
  BY <1>1, <1>2 DEF SM!HistoryRow, SM!Statuses, SM!NoBooking
<1>5. ASSUME NEW s \in Statuses PROVE Recorded(s)' <=> Recorded(s) \/ s = pc[r]
  BY <1>1, <1>3 DEF Recorded
<1> QED BY <1>1, <1>2, <1>4, <1>5

LEMMA CreateKeepsMoney ==
  ASSUME TypeInv, OneWorker, MoneyInv, NEW r \in Requests, Create(r)
  PROVE  MoneyInv'
<1> USE DEF TypeInv, TypeOK, ThreadOK, OutsideOK, Goto, machine, rows, outside,
            MoneyInv, Untouched, Charged, Recorded
<1>1. CASE LookUpKey(r) \/ RejectRequest(r) \/ InsertConflict(r)
  BY <1>1 DEF LookUpKey, RejectRequest, InsertConflict, BeforeConfirmed
<1>2. CASE InsertBooking(r)
  BY <1>2 DEF InsertBooking, SM!Create, SM!NoBooking, BeforeConfirmed
<1>3. CASE SupplierBook(r)
  BY <1>3 DEF SupplierBook, BeforeConfirmed
<1>4. CASE SaveReference(r)
  BY <1>4 DEF SaveReference, BeforeConfirmed
<1>5. CASE DebitWallet(r)
  <2>1. pc[r] = "settle"
    BY <1>5 DEF DebitWallet
  <2>2. /\ Recorded("CONFIRMED") /\ status \notin {"FAILED", SM!NoBooking}
        /\ \A q \in Requests : q # r => pc[q] \notin BeforeConfirmed
    BY <2>1, Alone DEF CreatingPcs
  <2> QED BY <1>5, <2>1, <2>2 DEF DebitWallet, AfterSettling, BeforeConfirmed
<1>6. CASE DebitError(r)
  BY <1>6 DEF DebitError, BeforeConfirmed
<1>7. CASE CreatePayment(r)
  BY <1>7 DEF CreatePayment, BeforeConfirmed
<1>8. CASE ChargeProvider(r)
  <2>1. pc[r] = "charge"
    BY <1>8 DEF ChargeProvider
  <2>2. /\ Recorded("CONFIRMED") /\ status \notin {"FAILED", SM!NoBooking}
        /\ \A q \in Requests : q # r => pc[q] \notin BeforeConfirmed
    BY <2>1, Alone DEF CreatingPcs
  <2> QED BY <1>8, <2>1, <2>2 DEF ChargeProvider, BeforeConfirmed
<1>9. CASE RecordCharge(r) \/ CreateApproval(r) \/ NoOneToApprove(r)
  BY <1>9 DEF RecordCharge, CreateApproval, NoOneToApprove, AfterSettling, BeforeConfirmed
<1> QED BY <1>1, <1>2, <1>3, <1>4, <1>5, <1>6, <1>7, <1>8, <1>9 DEF Create

LEMMA OthersKeepMoney ==
  ASSUME TypeInv, MoneyInv, NEW r \in Requests, Issue(r) \/ Cancel(r) \/ Approve(r)
  PROVE  MoneyInv'
<1> USE DEF TypeInv, TypeOK, ThreadOK, Goto, SetRefund, machine, rows, outside,
            MoneyInv, Untouched, Charged, Recorded, BeforeConfirmed
<1>1. CASE Issue(r)
  BY <1>1 DEF Issue, IssueTicket, EndIssuing
<1>2. CASE Cancel(r)
  BY <1>2 DEF Cancel, LoadForCancel, SupplierRefuses, SupplierAgrees, VoidTickets,
     CreateRefund, CreditWallet, ReadPayment, ProviderRefunds, ProviderRefuses,
     RecordProviderRefund, SettleError, CloseRefund
<1>3. CASE Approve(r)
  BY <1>3 DEF Approve, LoadApproval, Decide
<1> QED BY <1>1, <1>2, <1>3

LEMMA MachineKeepsMoney ==
  ASSUME TypeInv, OneWorker, MoneyInv, NEW r \in Requests, Transition(r) \/ Crash(r)
  PROVE  MoneyInv'
<1> USE DEF TypeInv, TypeOK, ThreadOK, Goto, machine, rows, outside,
            MoneyInv, Untouched, Charged
<1>1. CASE TransitionRead(r)
  BY <1>1 DEF TransitionRead, SM!Read, thread, Recorded
<1>2. CASE TransitionCommit(r)
  <2>1. /\ status' = pc[r] /\ status' # SM!NoBooking
        /\ Recorded("CONFIRMED")' <=> Recorded("CONFIRMED") \/ pc[r] = "CONFIRMED"
    BY <1>2, CommitRecords DEF Statuses
  <2>2. /\ pc[r] \in DOMAIN After
        /\ pc' = [pc EXCEPT ![r] = After[pc[r]]]
        /\ UNCHANGED <<charge, walletRows>>
    BY <1>2, CommitRecords DEF TransitionCommit
  <2>3. /\ After[pc[r]] \in BeforeConfirmed => pc[r] \in BeforeConfirmed
        /\ After[pc[r]] \in {"settle", "charge"} => pc[r] = "CONFIRMED"
    BY <2>2 DEF After, BeforeConfirmed
  <2>4. pc[r] = "FAILED" => /\ Untouched /\ After[pc[r]] = "done"
                            /\ \A q \in Requests : q # r => pc[q] \notin {"settle", "charge"}
    BY Alone DEF After, BeforeConfirmed, CreatingPcs
  <2>5. \A q \in Requests : pc'[q] \in BeforeConfirmed => Untouched'
    BY <2>2, <2>3
  <2>6. \A q \in Requests : pc'[q] \in {"settle", "charge"} => Recorded("CONFIRMED")'
    BY <2>1, <2>2, <2>3
  <2>7. ~Untouched' => Recorded("CONFIRMED")'
    BY <2>1, <2>2
  <2>8. status' = "FAILED" =>
          Untouched' /\ \A q \in Requests : pc'[q] \notin {"settle", "charge"}
    BY <2>1, <2>2, <2>4
  <2> QED BY <2>1, <2>5, <2>6, <2>7, <2>8
<1>3. CASE TransitionThrows(r)
  BY <1>3 DEF TransitionThrows, BeforeConfirmed, Recorded
<1>4. CASE Crash(r)
  BY <1>4 DEF Crash, BeforeConfirmed, Recorded
<1> QED BY <1>1, <1>2, <1>3, <1>4 DEF Transition

LEMMA AlwaysMoneyInv == Spec => []MoneyInv
<1>1. Init => MoneyInv
  BY DEF Init, SM!Init, SM!NoBooking, MoneyInv, Untouched, Charged, BeforeConfirmed
<1>2. TypeInv /\ OneWorker /\ MoneyInv /\ [Next]_vars => MoneyInv'
  <2> SUFFICES ASSUME TypeInv, OneWorker, MoneyInv, [Next]_vars PROVE MoneyInv'
    OBVIOUS
  <2>1. ASSUME NEW r \in Requests, Step(r) \/ Crash(r) PROVE MoneyInv'
    BY <2>1, CreateKeepsMoney, OthersKeepMoney, MachineKeepsMoney DEF Step
  <2>2. CASE UNCHANGED vars
    BY <2>2 DEF vars, machine, rows, outside, thread, MoneyInv, Untouched, Charged, Recorded
  <2> QED BY <2>1, <2>2 DEF Next
<1> QED BY <1>1, <1>2, AlwaysTyped, AlwaysOneWorker, PTL DEF Spec

\* "a failed/declined attempt (above) never touches the wallet at all": money
\* is taken only for a booking that reached CONFIRMED, never for a FAILED one.
THEOREM MoneyAfterConfirmation == Spec => []NoMoneyBeforeConfirmation
<1>1. MoneyInv => NoMoneyBeforeConfirmation
  BY DEF MoneyInv, Untouched, NoMoneyBeforeConfirmation
<1> QED BY <1>1, AlwaysMoneyInv, PTL

-----------------------------------------------------------------------------
(* The supplier is asked first.                                            *)

LEMMA RequestKeepsRelease ==
  ASSUME TypeInv, ReleaseInv, NEW r \in Requests,
         Create(r) \/ Issue(r) \/ Cancel(r) \/ Approve(r)
  PROVE  ReleaseInv'
<1> USE DEF TypeInv, TypeOK, OutsideOK, ThreadOK, Goto, SetRefund, machine, outside, fixed,
            ReleaseInv, SupplierReleasedFirst, Recorded
<1>1. CASE Create(r)
  BY <1>1 DEF Create, LookUpKey, RejectRequest, InsertBooking, SM!Create, InsertConflict,
     SupplierBook, SaveReference, DebitWallet, DebitError, CreatePayment, ChargeProvider,
     RecordCharge, CreateApproval, NoOneToApprove, AfterSettling
<1>2. CASE Issue(r) \/ Approve(r)
  BY <1>2 DEF Issue, IssueTicket, EndIssuing, Approve, LoadApproval, Decide
<1>3. CASE SupplierAgrees(r)
  <2>1. /\ released => released'
        /\ pc'[r] = "CANCELLED" /\ "cancelBooking" \in adapter => released'
        /\ pc'[r] = "REFUND_PENDING" /\ "refundBooking" \in adapter => released'
    BY <1>3 DEF SupplierAgrees, UndoMethod
  <2> QED BY <1>3, <2>1 DEF SupplierAgrees
<1>4. CASE Cancel(r) /\ ~SupplierAgrees(r)
  BY <1>4 DEF Cancel, LoadForCancel, SupplierRefuses, VoidTickets,
     CreateRefund, CreditWallet, ReadPayment, ProviderRefunds, ProviderRefuses,
     RecordProviderRefund, SettleError, CloseRefund
<1> QED BY <1>1, <1>2, <1>3, <1>4

LEMMA MachineKeepsRelease ==
  ASSUME TypeInv, ReleaseInv, NEW r \in Requests, Transition(r) \/ Crash(r)
  PROVE  ReleaseInv'
<1> USE DEF TypeInv, TypeOK, OutsideOK, ThreadOK, Goto, machine, outside, fixed,
            ReleaseInv, SupplierReleasedFirst
<1>1. CASE TransitionRead(r)
  BY <1>1 DEF TransitionRead, SM!Read, thread, Recorded
<1>2. CASE TransitionCommit(r)
  <2>1. /\ Recorded("CANCELLED")' <=> Recorded("CANCELLED") \/ pc[r] = "CANCELLED"
        /\ Recorded("REFUND_PENDING")'
             <=> Recorded("REFUND_PENDING") \/ pc[r] = "REFUND_PENDING"
        /\ pc[r] \in DOMAIN After
    BY <1>2, CommitRecords DEF Statuses
  <2>2. After[pc[r]] \notin {"CANCELLED", "REFUND_PENDING"}
    BY <2>1 DEF After
  <2>3. /\ pc' = [pc EXCEPT ![r] = After[pc[r]]]
        /\ UNCHANGED <<released, adapter>>
    BY <1>2 DEF TransitionCommit
  <2> QED BY <2>1, <2>2, <2>3
<1>3. CASE TransitionThrows(r)
  BY <1>3 DEF TransitionThrows, Recorded
<1>4. CASE Crash(r)
  BY <1>4 DEF Crash, Recorded
<1> QED BY <1>1, <1>2, <1>3, <1>4 DEF Transition

\* "never flip our own state before the supplier confirms": a booking that was
\* ever moved to CANCELLED or REFUND_PENDING is one the supplier has let go.
THEOREM SupplierReleasedFirstAlways == Spec => []SupplierReleasedFirst
<1>1. Init => ReleaseInv
  BY DEF Init, SM!Init, ReleaseInv, SupplierReleasedFirst, Recorded
<1>2. TypeInv /\ ReleaseInv /\ [Next]_vars => ReleaseInv'
  <2> SUFFICES ASSUME TypeInv, ReleaseInv, [Next]_vars PROVE ReleaseInv'
    OBVIOUS
  <2>1. ASSUME NEW r \in Requests, Step(r) \/ Crash(r) PROVE ReleaseInv'
    BY <2>1, RequestKeepsRelease, MachineKeepsRelease DEF Step
  <2>2. CASE UNCHANGED vars
    BY <2>2 DEF vars, machine, outside, thread, fixed, ReleaseInv, SupplierReleasedFirst, Recorded
  <2> QED BY <2>1, <2>2 DEF Next
<1>3. ReleaseInv => SupplierReleasedFirst
  BY DEF ReleaseInv
<1> QED BY <1>1, <1>2, <1>3, AlwaysTyped, PTL DEF Spec

-----------------------------------------------------------------------------
(* Tickets wait for the approval.                                          *)

LEMMA CreateKeepsApproval ==
  ASSUME TypeInv, OneWorker, ApprovalInv, NEW r \in Requests, Create(r)
  PROVE  ApprovalInv'
<1> USE DEF TypeInv, TypeOK, ThreadOK, Goto, machine, rows, fixed, ApprovalInv, NoTicketing
<1>1. CASE LookUpKey(r) \/ RejectRequest(r) \/ InsertConflict(r)
  BY <1>1 DEF LookUpKey, RejectRequest, InsertConflict, CreatingPcs, BeforeConfirmed
<1>2. CASE InsertBooking(r)
  BY <1>2 DEF InsertBooking, SM!Create, SM!NoBooking, CreatingPcs, BeforeConfirmed
<1>3. CASE SupplierBook(r) \/ SaveReference(r)
  BY <1>3 DEF SupplierBook, SaveReference, CreatingPcs, BeforeConfirmed
<1>4. CASE DebitWallet(r)
  BY <1>4 DEF DebitWallet, AfterSettling, CreatingPcs, BeforeConfirmed
<1>5. CASE DebitError(r) \/ CreatePayment(r) \/ ChargeProvider(r)
  BY <1>5 DEF DebitError, CreatePayment, ChargeProvider, CreatingPcs, BeforeConfirmed
<1>6. CASE RecordCharge(r)
  BY <1>6 DEF RecordCharge, AfterSettling, CreatingPcs, BeforeConfirmed
<1>7. CASE CreateApproval(r)
  <2>1. /\ approval = "none" /\ status # SM!NoBooking
        /\ \A q \in Requests : q # r => pc[q] \notin CreatingPcs
        /\ \A q \in Requests : pc[q] # "decide"
    BY <1>7, Alone DEF CreateApproval, CreatingPcs
  <2> QED BY <1>7, <2>1 DEF CreateApproval, CreatingPcs, BeforeConfirmed
<1>8. CASE NoOneToApprove(r)
  BY <1>8 DEF NoOneToApprove, CreatingPcs, BeforeConfirmed
<1> QED BY <1>1, <1>2, <1>3, <1>4, <1>5, <1>6, <1>7, <1>8 DEF Create

LEMMA OthersKeepApproval ==
  ASSUME TypeInv, OneWorker, ApprovalInv, NEW r \in Requests,
         Issue(r) \/ Cancel(r) \/ Approve(r)
  PROVE  ApprovalInv'
<1> USE DEF TypeInv, TypeOK, ThreadOK, Goto, SetRefund, machine, rows, fixed,
            ApprovalInv, NoTicketing
<1>1. CASE Issue(r)
  BY <1>1 DEF Issue, IssueTicket, EndIssuing, CreatingPcs, BeforeConfirmed
<1>2. CASE Cancel(r)
  BY <1>2 DEF Cancel, LoadForCancel, SupplierRefuses, SupplierAgrees, VoidTickets,
     CreateRefund, CreditWallet, ReadPayment, ProviderRefunds, ProviderRefuses,
     RecordProviderRefund, SettleError, CloseRefund,
     CreatingPcs, BeforeConfirmed
<1>3. CASE LoadApproval(r)
  BY <1>3 DEF LoadApproval, CreatingPcs, BeforeConfirmed
<1>4. CASE Decide(r)
  <2>1. /\ approval # "none" /\ r \in Approvers /\ status # SM!NoBooking
        /\ \A q \in Requests : pc[q] \notin CreatingPcs
        /\ approval' \in {"APPROVED", "REJECTED"}
        /\ pc' = [pc EXCEPT ![r] = pc'[r]] /\ pc'[r] \in {"load", "issue", "done"}
        /\ approval' = "REJECTED" => pc'[r] = "load"
        /\ UNCHANGED <<status, issued, channel>>
    BY <1>4 DEF Decide
  <2>2. OneApprover => \A q \in Requests : pc'[q] # "decide"
    BY <2>1 DEF OneApprover
  <2>3. OneApprover => approval = "PENDING"
    BY <1>4 DEF Decide
  <2> QED BY <2>1, <2>2, <2>3 DEF CreatingPcs, BeforeConfirmed
<1> QED BY <1>1, <1>2, <1>3, <1>4 DEF Approve

LEMMA MachineKeepsApproval ==
  ASSUME TypeInv, ApprovalInv, NEW r \in Requests, Transition(r) \/ Crash(r)
  PROVE  ApprovalInv'
<1> USE DEF TypeInv, TypeOK, ThreadOK, Goto, machine, rows, fixed, ApprovalInv, NoTicketing
<1>1. CASE TransitionRead(r)
  BY <1>1 DEF TransitionRead, SM!Read, thread
<1>2. CASE TransitionCommit(r)
  <2>1. /\ pc[r] \in DOMAIN After /\ status' # SM!NoBooking
        /\ pc' = [pc EXCEPT ![r] = After[pc[r]]]
        /\ UNCHANGED <<approval, issued, channel>>
    BY <1>2, CommitRecords DEF TransitionCommit
  <2>2. /\ After[pc[r]] \notin {"issue", "decide", "loadApproval"}
        /\ After[pc[r]] \in CreatingPcs => pc[r] \in CreatingPcs
    BY <2>1, AfterCreating DEF After
  <2> QED BY <2>1, <2>2
<1>3. CASE TransitionThrows(r)
  BY <1>3 DEF TransitionThrows, CreatingPcs, BeforeConfirmed
<1>4. CASE Crash(r)
  BY <1>4 DEF Crash, CreatingPcs, BeforeConfirmed
<1> QED BY <1>1, <1>2, <1>3, <1>4 DEF Transition

\* "Ticketing only happens once a CORPORATE_APPROVER decides": a corporate
\* booking is ticketed only after its approval was decided (or given by its
\* policy), and with one approver only after it was approved.
THEOREM TicketsWaitForApproval == Spec => []NoTicketBeforeApproval
<1>1. Init => ApprovalInv
  BY DEF Init, ApprovalInv, NoTicketing, Requests, CreatingPcs, BeforeConfirmed
<1>2. TypeInv /\ OneWorker /\ ApprovalInv /\ [Next]_vars => ApprovalInv'
  <2> SUFFICES ASSUME TypeInv, OneWorker, ApprovalInv, [Next]_vars PROVE ApprovalInv'
    OBVIOUS
  <2>1. ASSUME NEW r \in Requests, Step(r) \/ Crash(r) PROVE ApprovalInv'
    BY <2>1, CreateKeepsApproval, OthersKeepApproval, MachineKeepsApproval DEF Step
  <2>2. CASE UNCHANGED vars
    BY <2>2 DEF vars, machine, rows, thread, fixed, ApprovalInv, NoTicketing
  <2> QED BY <2>1, <2>2 DEF Next
<1>3. TypeInv /\ ApprovalInv => NoTicketBeforeApproval
  BY DEF TypeInv, TypeOK, RowsOK, ApprovalInv, NoTicketing, OneApprover, NoTicketBeforeApproval
<1> QED BY <1>1, <1>2, <1>3, AlwaysTyped, AlwaysOneWorker, PTL DEF Spec

-----------------------------------------------------------------------------
(* A refund for each cancellation, and no other.                           *)

LEMMA FiniteLemma ==
  ASSUME TypeInv
  PROVE  /\ IsFiniteSet(Owed \cup Refunded)
         /\ IsFiniteSet(CancelMoves)
<1>1. IsFiniteSet(Requests)
  BY FlightAssumption DEF Requests
<1>2. Owed \cup Refunded \subseteq Requests
  BY DEF Owed, Refunded
<1>3. IsFiniteSet(1 .. Len(history)) /\ CancelMoves \subseteq 1 .. Len(history)
  BY FS_Interval DEF TypeInv, TypeOK, SM!TypeOK, CancelMoves
<1> QED BY <1>1, <1>2, <1>3, FS_Subset

\* Steps that record nothing and owe no new refund row.
LEMMA OwesNoMore ==
  ASSUME TypeInv, RefundInv, UNCHANGED history,
         (Owed \cup Refunded)' \subseteq Owed \cup Refunded
  PROVE  Cardinality((Owed \cup Refunded)') <= Cardinality(CancelMoves')
<1>1. CancelMoves' = CancelMoves
  BY DEF CancelMoves
<1>2. /\ Cardinality((Owed \cup Refunded)') <= Cardinality(Owed \cup Refunded)
      /\ IsFiniteSet((Owed \cup Refunded)')
  BY FiniteLemma, FS_Subset
<1>3. /\ Cardinality(Owed \cup Refunded) \in Nat
      /\ Cardinality((Owed \cup Refunded)') \in Nat
      /\ Cardinality(CancelMoves) \in Nat
  BY <1>2, FiniteLemma, FS_CardinalityType
<1> QED BY <1>1, <1>2, <1>3 DEF RefundInv

\* A committed cancellation adds one move and at most one request that owes.
LEMMA CommitOwesOne ==
  ASSUME TypeInv, RefundInv, NEW r \in Requests, TransitionCommit(r)
  PROVE  Cardinality((Owed \cup Refunded)') <= Cardinality(CancelMoves')
<1> DEFINE i == Len(history) + 1
<1>1. /\ pc[r] \in DOMAIN After /\ tx[r].to = pc[r] /\ tx[r] \in SM!HistoryRow
      /\ history \in Seq(SM!HistoryRow)
      /\ history' = Append(history, tx[r])
      /\ pc' = [pc EXCEPT ![r] = After[pc[r]]]
      /\ UNCHANGED refunds
  BY DEF TransitionCommit, SM!Commit, Goto, rows, TypeInv, TypeOK, SM!TypeOK, PendingIsAsked
<1>2. /\ DOMAIN history' = DOMAIN history \cup {i}
      /\ i \notin DOMAIN history
      /\ history'[i] = tx[r]
      /\ \A j \in DOMAIN history : history'[j] = history[j]
  BY <1>1
<1>3. /\ Cardinality(Owed \cup Refunded) \in Nat
      /\ Cardinality(CancelMoves) \in Nat
  BY FiniteLemma, FS_CardinalityType
<1>4. CASE pc[r] \in {"CANCELLED", "REFUND_PENDING"}
  <2>1. CancelMoves' = CancelMoves \cup {i} /\ i \notin CancelMoves
    BY <1>1, <1>2, <1>4 DEF CancelMoves
  <2>2. Cardinality(CancelMoves') = Cardinality(CancelMoves) + 1
    BY <2>1, FiniteLemma, FS_AddElement
  <2>3. (Owed \cup Refunded)' \subseteq (Owed \cup Refunded) \cup {r}
    BY <1>1, <1>4 DEF Owed, Refunded, TypeInv, TypeOK, ThreadOK
  <2>4. /\ IsFiniteSet((Owed \cup Refunded) \cup {r})
        /\ Cardinality((Owed \cup Refunded) \cup {r}) <= Cardinality(Owed \cup Refunded) + 1
    BY <1>3, FiniteLemma, FS_AddElement
  <2>5. /\ Cardinality((Owed \cup Refunded)') <= Cardinality((Owed \cup Refunded) \cup {r})
        /\ Cardinality((Owed \cup Refunded)') \in Nat
        /\ Cardinality((Owed \cup Refunded) \cup {r}) \in Nat
    BY <2>3, <2>4, FS_Subset, FS_CardinalityType
  <2> QED BY <1>3, <2>2, <2>4, <2>5 DEF RefundInv
<1>5. CASE pc[r] \notin {"CANCELLED", "REFUND_PENDING"}
  <2>1. After[pc[r]] \notin {"voidTickets", "createRefund"}
    BY <1>1, <1>5 DEF After
  <2>2. (Owed \cup Refunded)' \subseteq Owed \cup Refunded
    BY <1>1, <2>1 DEF Owed, Refunded, TypeInv, TypeOK, ThreadOK
  <2>3. CancelMoves' = CancelMoves
    BY <1>1, <1>2, <1>5 DEF CancelMoves
  <2>4. /\ Cardinality((Owed \cup Refunded)') <= Cardinality(Owed \cup Refunded)
        /\ Cardinality((Owed \cup Refunded)') \in Nat
    BY <2>2, FiniteLemma, FS_Subset, FS_CardinalityType
  <2> QED BY <1>3, <2>3, <2>4 DEF RefundInv
<1> QED BY <1>4, <1>5

LEMMA RequestKeepsRefund ==
  ASSUME TypeInv, RefundInv, NEW r \in Requests,
         Create(r) \/ Issue(r) \/ Cancel(r) \/ Approve(r)
  PROVE  RefundInv'
<1> USE DEF TypeInv, TypeOK, RowsOK, OutsideOK, ThreadOK, Goto, SetRefund, machine, rows,
            outside, Owed, Refunded
<1>1. UNCHANGED history /\ (Owed \cup Refunded)' \subseteq Owed \cup Refunded
  <2>1. CASE Create(r)
    BY <2>1 DEF Create, LookUpKey, RejectRequest, InsertBooking, SM!Create, InsertConflict,
       SupplierBook, SaveReference, DebitWallet, DebitError, CreatePayment, ChargeProvider,
       RecordCharge, CreateApproval, NoOneToApprove, AfterSettling
  <2>2. CASE Issue(r) \/ Approve(r)
    BY <2>2 DEF Issue, IssueTicket, EndIssuing, Approve, LoadApproval, Decide
  <2>3. CASE CloseRefund(r)
    BY <2>3 DEF CloseRefund, RefundInv, SettlingPcs
  <2>4. CASE Cancel(r) /\ ~CloseRefund(r)
    BY <2>4 DEF Cancel, LoadForCancel, SupplierRefuses, SupplierAgrees, VoidTickets,
       CreateRefund, CreditWallet, ReadPayment, ProviderRefunds, ProviderRefuses,
       RecordProviderRefund, SettleError
  <2> QED BY <2>1, <2>2, <2>3, <2>4
<1>2. /\ \A q \in Requests : pc'[q] \in SettlingPcs => refunds'[q] # "none"
      /\ "refund" \in walletRows' => Refunded' # {}
      /\ \A q \in paidBack' : refunds'[q] # "none"
  <2> USE DEF RefundInv, SettlingPcs
  <2>1. CASE Create(r)
    BY <2>1 DEF Create, LookUpKey, RejectRequest, InsertBooking, SM!Create, InsertConflict,
       SupplierBook, SaveReference, DebitWallet, DebitError, CreatePayment, ChargeProvider,
       RecordCharge, CreateApproval, NoOneToApprove, AfterSettling
  <2>2. CASE Issue(r) \/ Approve(r)
    BY <2>2 DEF Issue, IssueTicket, EndIssuing, Approve, LoadApproval, Decide
  <2>3. CASE Cancel(r)
    BY <2>3 DEF Cancel, LoadForCancel, SupplierRefuses, SupplierAgrees, VoidTickets,
       CreateRefund, CreditWallet, ReadPayment, ProviderRefunds, ProviderRefuses,
       RecordProviderRefund, SettleError, CloseRefund
  <2> QED BY <2>1, <2>2, <2>3
<1> HIDE DEF TypeInv, Owed, Refunded
<1>3. Cardinality((Owed \cup Refunded)') <= Cardinality(CancelMoves')
  BY <1>1, OwesNoMore
<1> QED BY <1>2, <1>3 DEF RefundInv

LEMMA MachineKeepsRefund ==
  ASSUME TypeInv, RefundInv, NEW r \in Requests, Transition(r) \/ Crash(r)
  PROVE  RefundInv'
<1>1. Cardinality((Owed \cup Refunded)') <= Cardinality(CancelMoves')
  <2>1. CASE TransitionCommit(r)
    BY <2>1, CommitOwesOne
  <2>2. CASE TransitionRead(r) \/ TransitionThrows(r) \/ Crash(r)
    <3>1. UNCHANGED history /\ (Owed \cup Refunded)' \subseteq Owed \cup Refunded
      BY <2>2 DEF TransitionRead, SM!Read, TransitionThrows, Crash, Goto, machine, rows,
         thread, TypeInv, TypeOK, ThreadOK, Owed, Refunded
    <3> QED BY <3>1, OwesNoMore
  <2> QED BY <2>1, <2>2 DEF Transition
<1>2. /\ \A q \in Requests : pc'[q] \in SettlingPcs => pc[q] \in SettlingPcs
      /\ UNCHANGED <<refunds, walletRows, paidBack>>
  <2>1. CASE TransitionCommit(r)
    <3>1. pc[r] \in DOMAIN After
      BY <2>1, CommitRecords
    <3>2. After[pc[r]] \notin SettlingPcs
      BY <3>1 DEF After, SettlingPcs
    <3> QED BY <2>1, <3>2 DEF TransitionCommit, Goto, rows, outside, TypeInv, TypeOK, ThreadOK
  <2>2. CASE TransitionRead(r) \/ TransitionThrows(r) \/ Crash(r)
    BY <2>2 DEF TransitionRead, TransitionThrows, Crash, Goto, rows, outside,
       thread, TypeInv, TypeOK, ThreadOK, SettlingPcs
  <2> QED BY <2>1, <2>2 DEF Transition
<1>3. Refunded' = Refunded
  BY <1>2 DEF Refunded
<1> QED BY <1>1, <1>2, <1>3 DEF RefundInv

\* There are never more refund rows than committed cancellations, whatever
\* requests overlap, and money goes back only through a refund row.
THEOREM RefundsFollowCancellationsAlways == Spec => []RefundsFollowCancellations
<1>1. Init => RefundInv
  <2>1. ASSUME Init PROVE Owed \cup Refunded = {} /\ CancelMoves = {}
    BY <2>1 DEF Init, SM!Init, Owed, Refunded, CancelMoves
  <2>2. ASSUME Init PROVE Cardinality(Owed \cup Refunded) <= Cardinality(CancelMoves)
    BY <2>1, <2>2, FS_EmptySet
  <2> QED BY <2>2 DEF Init, RefundInv, SettlingPcs
<1>2. TypeInv /\ RefundInv /\ [Next]_vars => RefundInv'
  <2> SUFFICES ASSUME TypeInv, RefundInv, [Next]_vars PROVE RefundInv'
    OBVIOUS
  <2>1. ASSUME NEW r \in Requests, Step(r) \/ Crash(r) PROVE RefundInv'
    BY <2>1, RequestKeepsRefund, MachineKeepsRefund DEF Step
  <2>2. CASE UNCHANGED vars
    BY <2>2 DEF vars, machine, rows, outside, thread, RefundInv, Owed, Refunded, CancelMoves
  <2> QED BY <2>1, <2>2 DEF Next
<1>3. TypeInv /\ RefundInv => RefundsFollowCancellations
  <2> SUFFICES ASSUME TypeInv, RefundInv PROVE RefundsFollowCancellations
    OBVIOUS
  <2>1. /\ Cardinality(Refunded) <= Cardinality(Owed \cup Refunded)
        /\ Cardinality(Refunded) \in Nat
        /\ Cardinality(Owed \cup Refunded) \in Nat
        /\ Cardinality(CancelMoves) \in Nat
    <3>1. IsFiniteSet(Refunded) /\ Cardinality(Refunded) <= Cardinality(Owed \cup Refunded)
      BY FiniteLemma, FS_Subset
    <3> QED BY <3>1, FiniteLemma, FS_CardinalityType
  <2>2. Cardinality(Refunded) <= Cardinality(CancelMoves)
    BY <2>1 DEF RefundInv
  <2> QED BY <2>2 DEF RefundInv, RefundsFollowCancellations, Refunded
<1> QED BY <1>1, <1>2, <1>3, AlwaysTyped, PTL DEF Spec
=============================================================================
