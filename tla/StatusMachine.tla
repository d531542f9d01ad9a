--------------------------- MODULE StatusMachine ---------------------------
(***************************************************************************)
(* BookingStateMachineService.transition for one booking, called by any    *)
(* number of requests at a time.  A call is one database transaction at    *)
(* PostgreSQL's default isolation (READ COMMITTED: the code asks for no    *)
(* other level and takes no lock): it reads the status, refuses or goes    *)
(* on, and its commit writes the status and the history row together.  The *)
(* UPDATE names the booking by id only, so it does not look at the status  *)
(* again.                                                                  *)
(***************************************************************************)
EXTENDS BookingStatus, Sequences

CONSTANTS Callers      \* concurrent requests that may call transition

VARIABLES
  status,    \* bookings.status, or NoBooking while there is no row
  history,   \* booking_status_history, in commit order
  tx         \* tx[c]: the transition that caller c has read for, or NoTx

vars == <<status, history, tx>>

NoBooking == "NO_BOOKING"
HistoryRow == [from : Statuses, to : Statuses]
NoTx == [from |-> NoBooking, to |-> NoBooking]

TypeOK ==
  /\ status \in Statuses \cup {NoBooking}
  /\ history \in Seq(HistoryRow)
  /\ tx \in [Callers -> HistoryRow \cup {NoTx}]

Init ==
  /\ status = NoBooking
  /\ history = <<>>
  /\ tx = [c \in Callers |-> NoTx]

\* prisma.booking.create inserts the row with status SEARCHED.
Create ==
  /\ status = NoBooking
  /\ status' = "SEARCHED"
  /\ UNCHANGED <<history, tx>>

\* Mutant: the change is not checked against the table.
ReadUnchecked(c, to) ==
  /\ tx[c] = NoTx
  /\ status # NoBooking
  /\ tx' = [tx EXCEPT ![c] = [from |-> status, to |-> to]]
  /\ UNCHANGED <<status, history>>

\* The read and the check of transition.  A status that does not allow the
\* change makes the call throw, which leaves the database as it was.
Read(c, to) ==
  /\ tx[c] = NoTx
  /\ status # NoBooking
  /\ IsTransitionAllowed(status, to)
  /\ tx' = [tx EXCEPT ![c] = [from |-> status, to |-> to]]
  /\ UNCHANGED <<status, history>>

\* Mutant: a change to CONFIRMED leaves no history row.
CommitUnrecorded(c) ==
  /\ tx[c] # NoTx
  /\ status' = tx[c].to
  /\ history' = IF tx[c].to = "CONFIRMED" THEN history ELSE Append(history, tx[c])
  /\ tx' = [tx EXCEPT ![c] = NoTx]

\* The UPDATE, the INSERT of the history row and the commit.
Commit(c) ==
  /\ tx[c] # NoTx
  /\ status' = tx[c].to
  /\ history' = Append(history, tx[c])
  /\ tx' = [tx EXCEPT ![c] = NoTx]

\* A transaction that ends without a commit: timeout, lost connection, crash.
Rollback(c) ==
  /\ tx[c] # NoTx
  /\ tx' = [tx EXCEPT ![c] = NoTx]
  /\ UNCHANGED <<status, history>>

Next ==
  \/ Create
  \/ \E c \in Callers :
       \/ \E to \in Statuses : Read(c, to)
       \/ Commit(c)
       \/ Rollback(c)

Spec == Init /\ [][Next]_vars

\* The same service when no two transitions of the booking overlap.
NoOverlap == \A c, d \in Callers : tx[c] # NoTx /\ tx[d] # NoTx => c = d
SerialSpec == Init /\ [][Next /\ NoOverlap']_vars
-----------------------------------------------------------------------------
(* Properties.                                                             *)

\* "the status column and its audit trail can never drift apart": whatever
\* the interleaving, the status is the one the newest history row moved to.
StatusIsLastRecorded ==
  IF history = <<>>
  THEN status \in {NoBooking, "SEARCHED"}
  ELSE status = history[Len(history)].to

\* Every history row records a change that the table allows, whatever other
\* transitions ran at the same time.
HistoryEdgesAllowed ==
  \A i \in DOMAIN history : IsTransitionAllowed(history[i].from, history[i].to)

\* The history is one unbroken story: each row starts where the one before
\* it ended.  It holds only when transitions do not overlap.
HistoryUnbroken ==
  \A i \in DOMAIN history :
    history[i].from = IF i = 1 THEN "SEARCHED" ELSE history[i - 1].to

\* The status column itself only ever moves along an edge of the table, so a
\* terminal status is final and a booking never returns to an earlier stage.
StatusFollowsTable ==
  [][status # NoBooking /\ status' # status
       => IsTransitionAllowed(status, status')]_vars

\* A booking's stage never decreases (the table has no cycle).
StageNeverDecreases ==
  [][status # NoBooking => Stage[status'] >= Stage[status]]_vars
=============================================================================
