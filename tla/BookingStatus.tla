--------------------------- MODULE BookingStatus ---------------------------
(***************************************************************************)
(* The flight-booking statuses and the table of allowed status changes     *)
(* (booking-status.transitions.ts).  The table is data: every field names  *)
(* a status and holds the statuses it may be moved to.                     *)
(***************************************************************************)
EXTENDS Naturals

ALLOWED_BOOKING_TRANSITIONS ==
  [ SEARCHED        |-> {"PRICE_PENDING", "CANCELLED", "EXPIRED"},
    PRICE_PENDING   |-> {"PRICE_CONFIRMED", "FAILED", "CANCELLED", "EXPIRED"},
    PRICE_CONFIRMED |-> {"BOOKING_PENDING", "CANCELLED", "EXPIRED"},
    BOOKING_PENDING |-> {"CONFIRMED", "FAILED"},
    CONFIRMED       |-> {"TICKETED", "FAILED", "CANCELLED"},
    TICKETED        |-> {"REFUND_PENDING", "CANCELLED"},
    FAILED          |-> {},
    CANCELLED       |-> {},
    EXPIRED         |-> {},
    REFUND_PENDING  |-> {"REFUNDED", "FAILED"},
    REFUNDED        |-> {} ]

\* enum BookingStatus of schema.prisma.
Statuses ==
  {"SEARCHED", "PRICE_PENDING", "PRICE_CONFIRMED", "BOOKING_PENDING",
   "CONFIRMED", "TICKETED", "FAILED", "CANCELLED", "EXPIRED",
   "REFUND_PENDING", "REFUNDED"}

IsTransitionAllowed(from, to) == to \in ALLOWED_BOOKING_TRANSITIONS[from]

\* The statuses the table leaves no way out of.
TerminalStatuses == {s \in Statuses : ALLOWED_BOOKING_TRANSITIONS[s] = {}}

\* How far along its life a status is: a status later in the life of a
\* booking has a larger stage.
Stage ==
  [ SEARCHED |-> 0, PRICE_PENDING |-> 1, PRICE_CONFIRMED |-> 2,
    BOOKING_PENDING |-> 3, CONFIRMED |-> 4, TICKETED |-> 5,
    REFUND_PENDING |-> 6, REFUNDED |-> 7, FAILED |-> 8, CANCELLED |-> 8,
    EXPIRED |-> 8 ]
=============================================================================
