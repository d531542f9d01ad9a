-------------------------- MODULE MC_FlightBooking --------------------------
(* Model checking of FlightBooking on small instances.                     *)
EXTENDS FlightBooking, TLC

CONSTANTS r1, r2, r3, r4, r5, p1, p2

\* MockFlightSupplierAdapter, and AmadeusFlightSupplierAdapter.
MockAdapter == {"issueTicket", "cancelBooking", "refundBooking"}
AmadeusAdapter == {"cancelBooking"}
MCAdapters == {MockAdapter, AmadeusAdapter}

\* The three kinds of sale deriveChannel makes, and two in which somebody signs
\* in as somebody else between the search and the booking.
MatchingSales ==
  {[channel |-> "B2C", buyer |-> "customer"], [channel |-> "B2B", buyer |-> "agent"],
   [channel |-> "CORPORATE", buyer |-> "employee"]}
MCSales ==
  MatchingSales \cup
  {[channel |-> "CORPORATE", buyer |-> "customer"], [channel |-> "B2C", buyer |-> "agent"]}
CardSale == {[channel |-> "B2C", buyer |-> "customer"]}

\* Requests of one kind are interchangeable.
RequestSymmetry == Permutations(Creators) \cup Permutations(Cancellers)
=============================================================================
