------------------------------ MODULE MC_Sales ------------------------------
(***************************************************************************)
(* The products sold beside flights, checked in one run.  The three        *)
(* services share no state, so a behaviour is one of hotel bookings, of    *)
(* travel packages or of a pilgrimage departure: `service` is chosen in    *)
(* the initial state and the variables of the others keep their initial    *)
(* values.                                                                 *)
(***************************************************************************)
EXTENDS HotelBooking, TravelPackages, HajjUmrah, TLC

CONSTANTS b1, b2, t1, t2, t3, k1, k2

\* Pilgrimage scenarios: the last seats while the capacity changes; a booking
\* that is retried; an instalment that is retried; two instalments that
\* together exceed the balance; a deposit above the total.
BookSeats(b, pilgrims, amount) ==
  [op |-> "book", booking |-> b, pilgrims |-> pilgrims, amount |-> amount]
Pay(k, amount) == [op |-> "pay", booking |-> b1, key |-> k, amount |-> amount]
ResizeTo(seats) == [op |-> "update", capacity |-> seats, price |-> 6]
Together(first, second, third) == t1 :> first @@ t2 :> second @@ t3 :> third

MCLastSeats == Together(BookSeats(b1, 2, 0), BookSeats(b2, 1, 0), ResizeTo(1))
MCScenarios ==
  { MCLastSeats,
    Together(BookSeats(b1, 2, 0), BookSeats(b1, 2, 0), Pay(k1, 3)),
    Together(BookSeats(b1, 2, 0), Pay(k1, 3), Pay(k1, 3)),
    Together(BookSeats(b1, 2, 4), Pay(k1, 3), Pay(k2, 4)),
    Together(BookSeats(b1, 1, 9), Pay(k1, 1), ResizeTo(3)) }
MCDeposit == [type |-> "FIXED", value |-> 1]

VARIABLE service

salesVars == <<service, hotelVars, packageVars, hajjVars>>

MCInit ==
  /\ service \in {"hotels", "packages", "hajj"}
  /\ HotelInit /\ PackageInit /\ HajjInit
  /\ service # "hotels" => hotelBuyer = "customer" /\ hotelReleasable
  /\ service # "hajj" => ask = MCLastSeats

MCNext ==
  /\ \/ service = "hotels" /\ HotelNext /\ UNCHANGED <<packageVars, hajjVars>>
     \/ service = "packages" /\ PackageNext /\ UNCHANGED <<hotelVars, hajjVars>>
     \/ service = "hajj" /\ HajjNext /\ UNCHANGED <<hotelVars, packageVars>>
  /\ UNCHANGED service

MCFairness ==
  /\ \A r \in HotelRequests : WF_hotelVars(service = "hotels" /\ HotelStep(r))
  /\ \A t \in HajjThreads : WF_hajjVars(service = "hajj" /\ HajjStep(t))

MCSpec == MCInit /\ [][MCNext]_salesVars /\ MCFairness

\* The rows, requests and outside worlds of the three services are well-formed.
SalesTypeOK == HotelTypeOK /\ PackageTypeOK /\ HajjTypeOK
=============================================================================
