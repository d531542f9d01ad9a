--------------------------- MODULE TravelPackages ---------------------------
(***************************************************************************)
(* PackagesService.create: a flight booking and a hotel booking that were  *)
(* sold on their own are put under one package reference.  The two rows    *)
(* are read and checked outside the transaction that writes the package    *)
(* and both packageId columns, while the bookings go on living: FlightBooking *)
(* and HotelBooking say how, here only the status moves.                   *)
(***************************************************************************)
EXTENDS BookingStatus, FiniteSets

CONSTANTS
  Packagers,   \* create requests of one traveller; each makes at most one package
  FlightLegs,  \* the traveller's flight bookings
  HotelLegs    \* the traveller's hotel bookings

\* The id of a package is none that means there is no package.
ASSUME PackageAssumption == "none" \notin Packagers

VARIABLES
  legStatus,    \* legStatus[l]: bookings.status or hotel_bookings.status
  packageId,    \* packageId[l]: the package that l names, or NoPackage
  packages,     \* packages[p]: the package row made by request p: its two legs, or {}
  packagePc,    \* packagePc[p]: "start", "read", "create" or "done"
  packageLegs,  \* packageLegs[p]: the flight and the hotel the request asks for
  legsSeen,     \* legsSeen[p]: the legs p has read and found good
  packageOverlap   \* history: two requests were under way at a time

packageThread == <<packagePc, packageLegs, legsSeen, packageOverlap>>
packageVars == <<legStatus, packageId, packages, packageThread>>

Legs == FlightLegs \cup HotelLegs
NoPackage == "none"

\* How a hotel booking may move (HotelBooking).
HotelMoves ==
  { <<"PENDING", "CONFIRMED">>, <<"PENDING", "FAILED">>,
    <<"CONFIRMED", "REFUND_PENDING">>, <<"REFUND_PENDING", "REFUNDED">> }

PackageTypeOK ==
  /\ \A l \in Legs :
       legStatus[l] \in IF l \in FlightLegs THEN Statuses
                       ELSE {"PENDING", "CONFIRMED", "FAILED", "REFUND_PENDING", "REFUNDED"}
  /\ packageId \in [Legs -> Packagers \cup {NoPackage}]
  /\ packages \in [Packagers -> SUBSET Legs]
  /\ packagePc \in [Packagers -> {"start", "read", "create", "done"}]
  /\ packageLegs \in [Packagers -> SUBSET Legs]
  /\ legsSeen \in [Packagers -> SUBSET Legs]
  /\ packageOverlap \in BOOLEAN

PackageInit ==
  /\ legStatus = [l \in Legs |-> IF l \in FlightLegs THEN "BOOKING_PENDING" ELSE "PENDING"]
  /\ packageId = [l \in Legs |-> NoPackage]
  /\ packages = [p \in Packagers |-> {}]
  /\ packagePc = [p \in Packagers |-> "start"]
  /\ packageLegs = [p \in Packagers |-> {}]
  /\ legsSeen = [p \in Packagers |-> {}]
  /\ packageOverlap = FALSE

\* The bookings' own services change their status at any time.
LegMoves(l, to) ==
  /\ IF l \in FlightLegs THEN IsTransitionAllowed(legStatus[l], to)
                         ELSE <<legStatus[l], to>> \in HotelMoves
  /\ legStatus' = [legStatus EXCEPT ![l] = to]
  /\ UNCHANGED <<packageId, packages, packageThread>>

\* A request for flight f and hotel h arrives.
RequestPackage(p, f, h) ==
  /\ packagePc[p] = "start"
  /\ packagePc' = [packagePc EXCEPT ![p] = "read"]
  /\ packageLegs' = [packageLegs EXCEPT ![p] = {f, h}]
  /\ packageOverlap' =
       (packageOverlap \/ \E q \in Packagers : packagePc[q] \in {"read", "create"})
  /\ UNCHANGED <<legStatus, packageId, packages, legsSeen>>

\* A leg can be packaged: it is sold and not yet part of a package.
Sold(l) ==
  IF l \in FlightLegs THEN legStatus[l] \in {"CONFIRMED", "TICKETED"}
                      ELSE legStatus[l] = "CONFIRMED"

\* Mutant: the packageId of a leg is not looked at.
ReadLegUnpackaged(p, l) ==
  /\ packagePc[p] = "read"
  /\ l \in packageLegs[p] \ legsSeen[p]
  /\ Sold(l)
  /\ legsSeen' = [legsSeen EXCEPT ![p] = @ \cup {l}]
  /\ packagePc' = [packagePc EXCEPT ![p] =
                     IF legsSeen'[p] = packageLegs[p] THEN "create" ELSE "read"]
  /\ UNCHANGED <<legStatus, packageId, packages, packageLegs, packageOverlap>>

\* The two rows are read in parallel (Promise.all), in either order.
ReadLeg(p, l) ==
  /\ packagePc[p] = "read"
  /\ l \in packageLegs[p] \ legsSeen[p]
  /\ Sold(l)
  /\ packageId[l] = NoPackage
  /\ legsSeen' = [legsSeen EXCEPT ![p] = @ \cup {l}]
  /\ packagePc' = [packagePc EXCEPT ![p] =
                     IF legsSeen'[p] = packageLegs[p] THEN "create" ELSE "read"]
  /\ UNCHANGED <<legStatus, packageId, packages, packageLegs, packageOverlap>>

\* Not found, not the traveller's own, not sold, packaged already, or in two
\* currencies; or the request dies.  Nothing has been written.
RefusePackage(p) ==
  /\ packagePc[p] \in {"read", "create"}
  /\ packagePc' = [packagePc EXCEPT ![p] = "done"]
  /\ UNCHANGED <<legStatus, packageId, packages, packageLegs, legsSeen, packageOverlap>>

\* The transaction: the package row and both packageId columns, by id.
CreatePackage(p) ==
  /\ packagePc[p] = "create"
  /\ packages' = [packages EXCEPT ![p] = packageLegs[p]]
  /\ packageId' = [l \in Legs |-> IF l \in packageLegs[p] THEN p ELSE packageId[l]]
  /\ packagePc' = [packagePc EXCEPT ![p] = "done"]
  /\ UNCHANGED <<legStatus, packageLegs, legsSeen, packageOverlap>>

PackageNext ==
  \/ \E l \in Legs, to \in Statuses : LegMoves(l, to)
  \/ \E p \in Packagers :
       \/ \E f \in FlightLegs, h \in HotelLegs : RequestPackage(p, f, h)
       \/ \E l \in Legs : ReadLeg(p, l)
       \/ RefusePackage(p)
       \/ CreatePackage(p)

PackageSpec == PackageInit /\ [][PackageNext]_packageVars
-----------------------------------------------------------------------------
(* Properties.                                                             *)

\* A package is made of bookings that were really sold: whatever happened to
\* them between the check and the transaction, no leg of a package is one
\* still to be confirmed.  (A confirmed flight may fail later, a hotel may not.)
PackagedLegsWereSold ==
  \A p \in Packagers : \A l \in packages[p] :
    legStatus[l] \notin IF l \in FlightLegs THEN {"BOOKING_PENDING"} ELSE {"PENDING", "FAILED"}

\* Unless two requests overlap, every package owns both of its legs and so
\* no booking is sold in two packages.
PackagesOwnTheirLegs ==
  ~packageOverlap =>
    \A p \in Packagers : \A l \in packages[p] : packageId[l] = p

\* Packages are made of sold bookings, and of nobody else's.
PackagesSound == PackagedLegsWereSold /\ PackagesOwnTheirLegs
=============================================================================
