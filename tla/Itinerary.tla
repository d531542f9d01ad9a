----------------------------- MODULE Itinerary -----------------------------
(***************************************************************************)
(* The legs of a flight offer: an adapter flattens what the supplier sells *)
(* into one list of numbered segments with the stops and the duration of   *)
(* the whole offer (MockFlightSupplierAdapter.buildOffer, and normalizeOffer*)
(* of the Amadeus adapter, which numbers differently); the segments are    *)
(* rows of a table; and whoever looks at the offer gets them grouped by    *)
(* groupSegmentsByLeg along the legs that were searched.                   *)
(*                                                                         *)
(* Times are units of flying time.  The mock suppliers give them in UTC;   *)
(* Amadeus gives the local time of the airport without its offset, which   *)
(* is stored as if it were UTC.                                            *)
(***************************************************************************)
EXTENDS Integers, Sequences, FiniteSets, SequencesExt, Totals

CONSTANTS
  SearchedTrips,   \* the searches: sequences of legs [origin, destination]
  Hubs,            \* HUB_POOL
  FlightMinutes, LayoverMinutes,
  LegGap,          \* from the beginning of a leg to that of the next
  Zone             \* Zone[a]: how far the local time of airport a is ahead

ASSUME ItineraryAssumption ==
  /\ \A t \in SearchedTrips :
       /\ DOMAIN t = 1..Len(t) /\ Len(t) \in Nat \ {0}
       /\ \A i \in 1..Len(t) : t[i].origin # t[i].destination
  /\ FlightMinutes \subseteq Nat \ {0} /\ LayoverMinutes \subseteq Nat /\ LegGap \in Nat \ {0}
  /\ \A hub \in Hubs : Zone[hub] \in Int

VARIABLES
  searchedTrip,        \* search.segments
  flown,       \* flown[i]: the segments the supplier sells for leg i, in order
  offerRow,    \* [supplier, segments, stops, minutes] as stored, or NoOffer
  legsShown    \* legs of the serialized offer, or <<>>

itineraryVars == <<searchedTrip, flown, offerRow, legsShown>>

NoOffer == [supplier |-> "none", segments |-> {}, stops |-> 0, minutes |-> 0]

Flight(from, to, departs, arrives) ==
  [origin |-> from, destination |-> to, departureAt |-> departs, arrivalAt |-> arrives]

\* buildLegSegments: one flight, or two that meet at a hub.  An itinerary of
\* Amadeus may change planes more often than that; those are left out.
DirectFlights(leg, starts) ==
  {<<Flight(leg.origin, leg.destination, starts, starts + m)>> : m \in FlightMinutes}
ConnectingFlights(leg, starts) ==
  { << Flight(leg.origin, hub, starts, starts + m),
       Flight(hub, leg.destination, starts + m + wait, starts + m + wait + n) >> :
    hub \in Hubs \ {leg.origin, leg.destination},
    m \in FlightMinutes, wait \in LayoverMinutes, n \in FlightMinutes }
LegFlights(leg, starts) == DirectFlights(leg, starts) \cup ConnectingFlights(leg, starts)

Minutes(flights) == Last(flights).arrivalAt - Head(flights).departureAt
TotalOf(Op(_), s) == Total([i \in DOMAIN s |-> Op(s[i])], DOMAIN s)

ItineraryTypeOK ==
  /\ searchedTrip \in SearchedTrips
  /\ Len(flown) = Len(searchedTrip)
  /\ offerRow.stops \in Nat /\ offerRow.minutes \in Nat
  /\ Len(legsShown) <= Len(searchedTrip)

ItineraryInit ==
  /\ searchedTrip \in SearchedTrips
  /\ LET Sold(i) == LegFlights(searchedTrip[i], i * LegGap)
         legs == 1..Len(searchedTrip)
     IN flown \in {f \in [legs -> UNION {Sold(i) : i \in legs}] : \A i \in legs : f[i] \in Sold(i)}
  /\ offerRow = NoOffer /\ legsShown = <<>>
-----------------------------------------------------------------------------
(* The adapters.                                                           *)

Positions == {p \in (1..Len(flown)) \X (1..2) : p[2] <= Len(flown[p[1]])}

Store(supplier, rows) ==
  /\ offerRow = NoOffer
  /\ offerRow' = [supplier |-> supplier, segments |-> rows,
                  stops |-> TotalOf(Len, flown) - Len(flown),
                  minutes |-> TotalOf(Minutes, flown)]
  /\ UNCHANGED <<searchedTrip, flown, legsShown>>

\* Mutant: every leg is numbered from zero.
NumberedApart(i, k) == k - 1
\* buildOffer numbers the segments through, whatever leg they are of.
NumberedThrough(i, k) == TotalOf(Len, SubSeq(flown, 1, i - 1)) + k - 1

MockOffer ==
  Store("mock", {[sequence |-> NumberedThrough(p[1], p[2]), flight |-> flown[p[1]][p[2]]] :
                   p \in Positions})

Local(f) ==
  [f EXCEPT !.departureAt = @ + Zone[f.origin], !.arrivalAt = @ + Zone[f.destination]]

\* normalizeOffer leaves room for a hundred segments of an itinerary.
AmadeusOffer ==
  Store("amadeus", {[sequence |-> (p[1] - 1) * 100 + p[2] - 1,
                     flight |-> Local(flown[p[1]][p[2]])] : p \in Positions})
-----------------------------------------------------------------------------
(* groupSegmentsByLeg.                                                     *)

\* The k-th row by its number.
Sorted(segments) ==
  [k \in 1..Cardinality(segments) |-> CHOOSE row \in segments :
     /\ Cardinality({r \in segments : r.sequence < row.sequence}) < k
     /\ Cardinality({r \in segments : r.sequence <= row.sequence}) >= k]

\* Mutant: a leg ends where the next segment leaves from another airport.
EndsAtGap(flights, from, leg) ==
  {k \in from..Len(flights) - 1 : flights[k].destination # flights[k + 1].origin}
\* The segments from the cursor on that arrive where the leg ends.
EndsAtDestination(flights, from, leg) ==
  {k \in from..Len(flights) : flights[k].destination = leg.destination}

\* The leg that begins at the cursor goes up to the first of these, or, when
\* there is none, to the end of the offer.
LegEnd(flights, from, leg) ==
  LET ends == EndsAtDestination(flights, from, leg) \cup {Len(flights)}
  IN CHOOSE k \in ends : \A j \in ends : k <= j

\* The cursor before each leg and after the last: it stays at the end.
Cursors(flights, legs) ==
  LET cursor[i \in 1..Len(legs) + 1] ==
        IF i = 1 THEN 1
        ELSE IF cursor[i - 1] > Len(flights) THEN cursor[i - 1]
        ELSE LegEnd(flights, cursor[i - 1], legs[i - 1]) + 1
  IN cursor

ShowLeg(own, leg) ==
  [origin |-> leg.origin, destination |-> leg.destination,
   departureAt |-> Head(own).departureAt, arrivalAt |-> Last(own).arrivalAt,
   minutes |-> Minutes(own), stops |-> Len(own) - 1, flights |-> own,
   layovers |-> [k \in 1..Len(own) - 1 |->
      [airport |-> own[k].destination, minutes |-> own[k + 1].departureAt - own[k].arrivalAt]]]

\* The legs that begin before the end of the offer.
GroupSegmentsByLeg(legs, segments) ==
  LET rows == Sorted(segments)
      flights == [k \in 1..Len(rows) |-> rows[k].flight]
      cursor == Cursors(flights, legs)
      shown == {i \in 1..Len(legs) : cursor[i] <= Len(flights)}
  IN [i \in 1..Cardinality(shown) |->
        ShowLeg(SubSeq(flights, cursor[i], cursor[i + 1] - 1), legs[i])]

\* serializeOffer, when somebody looks at the search or at the offer.
SerializeOffer ==
  /\ offerRow # NoOffer
  /\ legsShown' = GroupSegmentsByLeg(searchedTrip, offerRow.segments)
  /\ UNCHANGED <<searchedTrip, flown, offerRow>>

ItineraryNext == MockOffer \/ AmadeusOffer \/ SerializeOffer
ItinerarySpec == ItineraryInit /\ [][ItineraryNext]_itineraryVars
-----------------------------------------------------------------------------
(* Properties.                                                             *)

\* "a genuine same-leg connection must never be confused with the gap between
\* an outbound arrival and a return departure": the legs shown are those the
\* supplier sells, segment for segment, for every trip that was searched and
\* for both ways of numbering.
LegsAreTheFlownOnes ==
  legsShown # <<>> =>
    /\ Len(legsShown) = Len(flown)
    /\ \A i \in 1..Len(flown) :
         /\ Len(legsShown[i].flights) = Len(flown[i])
         /\ \A k \in 1..Len(flown[i]) :
              legsShown[i].flights[k] \in {flown[i][k], Local(flown[i][k])}
         /\ legsShown[i].origin = flown[i][1].origin
         /\ legsShown[i].destination = Last(flown[i]).destination

\* The adapter adds up stops and durations over the legs it has, the display
\* computes them of the legs it found: they agree, so that no time on the
\* ground between two legs counts as flying - the durations only when times
\* are in UTC: of an Amadeus offer a leg is shown shorter or longer by the
\* offset between its ends.  Layovers are right in any case.
TotalsAgree ==
  legsShown # <<>> =>
    /\ TotalOf(LAMBDA leg : leg.stops, legsShown) = offerRow.stops
    /\ offerRow.supplier = "mock" =>
         TotalOf(LAMBDA leg : leg.minutes, legsShown) = offerRow.minutes
    /\ \A i \in 1..Len(legsShown) : \A k \in 1..Len(legsShown[i].layovers) :
         legsShown[i].layovers[k].minutes
           = flown[i][k + 1].departureAt - flown[i][k].arrivalAt

LegsSound == ItineraryTypeOK /\ LegsAreTheFlownOnes /\ TotalsAgree
=============================================================================
