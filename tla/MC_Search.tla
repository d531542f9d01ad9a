----------------------------- MODULE MC_Search -----------------------------
(***************************************************************************)
(* What is searched and priced before anything is sold, checked in one     *)
(* run: the form of a search, flight searches and the legs of an offer,    *)
(* hotel searches, the Amadeus token, markup rules, the reprice of a fare, *)
(* exchange rates, travel policies, the page on which a traveller books    *)
(* and the assistant.  They share no state, so a behaviour is one of one   *)
(* of them: `service` is chosen in the initial state and the variables of  *)
(* the others keep their initial values.                                   *)
(***************************************************************************)
EXTENDS FlightSearch, HotelSearch, SupplierToken, MarkupRules, FareCheck, LiveRates,
        TravelPolicy, BookingPage, Itinerary, Assistant, SearchForm, TLC

CONSTANTS s1, s2, f1, f2, o1, o2, n1, n2

\* Flight markets: two suppliers that share a product at two prices and one
\* at the same price; one supplier asked by two searches; a search without
\* suppliers.
Asks(product, cost) == [product |-> product, cost |-> cost]
Sells(s, offers) == [supplier |-> s, offers |-> offers]
MCOneSearch ==
  s1 :> << Sells(f1, {Asks("JED", 3), Asks("RUH", 2)}),
           Sells(f2, {Asks("JED", 2), Asks("RUH", 2), Asks("DXB", 4)}) >>
    @@ s2 :> <<>>
MCTwoSearches ==
  LET one == <<Sells(f1, {Asks("JED", 3)})>> IN s1 :> one @@ s2 :> one
MCMarkets == {MCOneSearch, MCTwoSearches}

MCAdapters == <<"HOTELBEDS", "DIRECT">>

\* Fares: a preview and two attempts to book one offer, the second accepting
\* the other price; and two offers whose ids the supplier may have used twice.
Buy(offer, accepted) == [op |-> "book", offer |-> offer, accepted |-> accepted]
Look(offer) == [op |-> "preview", offer |-> offer, accepted |-> 0]
MCFareOne == n1 :> Buy(o1, 0) @@ n2 :> Buy(o1, 3)
MCFareScenarios ==
  {MCFareOne, n1 :> Look(o1) @@ n2 :> Buy(o1, 0), n1 :> Buy(o1, 3) @@ n2 :> Buy(o2, 4)}
MCKeyMaps == {o1 :> "1" @@ o2 :> "2", o1 :> "1" @@ o2 :> "1"}

\* Markup rules of three scopes: bounds in and out of order, percentages below
\* 0 and above 100, a discount, a rule for somebody else, a second rule of the
\* same scope.
Rule(scope, type, value, min, max, priority, fits) ==
  [scope |-> scope, type |-> type, value |-> value, min |-> min, max |-> max,
   priority |-> priority, active |-> TRUE, fits |-> fits]
MCRuleDtos ==
  { Rule("AGENCY", "FIXED", 3, NoBound, NoBound, 1, TRUE),
    Rule("AGENCY", "FIXED", 3, NoBound, NoBound, 1, FALSE),
    Rule("CABIN", "PERCENTAGE", 50, 2, 4, 1, TRUE),
    Rule("CABIN", "PERCENTAGE", 120, 2, 4, 2, TRUE),
    Rule("CABIN", "PERCENTAGE", -5, 2, 4, 2, TRUE),
    Rule("CABIN", "PERCENTAGE", 50, 4, 2, 2, TRUE),
    Rule("GLOBAL", "FIXED", -3, NoBound, 2, 2, TRUE),
    Rule("GLOBAL", "FIXED", 2, NoBound, NoBound, 1, TRUE) }
Patch(sets, value, min, max, priority) ==
  [sets |-> sets, value |-> value, min |-> min, max |-> max, priority |-> priority,
   active |-> FALSE]
MCRulePatches ==
  { Patch({"value"}, 200, 0, 0, 0), Patch({"min"}, 0, 5, 0, 0), Patch({"min", "max"}, 0, 5, 4, 0),
    Patch({"priority"}, 0, 0, 0, -1), Patch({"active"}, 0, 0, 0, 0) }

\* Policies: within and above the cabin, blocking or not, caps in and out of
\* order, in the fare's currency and in another one.
CapsOf(block, soft, hard, foreign) ==
  [maxCabin |-> "ECONOMY", blockOverMaxCabin |-> block, soft |-> soft, hard |-> hard,
   foreign |-> foreign]
MCPolicyDtos ==
  { CapsOf(TRUE, 2, 4, FALSE), CapsOf(FALSE, NoCap, 4, FALSE),
    CapsOf(FALSE, 4, 2, FALSE), CapsOf(TRUE, 2, 4, TRUE) }
MCTrips == {[cabin |-> "ECONOMY", fare |-> 5], [cabin |-> "BUSINESS", fare |-> 5],
            [cabin |-> "ECONOMY", fare |-> 3]}

\* Trips: one way, there and back, on from there, back from elsewhere, and a
\* round; Dubai is a hub and a destination.
Leg(from, to) == [origin |-> from, destination |-> to]
MCSearchedTrips ==
  { <<Leg("DAC", "DXB")>>, <<Leg("DAC", "DXB"), Leg("DXB", "DAC")>>,
    <<Leg("DAC", "DXB"), Leg("DXB", "LHR")>>, <<Leg("DAC", "LHR"), Leg("DXB", "DAC")>>,
    <<Leg("DAC", "DXB"), Leg("DXB", "LHR"), Leg("LHR", "DAC")>> }
MCZone == [a \in {"DAC", "DXB", "DOH", "LHR"} |-> CASE a = "DAC" -> 4 [] a = "LHR" -> 0 [] OTHER -> 2]
MCOneTrip == <<Leg("DAC", "DXB")>>

VARIABLE service

searchingVars == <<flightSearchVars, hotelSearchVars, tokenVars>>
pricingVars == <<markupVars, fareVars, ratesVars, policyVars>>
askingVars == <<pageVars, itineraryVars, chatVars, formVars>>
searchVars == <<service, searchingVars, pricingVars, askingVars>>

MCInit ==
  /\ service \in {"flights", "hotels", "token", "markup", "fares", "rates", "policy",
                 "page", "legs", "assistant", "form"}
  /\ ItineraryInit
  /\ service # "legs" =>
       searchedTrip = MCOneTrip /\ flown[1][1].arrivalAt = LegGap + 2 /\ Len(flown[1]) = 1
  /\ FlightSearchInit
  /\ service # "flights" => market = MCTwoSearches /\ failures = [s \in FlightSuppliers |-> 0]
  /\ FareInit
  /\ service # "fares" =>
       order = MCFareOne /\ keyOf = o1 :> "1" @@ o2 :> "1" /\ asking = [o \in FareOffers |-> 1]
  /\ PolicyInit
  /\ service # "policy" => \A e \in Evaluations : trip[e] = [cabin |-> "ECONOMY", fare |-> 3]
  /\ ChatInit
  /\ service # "assistant" => visitor = Guest
  /\ FormInit
  /\ service # "form" => ~tripChanged
  /\ HotelSearchInit /\ TokenInit /\ MarkupInit /\ RatesInit /\ PageInit

Searching ==
  \/ service = "flights" /\ FlightSearchNext /\ UNCHANGED <<hotelSearchVars, tokenVars>>
  \/ service = "hotels" /\ HotelSearchNext /\ UNCHANGED <<flightSearchVars, tokenVars>>
  \/ service = "token" /\ TokenNext /\ UNCHANGED <<flightSearchVars, hotelSearchVars>>
Pricing ==
  \/ service = "markup" /\ MarkupNext /\ UNCHANGED <<fareVars, ratesVars, policyVars>>
  \/ service = "fares" /\ FareNext /\ UNCHANGED <<markupVars, ratesVars, policyVars>>
  \/ service = "rates" /\ RatesNext /\ UNCHANGED <<markupVars, fareVars, policyVars>>
  \/ service = "policy" /\ PolicyNext /\ UNCHANGED <<markupVars, fareVars, ratesVars>>

Asking ==
  \/ service = "page" /\ PageNext /\ UNCHANGED <<itineraryVars, chatVars, formVars>>
  \/ service = "legs" /\ ItineraryNext /\ UNCHANGED <<pageVars, chatVars, formVars>>
  \/ service = "assistant" /\ ChatNext /\ UNCHANGED <<pageVars, itineraryVars, formVars>>
  \/ service = "form" /\ FormNext /\ UNCHANGED <<pageVars, itineraryVars, chatVars>>

MCNext ==
  /\ \/ Searching /\ UNCHANGED <<pricingVars, askingVars>>
     \/ Pricing /\ UNCHANGED <<searchingVars, askingVars>>
     \/ Asking /\ UNCHANGED <<searchingVars, pricingVars>>
  /\ UNCHANGED service

MCFairness ==
  /\ \A r \in Searches :
       /\ WF_flightSearchVars(service = "flights" /\ SearchStep(r))
       /\ \A s \in FlightSuppliers :
            WF_flightSearchVars(service = "flights" /\ s \in Active(r) /\ CallStep(r, s))
  /\ WF_chatVars(service = "assistant" /\ ChatNext)

MCSpec == MCInit /\ [][MCNext]_searchVars /\ MCFairness

\* The rows, caches and requests of the services are well-formed.
SearchTypeOK ==
  /\ FlightSearchTypeOK /\ HotelSearchTypeOK /\ TokenTypeOK
  /\ MarkupTypeOK /\ FareTypeOK /\ RatesTypeOK /\ PolicyTypeOK
  /\ PageTypeOK /\ ChatTypeOK /\ FormTypeOK

\* What is searched for (SearchForm) and comes back: flight offers
\* (FlightSearch) and hotel offers (HotelSearch).
OffersSound == SearchFormSound /\ SearchSound /\ HotelSearchSound

\* Whoever asks is answered: a flight search ends whatever the suppliers do, and
\* a turn of the assistant ends in a reply.
QuestionsEnd == SearchesEnd /\ (service = "assistant" => ChatTurnsEnd)

\* What is kept in memory is used while it is good, and no longer: supplier
\* tokens (SupplierToken) and exchange rates (LiveRates).
CachesSound == TokensSound /\ CachedRatesAreFresh

\* What is bought is what was asked for at a price that was accepted: the
\* reprice of a fare (FareCheck), the form it is sent from (BookingPage) and
\* the travel policy of who pays (TravelPolicy).
PurchasesSound == FaresSound /\ FormsSound /\ PoliciesSound
=============================================================================
