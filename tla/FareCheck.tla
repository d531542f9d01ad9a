------------------------------ MODULE FareCheck ------------------------------
(***************************************************************************)
(* What a flight costs when it is booked: the raw offers AmadeusFlight-    *)
(* SupplierAdapter keeps in Redis (searchFlights, repriceFlight), the      *)
(* reprice FlightsController offers as a preview, and the mandatory        *)
(* reprice of BookingsService.createBooking, up to the booking row.        *)
(*                                                                         *)
(* repriceFlight compares the supplier's new price with the price of the   *)
(* cached offer, and replaces the cached offer; the caller takes its       *)
(* answer "unchanged" to mean the price of the stored FlightOffer row.     *)
(***************************************************************************)
EXTENDS Naturals

CONSTANTS
  FareOffers,      \* the FlightOffer rows, one search each
  CacheKeys,       \* supplierOfferIds
  FareRequests,
  FareScenarios,   \* functions: FareRequests -> what each asks for
  KeyMaps,         \* functions: FareOffers -> CacheKeys, as the supplier names them
  FareLevels,      \* the prices the supplier may ask
  Markup

ASSUME FareAssumption ==
  /\ FareLevels \subseteq Nat \ {0} /\ Markup \in Nat
  /\ KeyMaps \subseteq [FareOffers -> CacheKeys]
  /\ \A scenario \in FareScenarios : \A t \in FareRequests :
       scenario[t] \in [op : {"preview", "book"}, offer : FareOffers, accepted : Nat]

VARIABLES
  order,        \* order[t]: what request t asks for, fixed by the scenario;
                \* accepted = 0: it accepts no other price
  keyOf,        \* keyOf[o]: the supplierOfferId of offer o, fixed by the scenario
  asking,       \* asking[o]: what the supplier asks for the product of o now
  quoted,       \* quoted[o]: the price in the FlightOffer row; 0 before the search
  cached,       \* cached[k]: the raw offer in Redis, or NoEntry
  farePc, fareRead,   \* the requests, and the raw offer each has read
  newPrice,     \* newPrice[t]: what the supplier answered it
  bought        \* bought[t]: the price of its booking; NoSale before

fareVars == <<order, keyOf, asking, quoted, cached, farePc, fareRead, newPrice, bought>>

\* `own` is a history field: the entry is the one the search of its offer stored.
NoEntry == [offer |-> "none", price |-> 0, own |-> FALSE]
NoSale == [total |-> 0, verified |-> 0, own |-> FALSE]

FareInit ==
  /\ order \in FareScenarios
  /\ keyOf \in KeyMaps
  /\ asking \in [FareOffers -> FareLevels]
  /\ quoted = [o \in FareOffers |-> 0]
  /\ cached = [k \in CacheKeys |-> NoEntry]
  /\ farePc = [t \in FareRequests |-> "start"]
  /\ fareRead = [t \in FareRequests |-> NoEntry]
  /\ newPrice = [t \in FareRequests |-> 0]
  /\ bought = [t \in FareRequests |-> NoSale]

Key(t) == keyOf[order[t].offer]

\* A search: the raw offer goes to Redis, its price to the FlightOffer row.
\* A later search whose offer has the same id replaces the entry.
SearchStores(o) ==
  /\ quoted[o] = 0
  /\ quoted' = [quoted EXCEPT ![o] = asking[o]]
  /\ cached' = [cached EXCEPT ![keyOf[o]] =
       [offer |-> o, price |-> asking[o], own |-> TRUE]]
  /\ UNCHANGED <<order, keyOf, asking, farePc, fareRead, newPrice, bought>>

\* The supplier changes a price.
PriceMoves(o) ==
  /\ \E price \in FareLevels \ {asking[o]} : asking' = [asking EXCEPT ![o] = price]
  /\ UNCHANGED <<order, keyOf, quoted, cached, farePc, fareRead, newPrice, bought>>

\* Redis drops the entry after 25 minutes.
EntryExpires(k) ==
  /\ cached[k] # NoEntry
  /\ cached' = [cached EXCEPT ![k] = NoEntry]
  /\ UNCHANGED <<order, keyOf, asking, quoted, farePc, fareRead, newPrice, bought>>

FareEnd(t) ==
  /\ farePc' = [farePc EXCEPT ![t] = "done"]
  /\ fareRead' = [fareRead EXCEPT ![t] = NoEntry]
  /\ newPrice' = [newPrice EXCEPT ![t] = 0]

\* getCachedOffer: without the entry the fare is reported as not available.
ReadCached(t) ==
  /\ farePc[t] = "start"
  /\ quoted[order[t].offer] > 0
  /\ IF cached[Key(t)] = NoEntry
     THEN FareEnd(t)
     ELSE /\ fareRead' = [fareRead EXCEPT ![t] = cached[Key(t)]]
          /\ farePc' = [farePc EXCEPT ![t] = "price"]
          /\ UNCHANGED newPrice
  /\ UNCHANGED <<order, keyOf, asking, quoted, cached, bought>>

\* The supplier prices the raw offer.
AskPrice(t) ==
  /\ farePc[t] = "price"
  /\ newPrice' = [newPrice EXCEPT ![t] = asking[fareRead[t].offer]]
  /\ farePc' = [farePc EXCEPT ![t] = "replace"]
  /\ UNCHANGED <<order, keyOf, asking, quoted, cached, fareRead, bought>>

\* The call fails, or the supplier no longer has the offer.
PriceUnavailable(t) ==
  /\ farePc[t] = "price"
  /\ FareEnd(t)
  /\ UNCHANGED <<order, keyOf, asking, quoted, cached, bought>>

\* The priced offer replaces the entry.
ReplaceCached(t) ==
  /\ farePc[t] = "replace"
  /\ cached' = [cached EXCEPT ![Key(t)] =
       [offer |-> fareRead[t].offer, price |-> newPrice[t], own |-> FALSE]]
  /\ farePc' = [farePc EXCEPT ![t] = "decide"]
  /\ UNCHANGED <<order, keyOf, asking, quoted, fareRead, newPrice, bought>>

\* Redis refuses the write: the catch block reports the fare as not available.
ReplaceFails(t) ==
  /\ farePc[t] = "replace"
  /\ FareEnd(t)
  /\ UNCHANGED <<order, keyOf, asking, quoted, cached, bought>>

\* What the adapter reports.
PriceChanged(t) == newPrice[t] # fareRead[t].price
NewTotal(t) == newPrice[t] + Markup
QuotedTotal(t) == quoted[order[t].offer] + Markup

\* Mutant: a changed price need not be accepted.
AcceptsAnyPrice(t) == TRUE

Accepts(t) == PriceChanged(t) => order[t].accepted = NewTotal(t)

FinalTotal(t) == IF PriceChanged(t) THEN NewTotal(t) ELSE QuotedTotal(t)

\* createBooking: a changed price must have been accepted; the wallet and the
\* travel policy, looked at next, may refuse as well.
Book(t) ==
  /\ farePc[t] = "decide"
  /\ order[t].op = "book"
  /\ Accepts(t)
  /\ bought' = [bought EXCEPT ![t] =
       [total |-> FinalTotal(t), verified |-> NewTotal(t),
        own |-> fareRead[t].own /\ fareRead[t].offer = order[t].offer]]
  /\ FareEnd(t)
  /\ UNCHANGED <<order, keyOf, asking, quoted, cached>>

\* PriceChangedError, a refusal, or the end of a preview.
RefuseOrShow(t) ==
  /\ farePc[t] = "decide"
  /\ FareEnd(t)
  /\ UNCHANGED <<order, keyOf, asking, quoted, cached, bought>>

FareNext ==
  \/ \E o \in FareOffers : SearchStores(o) \/ PriceMoves(o)
  \/ \E k \in CacheKeys : EntryExpires(k)
  \/ \E t \in FareRequests :
       \/ ReadCached(t) \/ AskPrice(t) \/ PriceUnavailable(t)
       \/ ReplaceCached(t) \/ ReplaceFails(t) \/ Book(t) \/ RefuseOrShow(t)

FareSpec == FareInit /\ [][FareNext]_fareVars
-----------------------------------------------------------------------------
(* Properties.                                                             *)

Entries == [offer : FareOffers, price : FareLevels, own : BOOLEAN] \cup {NoEntry}

FareTypeOK ==
  /\ order \in FareScenarios /\ keyOf \in KeyMaps
  /\ asking \in [FareOffers -> FareLevels]
  /\ quoted \in [FareOffers -> FareLevels \cup {0}]
  /\ cached \in [CacheKeys -> Entries]
  /\ farePc \in [FareRequests -> {"start", "price", "replace", "decide", "done"}]
  /\ fareRead \in [FareRequests -> Entries]
  /\ newPrice \in [FareRequests -> FareLevels \cup {0}]
  /\ bought \in [FareRequests -> [total : Nat, verified : Nat, own : BOOLEAN]]

Booked(t) == bought[t] # NoSale

\* "a booking is never created against a price that wasn't just re-verified
\* with the supplier" (bookings.service.ts): what the booking costs is what the
\* supplier asked in its reprice, with the markup.  The code does not keep
\* this: see the violation run.
BookedAtVerifiedPrice ==
  \A t \in FareRequests : Booked(t) => bought[t].total = bought[t].verified

\* It is kept for the first reprice of an offer after its search: as long as
\* the cached offer is still the one the FlightOffer row was made from.
FirstRepriceIsTheRealOne ==
  \A t \in FareRequests : Booked(t) /\ bought[t].own => bought[t].total = bought[t].verified

\* "explicit price-change confirmation": whatever is cached, and whoever else
\* reprices, nobody is booked at a price he was neither shown in the search
\* nor accepted.
NothingUnacceptedIsBooked ==
  \A t \in FareRequests : Booked(t) =>
    bought[t].total \in {quoted[order[t].offer] + Markup, order[t].accepted}

\* The fares that the reprice does keep: the first one is real, and no price
\* is booked that the traveller did not see or accept.
FaresSound == FirstRepriceIsTheRealOne /\ NothingUnacceptedIsBooked
=============================================================================
