----------------------------- MODULE HotelSearch -----------------------------
(***************************************************************************)
(* One hotel search: HotelSearchOrchestratorService.search.  The adapters  *)
(* are asked one after the other, each for every property of the city in   *)
(* turn, under a timeout; the offers of an answer are stored one by one    *)
(* inside the same try block, and a run row sums up each adapter.          *)
(***************************************************************************)
EXTENDS Naturals, Sequences

CONSTANTS
  HotelAdapters,     \* the adapters, a sequence in the order of registration
  CityHotels,        \* how many properties the city has
  MaxOffers,         \* bound on the offers of one answer
  HotelRowsMayFail   \* whether a write to the database may fail

ASSUME HotelSearchAssumption ==
  /\ HotelAdapters \in Seq(STRING) /\ CityHotels \in Nat /\ MaxOffers \in Nat
  /\ HotelRowsMayFail \in BOOLEAN

VARIABLES
  hsPc,        \* "start", "ask", "store", "sumUp", "done", "dead"
  adapter,     \* the index of the adapter
  property,    \* the index of the property
  toStore,     \* offers of the current answer not stored yet
  offerCount, failedCalls,   \* runStats of the adapter
  hotelRuns,   \* the run rows: sequence of [status, offerCount]
  storedOffers \* storedOffers[i]: HotelOffer rows of the i-th adapter

hotelSearchVars ==
  <<hsPc, adapter, property, toStore, offerCount, failedCalls, hotelRuns, storedOffers>>

HotelSearchInit ==
  /\ hsPc = "start"
  /\ adapter = 1 /\ property = 1
  /\ toStore = 0
  /\ offerCount = 0 /\ failedCalls = 0
  /\ hotelRuns = <<>>
  /\ storedOffers = [i \in 1..Len(HotelAdapters) |-> 0]

\* What comes after a property: the next one, or the adapter's run row.
NextCall ==
  /\ property' = property + 1
  /\ hsPc' = IF property < CityHotels THEN "ask" ELSE "sumUp"

BeginHotelSearch ==
  /\ hsPc = "start"
  /\ hsPc' = IF HotelAdapters = <<>> THEN "done" ELSE IF CityHotels = 0 THEN "sumUp" ELSE "ask"
  /\ UNCHANGED <<adapter, property, toStore, offerCount, failedCalls, hotelRuns, storedOffers>>

\* The answer is counted before any of it is stored.
HotelsAnswered ==
  /\ hsPc = "ask"
  /\ \E n \in 0..MaxOffers :
       /\ offerCount' = offerCount + n
       /\ toStore' = n
       /\ IF n > 0 THEN hsPc' = "store" /\ UNCHANGED property ELSE NextCall
  /\ UNCHANGED <<adapter, failedCalls, hotelRuns, storedOffers>>

\* The adapter throws or does not answer in time.
HotelCallFails ==
  /\ hsPc = "ask"
  /\ failedCalls' = failedCalls + 1
  /\ NextCall
  /\ UNCHANGED <<adapter, toStore, offerCount, hotelRuns, storedOffers>>

StoreHotelOffer ==
  /\ hsPc = "store"
  /\ storedOffers' = [storedOffers EXCEPT ![adapter] = @ + 1]
  /\ toStore' = toStore - 1
  /\ IF toStore > 1 THEN UNCHANGED <<hsPc, property>> ELSE NextCall
  /\ UNCHANGED <<adapter, offerCount, failedCalls, hotelRuns>>

\* Mutant: an offer that cannot be stored is skipped in silence.
StoreSkips ==
  /\ HotelRowsMayFail
  /\ hsPc = "store"
  /\ toStore' = toStore - 1
  /\ IF toStore > 1 THEN UNCHANGED <<hsPc, property>> ELSE NextCall
  /\ UNCHANGED <<adapter, offerCount, failedCalls, hotelRuns, storedOffers>>

\* A row cannot be written: caught as an error of the property, whose
\* remaining offers are dropped - after they were counted.
StoreFails ==
  /\ HotelRowsMayFail
  /\ hsPc = "store"
  /\ toStore' = 0
  /\ failedCalls' = failedCalls + 1
  /\ NextCall
  /\ UNCHANGED <<adapter, offerCount, hotelRuns, storedOffers>>

RunStatus ==
  IF failedCalls = 0 THEN "SUCCESS" ELSE IF offerCount > 0 THEN "PARTIAL" ELSE "ERROR"

\* The adapter's run row; the counters are new for the next adapter.
SumUp ==
  /\ hsPc = "sumUp"
  /\ hotelRuns' = Append(hotelRuns, [status |-> RunStatus, offerCount |-> offerCount])
  /\ adapter' = adapter + 1
  /\ property' = 1
  /\ offerCount' = 0 /\ failedCalls' = 0
  /\ hsPc' = IF adapter = Len(HotelAdapters) THEN "done"
             ELSE IF CityHotels = 0 THEN "sumUp" ELSE "ask"
  /\ UNCHANGED <<toStore, storedOffers>>

\* The run row itself cannot be written: the request fails.
SumUpFails ==
  /\ HotelRowsMayFail
  /\ hsPc = "sumUp"
  /\ hsPc' = "dead"
  /\ UNCHANGED <<adapter, property, toStore, offerCount, failedCalls, hotelRuns, storedOffers>>

HotelSearchNext ==
  \/ BeginHotelSearch \/ HotelsAnswered \/ HotelCallFails
  \/ StoreHotelOffer \/ StoreFails \/ SumUp \/ SumUpFails

HotelSearchSpec == HotelSearchInit /\ [][HotelSearchNext]_hotelSearchVars
-----------------------------------------------------------------------------
(* Properties.                                                             *)

HotelSearchTypeOK ==
  /\ hsPc \in {"start", "ask", "store", "sumUp", "done", "dead"}
  /\ adapter \in 1..(Len(HotelAdapters) + 1) /\ property \in 1..(CityHotels + 1)
  /\ toStore \in 0..MaxOffers
  /\ offerCount \in 0..(CityHotels * MaxOffers) /\ failedCalls \in 0..CityHotels
  /\ hotelRuns \in Seq([status : {"SUCCESS", "PARTIAL", "ERROR"}, offerCount : Nat])
  /\ storedOffers \in [1..Len(HotelAdapters) -> Nat]

\* The run row tells what became of an adapter's offers: SUCCESS stored every
\* offer it counts, ERROR none, PARTIAL at most those it counts - it counts the
\* offers of an answer also when storing them failed half way.
RunRowsMatchOffers ==
  \A i \in 1..Len(hotelRuns) :
    /\ hotelRuns[i].status = "SUCCESS" => storedOffers[i] = hotelRuns[i].offerCount
    /\ hotelRuns[i].status = "ERROR" => storedOffers[i] = 0
    /\ hotelRuns[i].status = "PARTIAL" => storedOffers[i] <= hotelRuns[i].offerCount

\* However adapters and properties fail, a search that answers has asked every
\* adapter: one run row each, in order.
EveryAdapterIsAsked ==
  hsPc = "done" => Len(hotelRuns) = Len(HotelAdapters)

\* A hotel search asks everybody and its run rows match what was stored.
HotelSearchSound == RunRowsMatchOffers /\ EveryAdapterIsAsked
=============================================================================
