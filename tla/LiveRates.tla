----------------------------- MODULE LiveRates -----------------------------
(***************************************************************************)
(* FxRatesService.getRates with a live provider configured: its rates are  *)
(* kept in memory for an hour, callers that find none each ask for         *)
(* themselves, and whoever gets an error converts with the static table.   *)
(***************************************************************************)
EXTENDS Naturals

CONSTANTS
  Converters,   \* concurrent calls of convert, repeated any number of times
  RatesTtl,     \* LIVE_CACHE_TTL_MS
  RatesLastTick \* bound on the clock

ASSUME RatesAssumption == RatesTtl \in Nat /\ RatesLastTick \in Nat

VARIABLES
  ratesClock,
  liveCache,  \* [quotedAt, fetchedAt]: the provider's and the service's date, or NoRates
  fetching,   \* fetching[c]: when c asked the provider, or Idle
  tableUsed   \* history: the table c used last, and the age of its quotes

ratesVars == <<ratesClock, liveCache, fetching, tableUsed>>

Idle == RatesLastTick + 1
NoRates == [quotedAt |-> Idle, fetchedAt |-> Idle]
NoTable == [table |-> "none", age |-> 0]

RatesTypeOK ==
  /\ ratesClock \in 0..RatesLastTick
  /\ liveCache \in [quotedAt : 0..RatesLastTick, fetchedAt : 0..RatesLastTick] \cup {NoRates}
  /\ fetching \in [Converters -> 0..Idle]
  /\ tableUsed \in [Converters -> [table : {"none", "cache", "static"}, age : 0..RatesLastTick]]

RatesInit ==
  /\ ratesClock = 0
  /\ liveCache = NoRates
  /\ fetching = [c \in Converters |-> Idle]
  /\ tableUsed = [c \in Converters |-> NoTable]

CacheIsLive == liveCache # NoRates /\ ratesClock - liveCache.fetchedAt < RatesTtl

Used(c, table, age) == tableUsed' = [tableUsed EXCEPT ![c] = [table |-> table, age |-> age]]

ConvertFromCache(c) ==
  /\ fetching[c] = Idle
  /\ CacheIsLive
  /\ Used(c, "cache", ratesClock - liveCache.quotedAt)
  /\ UNCHANGED <<ratesClock, liveCache, fetching>>

FetchRates(c) ==
  /\ fetching[c] = Idle
  /\ ~CacheIsLive
  /\ fetching' = [fetching EXCEPT ![c] = ratesClock]
  /\ UNCHANGED <<ratesClock, liveCache, tableUsed>>

\* Mutant: the rates are dated when they arrive.
DateOnArrival(asked) == ratesClock
\* The rates are dated from before the call.
DateOfFetch(asked) == asked

\* The answer replaces whatever the cache holds, also what was asked later.
RatesArrive(c) ==
  /\ fetching[c] # Idle
  /\ \E quotedAt \in fetching[c]..ratesClock :
       liveCache' = [quotedAt |-> quotedAt, fetchedAt |-> DateOfFetch(fetching[c])]
  /\ fetching' = [fetching EXCEPT ![c] = Idle]
  /\ tableUsed' = [tableUsed EXCEPT ![c] = NoTable]
  /\ UNCHANGED ratesClock

\* An HTTP error, a broken connection or an answer without rates: this call
\* uses the static table, and the next one asks again.
RatesFail(c) ==
  /\ fetching[c] # Idle
  /\ fetching' = [fetching EXCEPT ![c] = Idle]
  /\ Used(c, "static", 0)
  /\ UNCHANGED <<ratesClock, liveCache>>

RatesTick ==
  /\ ratesClock < RatesLastTick
  /\ ratesClock' = ratesClock + 1
  /\ UNCHANGED <<liveCache, fetching, tableUsed>>

RatesNext ==
  \/ \E c \in Converters :
       ConvertFromCache(c) \/ FetchRates(c) \/ RatesArrive(c) \/ RatesFail(c)
  \/ RatesTick

RatesSpec == RatesInit /\ [][RatesNext]_ratesVars
-----------------------------------------------------------------------------
(* Properties.                                                             *)

\* "1 hour": no amount is converted with cached rates that the provider quoted
\* an hour ago or more, however long an answer took and whichever of several
\* answers came last.
CachedRatesAreFresh ==
  \A c \in Converters : tableUsed[c].table = "cache" => tableUsed[c].age < RatesTtl
=============================================================================
