---------------------------- MODULE FlightSearch ----------------------------
(***************************************************************************)
(* Flight searches: FlightSearchOrchestratorService (search,               *)
(* runOneSupplier, recordSupplierHealth) with FlightNormalizationService   *)
(* (persistOffers, dedupe).  A search asks every active supplier at once,  *)
(* each call racing its timeout; every way a supplier can fail becomes a   *)
(* SearchSupplierRun row and an empty answer; what is left is reduced to   *)
(* the cheapest offer of each product and stored row by row, without a     *)
(* transaction.  SupplierHealth is one row per supplier, shared by all     *)
(* searches, read and written back without a lock.                         *)
(*                                                                         *)
(* `market` says, for each search, which suppliers are active, by          *)
(* priority, and what each would answer.  A product is an itinerary, cabin *)
(* and fare family: what computeFingerprint tells apart.                   *)
(***************************************************************************)
EXTENDS Naturals, FiniteSets, Sequences

CONSTANTS
  Searches,
  FlightSuppliers,
  Markets,          \* functions: Searches -> sequences of [supplier, offers]
  PastFailures,     \* how often a supplier may have failed in a row before
  RowsMayFail       \* whether a write to the database may fail

ASSUME FlightSearchAssumption ==
  /\ PastFailures \subseteq Nat /\ RowsMayFail \in BOOLEAN
  /\ \A m \in Markets : \A r \in Searches : Len(m[r]) \in Nat
  /\ \A m \in Markets : \A r \in Searches : \A i \in 1..Len(m[r]) :
       /\ m[r][i].supplier \in FlightSuppliers /\ \A o \in m[r][i].offers : o.cost \in Nat
       /\ \A j \in 1..Len(m[r]) : m[r][i].supplier = m[r][j].supplier => i = j

VARIABLES
  market,
  searchRow,     \* searchRow[r]: the status of the FlightSearch row
  searchPc,      \* the search request
  callPc,        \* callPc[r][s]: where runOneSupplier is
  outcome,       \* outcome[r][s]: what it is about to record, or has recorded
  runRows,       \* runRows[r][s]: the SearchSupplierRun rows of search r, supplier s
  offerRows,     \* offerRows[r]: the FlightOffer rows
  health,        \* health[s]: the SupplierHealth row; "none" before the first
  healthRead,    \* healthRead[r][s]: the consecutiveErrors it has read
  \* History.
  failures,      \* failures[s]: failures recorded since the last recorded success
  healthOverlap, \* healthOverlap[s]: two searches updated the row at a time
  unrecorded     \* unrecorded[r][s]: the run row could not be written at all

searchHistory == <<failures, healthOverlap, unrecorded>>
flightSearchVars ==
  <<market, searchRow, searchPc, callPc, outcome, runRows, offerRows,
    health, healthRead, searchHistory>>

Active(r) == {market[r][i].supplier : i \in 1..Len(market[r])}
Rank(r, s) == CHOOSE i \in 1..Len(market[r]) : market[r][i].supplier = s
Answer(r, s) == market[r][Rank(r, s)].offers     \* a set of [product, cost]

FlightSearchInit ==
  /\ market \in Markets
  /\ searchRow = [r \in Searches |-> "none"]
  /\ searchPc = [r \in Searches |-> "start"]
  /\ callPc = [r \in Searches |-> [s \in FlightSuppliers |-> "idle"]]
  /\ outcome = [r \in Searches |-> [s \in FlightSuppliers |-> "none"]]
  /\ runRows = [r \in Searches |-> [s \in FlightSuppliers |-> <<>>]]
  /\ offerRows = [r \in Searches |-> {}]
  /\ failures \in [FlightSuppliers -> PastFailures]
  /\ health = [s \in FlightSuppliers |->
       [status |-> IF failures[s] = 0 THEN "none"
                   ELSE IF failures[s] < 3 THEN "DEGRADED" ELSE "OFFLINE",
        errors |-> failures[s]]]
  /\ healthRead = [r \in Searches |-> [s \in FlightSuppliers |-> 0]]
  /\ healthOverlap = [s \in FlightSuppliers |-> FALSE]
  /\ unrecorded = [r \in Searches |-> [s \in FlightSuppliers |-> FALSE]]

-----------------------------------------------------------------------------
\* The search row is created PENDING and every active supplier is called.
StartSearch(r) ==
  /\ searchPc[r] = "start"
  /\ searchRow' = [searchRow EXCEPT ![r] = "PENDING"]
  /\ searchPc' = [searchPc EXCEPT ![r] = "suppliers"]
  /\ callPc' = [callPc EXCEPT ![r] =
       [s \in FlightSuppliers |-> IF s \in Active(r) THEN "calling" ELSE "idle"]]
  /\ UNCHANGED <<market, outcome, runRows, offerRows, health, healthRead, searchHistory>>

-----------------------------------------------------------------------------
(* runOneSupplier                                                          *)

Running(r, s, at) == searchPc[r] = "suppliers" /\ callPc[r][s] = at

Settle(r, s, result) ==
  /\ callPc' = [callPc EXCEPT ![r][s] = "writeRun"]
  /\ outcome' = [outcome EXCEPT ![r][s] = result]
  /\ UNCHANGED <<market, searchRow, searchPc, runRows, offerRows, health, healthRead,
                 searchHistory>>

\* The supplier answers or throws, whenever it likes - or never.
SupplierAnswers(r, s) ==
  /\ Running(r, s, "calling")
  /\ \E result \in {"SUCCESS", "ERROR"} : Settle(r, s, result)

\* Mutant: the call does not race a timer.
TimeOutNever(r, s) ==
  /\ Running(r, s, "calling")
  /\ FALSE
  /\ Settle(r, s, "TIMEOUT")

\* withTimeout: the timer wins; whatever the supplier answers later is dropped.
TimeOut(r, s) ==
  /\ Running(r, s, "calling")
  /\ Settle(r, s, "TIMEOUT")

WriteRun(r, s) ==
  /\ Running(r, s, "writeRun")
  /\ runRows' = [runRows EXCEPT ![r][s] = Append(@, outcome[r][s])]
  /\ callPc' = [callPc EXCEPT ![r][s] = "readHealth"]
  /\ UNCHANGED <<market, searchRow, searchPc, outcome, offerRows, health, healthRead,
                 searchHistory>>

\* The row of a success cannot be written: the catch block records an ERROR.
\* The row of a failure cannot be written: the call rejects.
RunRowFails(r, s) ==
  /\ RowsMayFail
  /\ Running(r, s, "writeRun")
  /\ IF outcome[r][s] = "SUCCESS"
     THEN /\ outcome' = [outcome EXCEPT ![r][s] = "ERROR"]
          /\ UNCHANGED <<callPc, unrecorded>>
     ELSE /\ callPc' = [callPc EXCEPT ![r][s] = "settled"]
          /\ unrecorded' = [unrecorded EXCEPT ![r][s] = TRUE]
          /\ UNCHANGED outcome
  /\ UNCHANGED <<market, searchRow, searchPc, runRows, offerRows, health, healthRead,
                 failures, healthOverlap>>

-----------------------------------------------------------------------------
(* recordSupplierHealth                                                    *)

ReadHealth(r, s) ==
  /\ Running(r, s, "readHealth")
  /\ healthRead' = [healthRead EXCEPT ![r][s] = health[s].errors]
  /\ callPc' = [callPc EXCEPT ![r][s] = "writeHealth"]
  /\ healthOverlap' = [healthOverlap EXCEPT ![s] =
       @ \/ \E other \in Searches \ {r} : Running(other, s, "writeHealth")]
  /\ UNCHANGED <<market, searchRow, searchPc, outcome, runRows, offerRows, health,
                 failures, unrecorded>>

\* Mutant: the result is the status.
HealthAfterRaw(result, errors) ==
  [status |-> result, errors |-> IF result = "SUCCESS" THEN 0 ELSE errors + 1]

HealthAfter(result, errors) ==
  IF result = "SUCCESS" THEN [status |-> "ONLINE", errors |-> 0]
  ELSE [status |-> IF result = "TIMEOUT" THEN "TIMEOUT"
                   ELSE IF errors + 1 >= 3 THEN "OFFLINE" ELSE "DEGRADED",
        errors |-> errors + 1]

WriteHealth(r, s) ==
  /\ Running(r, s, "writeHealth")
  /\ health' = [health EXCEPT ![s] = HealthAfter(outcome[r][s], healthRead[r][s])]
  /\ failures' = [failures EXCEPT ![s] = IF outcome[r][s] = "SUCCESS" THEN 0 ELSE @ + 1]
  /\ healthRead' = [healthRead EXCEPT ![r][s] = 0]
  /\ callPc' = [callPc EXCEPT ![r][s] = "settled"]
  /\ UNCHANGED <<market, searchRow, searchPc, outcome, runRows, offerRows,
                 healthOverlap, unrecorded>>

\* Its own failures are swallowed.
HealthFails(r, s) ==
  /\ RowsMayFail
  /\ \E at \in {"readHealth", "writeHealth"} : Running(r, s, at)
  /\ healthRead' = [healthRead EXCEPT ![r][s] = 0]
  /\ callPc' = [callPc EXCEPT ![r][s] = "settled"]
  /\ UNCHANGED <<market, searchRow, searchPc, outcome, runRows, offerRows, health,
                 searchHistory>>

-----------------------------------------------------------------------------
(* persistOffers                                                           *)

\* allSettled: every call has ended, well or badly.
AllSettled(r) ==
  /\ searchPc[r] = "suppliers"
  /\ \A s \in Active(r) : callPc[r][s] = "settled"
  /\ searchPc' = [searchPc EXCEPT ![r] = "persist"]
  /\ UNCHANGED <<market, searchRow, callPc, outcome, runRows, offerRows, health, healthRead,
                 searchHistory>>

RawOffers(r) ==
  UNION {{[supplier |-> s, product |-> o.product, cost |-> o.cost] : o \in Answer(r, s)} :
           s \in {x \in Active(r) : outcome[r][x] = "SUCCESS"}}

\* Mutant: the first supplier to have a product keeps it, dear or cheap.
DedupeFirst(r) ==
  {o \in RawOffers(r) :
     \A p \in RawOffers(r) :
       p.product = o.product /\ p # o => Rank(r, o.supplier) <= Rank(r, p.supplier)}

\* dedupe: the cheapest before markup; of equals, the first.
Dedupe(r) ==
  {o \in RawOffers(r) :
     \A p \in RawOffers(r) :
       p.product = o.product /\ p # o =>
         \/ o.cost < p.cost
         \/ o.cost = p.cost /\ Rank(r, o.supplier) <= Rank(r, p.supplier)}

\* The offers are stored one after the other.
PersistOffer(r) ==
  /\ searchPc[r] = "persist"
  /\ \E o \in Dedupe(r) \ offerRows[r] :
       offerRows' = [offerRows EXCEPT ![r] = @ \cup {o}]
  /\ UNCHANGED <<market, searchRow, searchPc, callPc, outcome, runRows, health, healthRead,
                 searchHistory>>

CompleteSearch(r) ==
  /\ searchPc[r] = "persist"
  /\ offerRows[r] = Dedupe(r)
  /\ searchRow' = [searchRow EXCEPT ![r] = "COMPLETED"]
  /\ searchPc' = [searchPc EXCEPT ![r] = "done"]
  /\ UNCHANGED <<market, callPc, outcome, runRows, offerRows, health, healthRead,
                 searchHistory>>

\* A write fails while the offers are stored, or the process dies: the search
\* stays PENDING with the offers it has.
SearchDies(r) ==
  /\ RowsMayFail
  /\ searchPc[r] \in {"suppliers", "persist"}
  /\ searchPc' = [searchPc EXCEPT ![r] = "dead"]
  /\ UNCHANGED <<market, searchRow, callPc, outcome, runRows, offerRows, health, healthRead,
                 searchHistory>>

\* What the service does once it runs; the suppliers' answers are theirs.
CallStep(r, s) ==
  TimeOut(r, s) \/ WriteRun(r, s) \/ ReadHealth(r, s) \/ WriteHealth(r, s)
SearchStep(r) == AllSettled(r) \/ PersistOffer(r) \/ CompleteSearch(r)

FlightSearchNext ==
  \E r \in Searches :
    \/ StartSearch(r) \/ SearchStep(r) \/ SearchDies(r)
    \/ \E s \in Active(r) :
         \/ SupplierAnswers(r, s) \/ CallStep(r, s)
         \/ RunRowFails(r, s) \/ HealthFails(r, s)

FlightSearchSpec == FlightSearchInit /\ [][FlightSearchNext]_flightSearchVars
-----------------------------------------------------------------------------
(* Properties.                                                             *)

Results == {"SUCCESS", "ERROR", "TIMEOUT"}

FlightSearchTypeOK ==
  /\ market \in Markets
  /\ searchRow \in [Searches -> {"none", "PENDING", "COMPLETED"}]
  /\ searchPc \in [Searches -> {"start", "suppliers", "persist", "done", "dead"}]
  /\ callPc \in [Searches -> [FlightSuppliers ->
       {"idle", "calling", "writeRun", "readHealth", "writeHealth", "settled"}]]
  /\ outcome \in [Searches -> [FlightSuppliers -> Results \cup {"none"}]]
  /\ \A r \in Searches, s \in FlightSuppliers : runRows[r][s] \in Seq(Results)
  /\ \A r \in Searches : offerRows[r] \subseteq RawOffers(r)
  /\ \A s \in FlightSuppliers :
       /\ health[s].status \in {"none", "ONLINE", "DEGRADED", "TIMEOUT", "OFFLINE"}
       /\ health[s].errors \in Nat
  /\ healthRead \in [Searches -> [FlightSuppliers -> Nat]]
  /\ failures \in [FlightSuppliers -> Nat]
  /\ healthOverlap \in [FlightSuppliers -> BOOLEAN]
  /\ unrecorded \in [Searches -> [FlightSuppliers -> BOOLEAN]]

Succeeded(r) == {s \in Active(r) : runRows[r][s] = <<"SUCCESS">>}

\* A completed search lists every product of every supplier whose run row says
\* SUCCESS, once, at the lowest cost any of them asked - however the others
\* failed, timed out or answered late - and nothing of anyone else.
OffersAreTheCheapest ==
  \A r \in Searches : searchRow[r] = "COMPLETED" =>
    /\ \A s \in Succeeded(r) : \A o \in Answer(r, s) :
         \E p \in offerRows[r] : p.product = o.product /\ p.cost <= o.cost
    /\ \A p, q \in offerRows[r] : p.product = q.product => p = q
    /\ \A p \in offerRows[r] : p.supplier \in Succeeded(r)

\* A completed search has exactly one run row for each supplier it called,
\* unless the row of a failure could not be written either.
EverySupplierIsAccounted ==
  \A r \in Searches : searchRow[r] = "COMPLETED" =>
    \A s \in Active(r) : Len(runRows[r][s]) = IF unrecorded[r][s] THEN 0 ELSE 1

\* "3+ consecutive failures reads as OFFLINE, 1-2 as DEGRADED": until two
\* searches update a supplier's row at a time, it counts the failures recorded
\* since the last success, and OFFLINE means at least three of them.
HealthCountsFailures ==
  \A s \in FlightSuppliers : ~healthOverlap[s] =>
    /\ health[s].errors = failures[s]
    /\ health[s].status = "OFFLINE" => failures[s] >= 3
    /\ health[s].status = "DEGRADED" => failures[s] \in 1..2

\* A search ends even if a supplier never answers.
SearchesEnd ==
  \A r \in Searches : searchPc[r] = "suppliers" ~> searchPc[r] \in {"done", "dead"}

\* What a completed search tells: the offers, the run rows and the health of
\* the suppliers are those of the calls that were really answered.
SearchSound ==
  /\ OffersAreTheCheapest
  /\ EverySupplierIsAccounted
  /\ HealthCountsFailures
=============================================================================
