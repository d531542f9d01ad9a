--------------------------- MODULE Pricing_proofs ---------------------------
(***************************************************************************)
(* Proofs about prices: the token of the supplier, exchange rates, markup  *)
(* rules, the reprice of a fare, travel policies and the page on which a   *)
(* traveller books, each for any number of requests in any order; then about*)
(* the run that joins them.                                                *)
(***************************************************************************)
EXTENDS MC_Search, FiniteSetTheorems, TLAPS
-----------------------------------------------------------------------------
(* The token of the supplier (SupplierToken).                              *)

\* At most one request is under way, made before now.
RequestsInv ==
  /\ \A x, y \in requests : x = y
  /\ \A x \in requests : x.since <= clock
  /\ requests = {} => \A c \in TokenCallers : callerPc[c] = "idle"

\* While the adapter takes its token for good, the supplier will for the margin
\* more; a token that lives no longer than the margin is never taken for good.
CacheInv ==
  /\ cachedToken.expiresAt > 0 =>
       \/ cachedToken.validUntil >= cachedToken.expiresAt + Margin
       \/ Lifetime <= Margin /\ cachedToken.expiresAt <= clock

TokenInv == TokenTypeOK /\ RequestsInv /\ CacheInv /\ TokensAreFresh

LEMMA TokenInitInv == TokenInit => TokenInv
<1> SUFFICES ASSUME TokenInit PROVE TokenInv
  OBVIOUS
<1> USE TokenAssumption DEF TokenInit
<1>1. TokenTypeOK
  BY DEF TokenTypeOK
<1>2. RequestsInv /\ CacheInv
  BY DEF RequestsInv, CacheInv
<1>3. TokensAreFresh
  BY DEF TokensAreFresh
<1> QED BY <1>1, <1>2, <1>3 DEF TokenInv

LEMMA TokenStepInv == TokenInv /\ [TokenNext]_tokenVars => TokenInv'
<1> SUFFICES ASSUME TokenInv, [TokenNext]_tokenVars PROVE TokenInv'
  OBVIOUS
<1> USE TokenAssumption DEF TokenInv
<1>1. ASSUME NEW c \in TokenCallers, UseCached(c) PROVE TokenInv'
  <2> USE <1>1 DEF UseCached, CachedIsFresh
  <2>1. /\ clock \in Nat /\ clock <= LastTick
        /\ cachedToken.validUntil \in Nat /\ cachedToken.expiresAt \in Nat
        /\ cachedToken.validUntil <= LastTick + Lifetime
    BY DEF TokenTypeOK
  <2> DEFINE left == IF cachedToken.validUntil > clock THEN cachedToken.validUntil - clock ELSE 0
  <2>2. left \in 0..(LastTick + Lifetime)
    BY <2>1
  <2>3. left > Margin
    BY <2>1 DEF CacheInv
  <2>4. handedOut' = [handedOut EXCEPT ![c] = left]
    OBVIOUS
  <2> HIDE DEF left
  <2>5. TokenTypeOK'
    BY <2>2, <2>4 DEF TokenTypeOK
  <2>6. TokensAreFresh'
    BY <2>3, <2>4 DEF TokensAreFresh, TokenTypeOK
  <2> QED BY <2>5, <2>6 DEF RequestsInv, CacheInv
<1>2. ASSUME NEW c \in TokenCallers, JoinRequest(c) \/ RequestToken(c) PROVE TokenInv'
  <2> USE <1>2 DEF JoinRequest, RequestToken
  <2>1. TokenTypeOK'
    BY DEF TokenTypeOK
  <2> DEFINE mine == [by |-> c, since |-> clock]
  <2>2. mine.since = clock /\ clock \in Nat /\ clock' = clock
    BY DEF TokenTypeOK
  <2> HIDE DEF mine
  <2>3. requests' \in {requests, {mine}} /\ requests' # {}
    BY DEF mine
  <2>4. RequestsInv'
    <3>1. CASE requests' = requests
      BY <3>1, <2>2, <2>3 DEF RequestsInv
    <3>2. CASE requests' = {mine}
      <4>1. mine.since <= clock'
        BY <2>2
      <4> QED BY <3>2, <4>1 DEF RequestsInv
    <3> QED BY <3>1, <3>2, <2>3
  <2> QED BY <2>1, <2>4 DEF CacheInv, TokensAreFresh
<1>3. ASSUME NEW request \in requests, TokenAnswered(request) PROVE TokenInv'
  <2> USE <1>3 DEF TokenAnswered
  <2>1. PICK issued \in request.since..clock :
          cachedToken' = [expiresAt |-> EarlyExpiry(request.since), validUntil |-> issued + Lifetime]
    OBVIOUS
  <2>2. request.since \in Nat /\ clock \in Nat /\ clock <= LastTick /\ request.since <= clock
    BY DEF TokenTypeOK, RequestsInv
  <2>3. /\ EarlyExpiry(request.since) \in 0..(LastTick + Lifetime)
        /\ issued + Lifetime \in 0..(LastTick + Lifetime)
        /\ \/ issued + Lifetime >= EarlyExpiry(request.since) + Margin
           \/ Lifetime <= Margin /\ EarlyExpiry(request.since) <= clock
    BY <2>2 DEF EarlyExpiry
  <2>4. CacheInv'
    BY <2>1, <2>3 DEF CacheInv
  <2>5. TokenTypeOK'
    BY <2>1, <2>3 DEF TokenTypeOK
  <2>6. RequestsInv'
    BY DEF RequestsInv
  <2> QED BY <2>4, <2>5, <2>6 DEF TokensAreFresh
<1>4. ASSUME NEW request \in requests, TokenRefused(request) PROVE TokenInv'
  BY <1>4 DEF TokenRefused, TokenTypeOK, RequestsInv, CacheInv, TokensAreFresh
<1>5. CASE Tick
  BY <1>5 DEF Tick, TokenTypeOK, RequestsInv, CacheInv, TokensAreFresh
<1>6. CASE UNCHANGED tokenVars
  BY <1>6 DEF tokenVars, TokenTypeOK, RequestsInv, CacheInv, TokensAreFresh
<1> QED BY <1>1, <1>2, <1>3, <1>4, <1>5, <1>6 DEF TokenNext, EndpointAnswers

LEMMA OneRequestCounted == TokenInv => OneTokenRequest
<1> SUFFICES ASSUME TokenInv PROVE Cardinality(requests) <= 1
  BY DEF TokenInv, RequestsInv, OneTokenRequest
<1>1. CASE requests = {}
  BY <1>1, FS_EmptySet
<1>2. CASE requests # {}
  <2>1. PICK x \in requests : requests = {x}
    BY <1>2 DEF TokenInv, RequestsInv
  <2> QED BY <2>1, FS_Singleton
<1> QED BY <1>1, <1>2

\* TokenTypeOK and TokensSound: whichever callers find the token missing or
\* about to expire, they share one request for it, and none is handed a token
\* that expires before the margin.
THEOREM TokensAlwaysSound == TokenSpec => [](TokenTypeOK /\ TokensSound)
<1>1. TokenInv => TokenTypeOK /\ TokensSound
  BY OneRequestCounted DEF TokenInv, TokensSound
<1> QED BY <1>1, TokenInitInv, TokenStepInv, PTL DEF TokenSpec
-----------------------------------------------------------------------------
(* Exchange rates (LiveRates).                                             *)

\* Rates in memory were quoted after they were asked for, and both lie in the
\* past, as does the beginning of every fetch under way.
RatesDated ==
  /\ \A c \in Converters : fetching[c] # Idle => fetching[c] <= ratesClock
  /\ liveCache # NoRates =>
       liveCache.fetchedAt <= liveCache.quotedAt /\ liveCache.quotedAt <= ratesClock

RatesInv == RatesTypeOK /\ RatesDated /\ CachedRatesAreFresh

LEMMA RatesInitInv == RatesInit => RatesInv
<1> SUFFICES ASSUME RatesInit PROVE RatesInv
  OBVIOUS
<1> USE RatesAssumption DEF RatesInit, Idle, NoRates, NoTable
<1>1. RatesTypeOK
  BY DEF RatesTypeOK
<1>2. RatesDated
  BY DEF RatesDated
<1>3. CachedRatesAreFresh
  BY DEF CachedRatesAreFresh
<1> QED BY <1>1, <1>2, <1>3 DEF RatesInv

LEMMA RatesStepInv == RatesInv /\ [RatesNext]_ratesVars => RatesInv'
<1> SUFFICES ASSUME RatesInv, [RatesNext]_ratesVars PROVE RatesInv'
  OBVIOUS
<1> USE RatesAssumption DEF RatesInv
<1>1. ASSUME NEW c \in Converters, ConvertFromCache(c) PROVE RatesInv'
  <2> USE <1>1 DEF ConvertFromCache, CacheIsLive, Used
  <2>1. /\ ratesClock \in 0..RatesLastTick
        /\ liveCache.quotedAt \in 0..RatesLastTick /\ liveCache.fetchedAt \in 0..RatesLastTick
        /\ liveCache.fetchedAt <= liveCache.quotedAt /\ liveCache.quotedAt <= ratesClock
    BY DEF RatesTypeOK, RatesDated
  <2> DEFINE age == ratesClock - liveCache.quotedAt
  <2>2. age \in 0..RatesLastTick /\ age < RatesTtl
    BY <2>1
  <2>3. tableUsed' = [tableUsed EXCEPT ![c] = [table |-> "cache", age |-> age]]
    OBVIOUS
  <2> HIDE DEF age
  <2>4. RatesTypeOK'
    BY <2>2, <2>3 DEF RatesTypeOK
  <2>5. CachedRatesAreFresh'
    BY <2>2, <2>3 DEF CachedRatesAreFresh, RatesTypeOK
  <2> QED BY <2>4, <2>5 DEF RatesDated
<1>2. ASSUME NEW c \in Converters, FetchRates(c) PROVE RatesInv'
  BY <1>2 DEF FetchRates, RatesTypeOK, RatesDated, CachedRatesAreFresh, Idle
<1>3. ASSUME NEW c \in Converters, RatesArrive(c) PROVE RatesInv'
  <2> USE <1>3 DEF RatesArrive, DateOfFetch
  <2>1. PICK quotedAt \in fetching[c]..ratesClock :
          liveCache' = [quotedAt |-> quotedAt, fetchedAt |-> fetching[c]]
    OBVIOUS
  <2>2. /\ ratesClock \in 0..RatesLastTick /\ fetching[c] \in 0..RatesLastTick
        /\ fetching[c] <= ratesClock /\ quotedAt \in 0..RatesLastTick
    BY DEF RatesTypeOK, RatesDated, Idle
  <2>3. RatesTypeOK'
    BY <2>1, <2>2 DEF RatesTypeOK, Idle, NoTable
  <2>4. RatesDated'
    BY <2>1, <2>2 DEF RatesDated, RatesTypeOK
  <2>5. CachedRatesAreFresh'
    BY DEF CachedRatesAreFresh, RatesTypeOK, NoTable
  <2> QED BY <2>3, <2>4, <2>5
<1>4. ASSUME NEW c \in Converters, RatesFail(c) PROVE RatesInv'
  BY <1>4 DEF RatesFail, Used, RatesTypeOK, RatesDated, CachedRatesAreFresh, Idle
<1>5. CASE RatesTick
  BY <1>5 DEF RatesTick, RatesTypeOK, RatesDated, CachedRatesAreFresh, NoRates, Idle
<1>6. CASE UNCHANGED ratesVars
  BY <1>6 DEF ratesVars, RatesTypeOK, RatesDated, CachedRatesAreFresh
<1> QED BY <1>1, <1>2, <1>3, <1>4, <1>5, <1>6 DEF RatesNext

\* RatesTypeOK and CachedRatesAreFresh: in whatever order the answers of the
\* provider arrive, no conversion uses cached rates older than their hour.
THEOREM RatesAlwaysFresh == RatesSpec => [](RatesTypeOK /\ CachedRatesAreFresh)
<1>1. RatesInv => RatesTypeOK /\ CachedRatesAreFresh
  BY DEF RatesInv
<1> QED BY <1>1, RatesInitInv, RatesStepInv, PTL DEF RatesSpec
-----------------------------------------------------------------------------
(* The choice of a markup (MarkupRules).                                   *)

\* A computation under way has left no matching rule behind but those that were
\* made or changed since it began.
NothingOverlooked ==
  \A q \in Quotes :
    /\ scopeAt[q] = 1 => QuoteHasAgency
    /\ scopeAt[q] > 0 => \A i \in Candidates \ rulesMoved[q] : ScopeRank(i) >= scopeAt[q]

MarkupInv ==
  /\ rules = [i \in RuleIds |-> rules[i]]
  /\ MarkupTypeOK /\ NothingOverlooked /\ RulesAreSound

LEMMA ScopesAreDistinct ==
  /\ Len(ScopeOrder) = 7
  /\ \A m, n \in 1..7 : ScopeOrder[m] = ScopeOrder[n] => m = n
BY DEF ScopeOrder

LEMMA RanksAreScopes ==
  ASSUME NEW i \in RuleIds, rules[i] \in RuleRow
  PROVE  /\ ScopeRank(i) \in 1..7 /\ ScopeOrder[ScopeRank(i)] = rules[i].scope
         /\ \A n \in 1..7 : rules[i].scope = ScopeOrder[n] => ScopeRank(i) = n
<1>1. PICK n \in 1..7 : ScopeOrder[n] = rules[i].scope
  BY ScopesAreDistinct DEF RuleRow
<1>2. ScopeRank(i) \in 1..7 /\ ScopeOrder[ScopeRank(i)] = rules[i].scope
  BY <1>1, ScopesAreDistinct DEF ScopeRank
<1> QED BY <1>2, ScopesAreDistinct

LEMMA CandidatesAreRules == MarkupTypeOK => \A i \in Candidates : rules[i] \in RuleRow
<1> SUFFICES ASSUME MarkupTypeOK, NEW i \in Candidates PROVE rules[i] \in RuleRow
  OBVIOUS
<1>1. rules[i] # NoRule
  BY DEF Candidates, NoRule
<1> QED BY <1>1 DEF MarkupTypeOK, Candidates

LEMMA RuleFields ==
  \A rule \in RuleRow : /\ rule.value \in Int /\ rule.min \in Bounds /\ rule.max \in Bounds
                        /\ rule.priority \in Int
BY DEF RuleRow

LEMMA AppliedRuleIsBounded ==
  ASSUME NEW rule \in RuleRow
  PROVE  ApplyRule(rule) \in Int /\ (rule.max = NoBound \/ ApplyRule(rule) <= rule.max)
<1> DEFINE amount == ApplyValue(rule.type, rule.value)
<1> DEFINE raised == IF rule.min = NoBound THEN amount ELSE Larger(amount, rule.min)
<1>1. rule.value \in Int /\ rule.min \in Nat \cup {-1} /\ rule.max \in Nat \cup {-1}
  BY RuleFields DEF Bounds, NoBound
<1>2. amount \in Int
  <2>1. BaseFare * rule.value \in Int
    BY <1>1, MarkupAssumption
  <2> DEFINE product == BaseFare * rule.value
  <2>2. product \in Int
    BY <2>1
  <2> HIDE DEF product
  <2>3. (product + 50) \div 100 \in Int
    BY <2>2
  <2>4. amount = IF rule.type = "PERCENTAGE" THEN (product + 50) \div 100 ELSE rule.value
    BY DEF ApplyValue, product
  <2> HIDE DEF amount
  <2> QED BY <1>1, <2>3, <2>4
<1> HIDE DEF amount
<1>3. raised \in Int
  BY <1>1, <1>2 DEF Larger, NoBound
<1> HIDE DEF raised
<1>4. ApplyRule(rule) = IF rule.max = NoBound THEN raised ELSE Smaller(raised, rule.max)
  BY DEF ApplyRule, raised, amount
<1> QED BY <1>1, <1>3, <1>4 DEF Smaller, NoBound

LEMMA MarkupInitInv == MarkupInit => MarkupInv
<1> SUFFICES ASSUME MarkupInit PROVE MarkupInv
  OBVIOUS
<1> USE DEF MarkupInit
<1>1. MarkupTypeOK
  BY MarkupAssumption, ScopesAreDistinct DEF MarkupTypeOK
<1>2. NothingOverlooked
  BY DEF NothingOverlooked
<1>3. RulesAreSound
  BY DEF RulesAreSound, BoundsAreOrdered, PercentageIsOne, NoRule
<1> QED BY <1>1, <1>2, <1>3 DEF MarkupInv

\* What an administrator's change leaves: the computations under way know of it,
\* and every other rule is what it was.
LEMMA RuleMovesKeep ==
  ASSUME MarkupInv, NEW i \in RuleIds, RuleMoves(i), UNCHANGED <<scopeAt, markup>>,
         \A j \in RuleIds \ {i} : rules'[j] = rules[j]
  PROVE  NothingOverlooked' /\ rulesMoved' \in [Quotes -> SUBSET RuleIds]
<1>1. rulesMoved' \in [Quotes -> SUBSET RuleIds]
  BY DEF RuleMoves, MarkupInv, MarkupTypeOK
<1>2. \A q \in Quotes : rulesMoved[q] \subseteq rulesMoved'[q]
                        /\ (scopeAt[q] > 0 => i \in rulesMoved'[q])
  BY DEF RuleMoves
<1>3. \A j \in RuleIds \ {i} : /\ j \in Candidates' => j \in Candidates
                               /\ ScopeRank(j)' = ScopeRank(j)
  BY DEF Candidates, ScopeRank
<1>4. ASSUME NEW q \in Quotes, scopeAt[q] > 0, NEW j \in Candidates' \ rulesMoved'[q]
      PROVE  ScopeRank(j)' >= scopeAt[q]
  <2>1. j \in RuleIds \ {i}
    BY <1>2, <1>4 DEF Candidates
  <2>2. j \in Candidates \ rulesMoved[q] /\ ScopeRank(j)' = ScopeRank(j)
    BY <1>2, <1>3, <1>4, <2>1
  <2>3. ScopeRank(j) >= scopeAt[q]
    BY <1>4, <2>2, Zenon DEF NothingOverlooked, MarkupInv
  <2> QED BY <2>2, <2>3
<1>5. \A q \in Quotes : scopeAt[q] = 1 => QuoteHasAgency
  BY DEF NothingOverlooked, MarkupInv
<1> QED BY <1>1, <1>4, <1>5, Zenon DEF NothingOverlooked

\* What looking in one scope, or finding none, decides.
LEMMA LookDecides ==
  ASSUME MarkupInv, NEW q \in Quotes, LookInScope(q)
  PROVE  /\ MarkupInv'
         /\ \A p \in Quotes \ {q} : markup'[p] = markup[p]
         /\ markup'[q] # markup[q] =>
              /\ markup'[q].rule \in Candidates
              /\ markup'[q].amount = ApplyRule(rules[markup'[q].rule])
              /\ \A i \in Candidates \ rulesMoved[q] : Precedes(markup'[q].rule, i)
<1> USE DEF MarkupInv, LookInScope
<1> DEFINE scope == ScopeOrder[scopeAt[q]]
<1>1. scopeAt[q] \in 1..7 /\ scope \in {ScopeOrder[n] : n \in 1..7}
  BY ScopesAreDistinct
<1>2. Candidates' = Candidates /\ \A i \in RuleIds : ScopeRank(i)' = ScopeRank(i)
  BY DEF Candidates, ScopeRank
<1>3. \A i \in Candidates : /\ i \in RuleIds /\ rules[i] \in RuleRow
                            /\ ScopeRank(i) \in 1..7
                            /\ ScopeRank(i) = scopeAt[q] => i \in Matching(scope)
  BY CandidatesAreRules, RanksAreScopes DEF Candidates, Matching
<1>4. \A i \in Matching(scope) : /\ i \in Candidates
                                 /\ ScopeRank(i) = scopeAt[q]
  <2> TAKE i \in Matching(scope)
  <2>1. i \in RuleIds /\ rules[i].scope = scope /\ rules[i].active /\ rules[i].fits
    BY DEF Matching
  <2>2. scope = "AGENCY" => QuoteHasAgency
    <3>1. scope = "AGENCY" => scopeAt[q] = 1
      BY <1>1 DEF ScopeOrder
    <3> QED BY <3>1 DEF NothingOverlooked
  <2>3. i \in Candidates
    BY <2>1, <2>2 DEF Candidates
  <2> QED BY <2>1, <2>3, <1>1, CandidatesAreRules, RanksAreScopes
<1> DEFINE at == scopeAt[q]
<1>7. at \in 1..7 /\ at > 0
  BY <1>1
<1>8. \A i \in Candidates \ rulesMoved[q] : ScopeRank(i) >= at
  BY <1>7, Zenon DEF NothingOverlooked
<1>5. CASE Matching(scope) = {}
  <2>1. scopeAt' = [scopeAt EXCEPT ![q] = @ + 1] /\ markup' = markup
    BY <1>5
  <2>2. MarkupTypeOK'
    BY <1>1, <2>1, ScopesAreDistinct DEF MarkupTypeOK
  <2>3. \A i \in Candidates : ScopeRank(i) # scopeAt[q]
    BY <1>3, <1>5
  <2>4. NothingOverlooked'
    <3>1. \A p \in Quotes : scopeAt'[p] = IF p = q THEN scopeAt[q] + 1 ELSE scopeAt[p]
      BY <2>1 DEF MarkupTypeOK
    <3>2. \A i \in Candidates \ rulesMoved[q] : ScopeRank(i) >= scopeAt[q] + 1
      <4> SUFFICES ASSUME NEW i \in Candidates \ rulesMoved[q] PROVE ScopeRank(i) >= at + 1
        OBVIOUS
      <4>1. ScopeRank(i) >= at /\ ScopeRank(i) # at /\ ScopeRank(i) \in 1..7
        BY <1>3, <1>8, <2>3
      <4> HIDE DEF at
      <4> QED BY <1>7, <4>1
    <3>3. scopeAt[q] + 1 # 1
      BY <1>1
    <3>4. ASSUME NEW p \in Quotes
          PROVE  /\ scopeAt'[p] = 1 => QuoteHasAgency
                 /\ scopeAt'[p] > 0 =>
                      \A i \in Candidates \ rulesMoved[p] : ScopeRank(i) >= scopeAt'[p]
      <4>1. CASE p = q
        BY <4>1, <3>1, <3>2, <3>3
      <4>2. CASE p # q
        <5>1. scopeAt'[p] = scopeAt[p]
          BY <4>2, <3>1
        <5> QED BY <5>1, Zenon DEF NothingOverlooked
      <4> QED BY <4>1, <4>2
    <3>5. rulesMoved' = rulesMoved /\ QuoteHasAgency' = QuoteHasAgency
      OBVIOUS
    <3>6. \A i \in Candidates : i \in RuleIds
      BY DEF Candidates
    <3> QED BY <1>2, <3>4, <3>5, <3>6, Zenon DEF NothingOverlooked
  <2> QED BY <2>1, <2>2, <2>4 DEF RulesAreSound
<1>6. CASE Matching(scope) # {}
  <2>1. PICK i \in FirstOf(Matching(scope)) :
          Answered(q, [rule |-> i, amount |-> ApplyRule(rules[i])])
    BY <1>6
  <2>2. i \in Matching(scope) /\ \A j \in Matching(scope) : rules[i].priority <= rules[j].priority
    BY <2>1 DEF FirstOf
  <2>3. i \in Candidates /\ i \in RuleIds /\ rules[i] \in RuleRow
    BY <2>2, <1>3, <1>4
  <2>4. ApplyRule(rules[i]) \in Int
    BY <2>3, AppliedRuleIsBounded
  <2>5. /\ markup' = [markup EXCEPT ![q] = [rule |-> i, amount |-> ApplyRule(rules[i])]]
        /\ scopeAt' = [scopeAt EXCEPT ![q] = 0]
    BY <2>1 DEF Answered
  <2>6. MarkupTypeOK'
    BY <2>3, <2>4, <2>5 DEF MarkupTypeOK
  <2>7. NothingOverlooked'
    BY <1>2, <2>5 DEF NothingOverlooked, MarkupTypeOK, Candidates
  <2>8. markup'[q] = [rule |-> i, amount |-> ApplyRule(rules[i])]
    BY <2>5 DEF MarkupTypeOK
  <2>9. \A j \in Candidates \ rulesMoved[q] : Precedes(i, j)
    <3> TAKE j \in Candidates \ rulesMoved[q]
    <3>1. ScopeRank(i) = scopeAt[q] /\ ScopeRank(j) >= scopeAt[q] /\ ScopeRank(j) \in 1..7
      BY <1>3, <1>4, <1>8, <2>2
    <3>2. ScopeRank(j) = scopeAt[q] => rules[i].priority <= rules[j].priority
      BY <1>3, <2>2
    <3> QED BY <1>1, <3>1, <3>2 DEF Precedes
  <2> QED BY <2>3, <2>5, <2>6, <2>7, <2>8, <2>9 DEF RulesAreSound
<1> QED BY <1>5, <1>6

LEMMA DefaultDecides ==
  ASSUME MarkupInv, NEW q \in Quotes, UseDefault(q)
  PROVE  /\ MarkupInv'
         /\ \A p \in Quotes \ {q} : markup'[p] = markup[p]
         /\ markup'[q].rule = "default"
         /\ Candidates \subseteq rulesMoved[q]
<1> USE MarkupAssumption DEF MarkupInv, UseDefault, Answered
<1>1. scopeAt[q] = 8
  BY ScopesAreDistinct
<1>2. \A i \in Candidates : ScopeRank(i) \in 1..7
  BY CandidatesAreRules, RanksAreScopes DEF Candidates
<1>3. Candidates \subseteq rulesMoved[q]
  BY <1>1, <1>2 DEF NothingOverlooked
<1>4. MarkupTypeOK'
  BY DEF MarkupTypeOK
<1>5. Candidates' = Candidates /\ \A i \in RuleIds : ScopeRank(i)' = ScopeRank(i)
  BY DEF Candidates, ScopeRank
<1>6. NothingOverlooked'
  BY <1>5 DEF NothingOverlooked, MarkupTypeOK, Candidates
<1> QED BY <1>3, <1>4, <1>6 DEF RulesAreSound, MarkupTypeOK

\* A patch keeps a row a row: its bounds are numbers of at least 0.
LEMMA PatchedIsARule ==
  ASSUME NEW rule \in RuleRow, NEW patch \in RulePatch
  PROVE  Patched(rule, patch) \in RuleRow
<1> DEFINE value == IF "value" \in patch.sets THEN patch.value ELSE rule.value
           min == IF "min" \in patch.sets THEN patch.min ELSE rule.min
           max == IF "max" \in patch.sets THEN patch.max ELSE rule.max
           priority == IF "priority" \in patch.sets THEN patch.priority ELSE rule.priority
           on == IF "active" \in patch.sets THEN patch.active ELSE rule.active
<1>1. value \in Int /\ min \in Bounds /\ max \in Bounds /\ priority \in Int
  BY RuleFields DEF RulePatch, Bounds
<1>2. on \in BOOLEAN
  BY DEF RulePatch, RuleRow
<1>3. Patched(rule, patch) = [rule EXCEPT !.value = value, !.min = min, !.max = max,
                                          !.priority = priority, !.active = on]
  BY DEF Patched
<1> HIDE DEF value, min, max, priority, on
<1> QED BY <1>1, <1>2, <1>3 DEF RuleRow

LEMMA AdministrationKeeps ==
  ASSUME MarkupInv, NEW i \in RuleIds, CreateRule(i) \/ UpdateRule(i)
  PROVE  MarkupInv'
<1> USE DEF MarkupInv
<1>1. CASE CreateRule(i)
  <2> USE <1>1 DEF CreateRule
  <2>1. PICK dto \in RuleDtos : AcceptsRule(dto) /\ rules' = [rules EXCEPT ![i] = dto]
    OBVIOUS
  <2>2. dto \in RuleRow
    BY MarkupAssumption
  <2>5. \A j \in RuleIds \ {i} : rules'[j] = rules[j]
    BY <2>1
  <2>6. NothingOverlooked' /\ rulesMoved' \in [Quotes -> SUBSET RuleIds]
    BY <2>5, RuleMovesKeep
  <2>3. MarkupTypeOK'
    BY <2>1, <2>2, <2>6 DEF MarkupTypeOK
  <2>4. RulesAreSound'
    BY <2>1 DEF RulesAreSound, AcceptsRule
  <2> QED BY <2>1, <2>3, <2>4, <2>6
<1>2. CASE UpdateRule(i)
  <2> USE <1>2 DEF UpdateRule
  <2>1. PICK patch \in RulePatches : rules' = [rules EXCEPT ![i] = Patched(rules[i], patch)]
    OBVIOUS
  <2>2. rules[i] \in RuleRow /\ patch \in RulePatch
    BY MarkupAssumption DEF MarkupTypeOK
  <2>3. Patched(rules[i], patch) \in RuleRow
    BY <2>2, PatchedIsARule
  <2>4. rules' = [j \in RuleIds |-> rules'[j]]
    BY <2>1
  <2>5. rules'[i] \in RuleRow /\ \A j \in RuleIds \ {i} : rules'[j] = rules[j]
    BY <2>1, <2>3
  <2>8. NothingOverlooked' /\ rulesMoved' \in [Quotes -> SUBSET RuleIds]
    BY <2>5, RuleMovesKeep
  <2>6. MarkupTypeOK'
    <3>1. \A j \in RuleIds : rules'[j] \in RuleRow \cup {NoRule}
      BY <2>5 DEF MarkupTypeOK
    <3>2. patches' \in 0..PatchLimit /\ patched' \subseteq RuleIds
      <4>1. PatchLimit \in Nat
        BY MarkupAssumption
      <4>2. patches' = patches + 1 /\ patches < PatchLimit /\ patched' = patched \cup {i}
        OBVIOUS
      <4>3. patches \in 0..PatchLimit /\ patched \subseteq RuleIds
        BY DEF MarkupTypeOK
      <4> HIDE DEF MarkupInv, UpdateRule
      <4> QED BY <4>1, <4>2, <4>3
    <3>3. rulesMoved' \in [Quotes -> SUBSET RuleIds] /\ UNCHANGED <<scopeAt, markup>>
      BY <2>8
    <3> QED BY <3>1, <3>2, <3>3 DEF MarkupTypeOK
  <2>7. RulesAreSound'
    BY <2>5 DEF RulesAreSound, BoundsAreOrdered, PercentageIsOne
  <2> QED BY <2>4, <2>6, <2>7, <2>8
<1> QED BY <1>1, <1>2

LEMMA StartKeeps ==
  ASSUME MarkupInv, NEW q \in Quotes, StartQuote(q)
  PROVE  MarkupInv'
<1> USE DEF MarkupInv, StartQuote
<1>1. scopeAt' = [scopeAt EXCEPT ![q] = IF QuoteHasAgency THEN 1 ELSE 2]
  OBVIOUS
<1>2. MarkupTypeOK'
  BY ScopesAreDistinct DEF MarkupTypeOK
<1>3. Candidates' = Candidates /\ \A i \in RuleIds : ScopeRank(i)' = ScopeRank(i)
  BY DEF Candidates, ScopeRank
<1>4. \A i \in Candidates : /\ i \in RuleIds /\ ScopeRank(i) \in 1..7
                            /\ ~QuoteHasAgency => ScopeRank(i) # 1
  <2> TAKE i \in Candidates
  <2>1. i \in RuleIds /\ rules[i] \in RuleRow
    BY CandidatesAreRules DEF Candidates
  <2>2. ScopeRank(i) \in 1..7 /\ ScopeOrder[ScopeRank(i)] = rules[i].scope
    BY <2>1, RanksAreScopes
  <2>3. ScopeOrder[1] = "AGENCY"
    BY DEF ScopeOrder
  <2> QED BY <2>1, <2>2, <2>3 DEF Candidates
<1>5. NothingOverlooked'
  BY <1>1, <1>3, <1>4 DEF NothingOverlooked, MarkupTypeOK
<1> QED BY <1>2, <1>5 DEF RulesAreSound

LEMMA MarkupStepInv == MarkupInv /\ [MarkupNext]_markupVars => MarkupInv'
<1>1. MarkupInv /\ UNCHANGED markupVars => MarkupInv'
  BY DEF markupVars, MarkupInv, MarkupTypeOK, NothingOverlooked, RulesAreSound, Candidates, ScopeRank
<1> QED BY <1>1, AdministrationKeeps, StartKeeps, LookDecides, DefaultDecides DEF MarkupNext

Follows(q) ==
  IF markup'[q].rule = "default" THEN Candidates \subseteq rulesMoved[q]
  ELSE /\ markup'[q].rule \in Candidates
       /\ \A i \in Candidates \ rulesMoved[q] : Precedes(markup'[q].rule, i)

BelowMaximum(q) ==
  markup'[q].rule \in RuleIds =>
    \/ rules[markup'[q].rule].max = NoBound
    \/ markup'[q].amount <= rules[markup'[q].rule].max

LEMMA EndsFollow ==
  ASSUME MarkupInv, [MarkupNext]_markupVars, NEW q \in Quotes, Ends(q)
  PROVE  Follows(q) /\ BelowMaximum(q)
<1>1. "default" \notin RuleIds /\ \A i \in Candidates : i \in RuleIds
  BY MarkupAssumption DEF Candidates
<1>2. CASE LookInScope(q)
  <2>1. markup'[q].rule \in Candidates /\ markup'[q].amount = ApplyRule(rules[markup'[q].rule])
    BY <1>2, LookDecides DEF Ends
  <2>2. BelowMaximum(q)
    BY <2>1, CandidatesAreRules, AppliedRuleIsBounded DEF BelowMaximum, MarkupInv
  <2>3. Follows(q)
    BY <1>1, <1>2, <2>1, LookDecides DEF Ends, Follows
  <2> QED BY <2>2, <2>3
<1>3. CASE UseDefault(q)
  BY <1>1, <1>3, DefaultDecides DEF Follows, BelowMaximum
<1>4. ASSUME NEW p \in Quotes, LookInScope(p) \/ UseDefault(p) PROVE p = q
  BY <1>4, LookDecides, DefaultDecides DEF Ends
<1> QED BY <1>2, <1>3, <1>4 DEF MarkupNext, CreateRule, UpdateRule, StartQuote, Ends, markupVars

\* MarkupTypeOK and MarkupSound: however administrators create, change and
\* reorder rules meanwhile, a quote that ends applies a rule that matches and
\* precedes every matching one nobody touched since it began, or the default
\* when there is none of those, and stays below that rule's maximum; values and
\* priorities may be any integers.
THEOREM MarkupAlwaysSound == MarkupSpec => []MarkupTypeOK /\ MarkupSound
<1>1. MarkupInv => MarkupTypeOK /\ RulesAreSound
  BY DEF MarkupInv
<1>2. MarkupSpec => []MarkupInv
  BY MarkupInitInv, MarkupStepInv, PTL DEF MarkupSpec
<1>3. MarkupSpec => MarkupFollowsRules
  <2>1. MarkupInv /\ [MarkupNext]_markupVars =>
          [\A q \in Quotes : Ends(q) =>
             IF markup'[q].rule = "default" THEN Candidates \subseteq rulesMoved[q]
             ELSE /\ markup'[q].rule \in Candidates
                  /\ \A i \in Candidates \ rulesMoved[q] :
                       Precedes(markup'[q].rule, i)]_markupVars
    BY EndsFollow DEF Follows
  <2> QED BY <1>2, <2>1, PTL DEF MarkupSpec, MarkupFollowsRules
<1>4. MarkupSpec => MarkupBelowMaximum
  <2>1. MarkupInv /\ [MarkupNext]_markupVars =>
          [\A q \in Quotes : Ends(q) /\ markup'[q].rule \in RuleIds =>
             \/ rules[markup'[q].rule].max = NoBound
             \/ markup'[q].amount <= rules[markup'[q].rule].max]_markupVars
    BY EndsFollow DEF BelowMaximum
  <2> QED BY <1>2, <2>1, PTL DEF MarkupSpec, MarkupBelowMaximum
<1> QED BY <1>1, <1>2, <1>3, <1>4, PTL DEF MarkupSound
-----------------------------------------------------------------------------
(* The reprice of a fare (FareCheck).                                      *)

\* A raw offer the search stored has the price that its FlightOffer row got.
OwnPricesAreQuoted ==
  /\ \A k \in CacheKeys : cached[k].own => cached[k].price = quoted[cached[k].offer]
  /\ \A t \in FareRequests : fareRead[t].own => fareRead[t].price = quoted[fareRead[t].offer]

\* Whoever reprices has read an offer, and whoever has booked was searched for.
RequestsAreServed ==
  \A t \in FareRequests :
    /\ farePc[t] \in {"price", "replace", "decide"} =>
         fareRead[t] # NoEntry /\ quoted[order[t].offer] > 0
    /\ farePc[t] \in {"replace", "decide"} => newPrice[t] \in FareLevels
    /\ Booked(t) => quoted[order[t].offer] > 0

FareInv == FareTypeOK /\ OwnPricesAreQuoted /\ RequestsAreServed /\ FaresSound

LEMMA FareLevelsArePositive ==
  /\ \A price \in FareLevels : price \in Nat /\ price > 0
  /\ Markup \in Nat
BY FareAssumption

LEMMA KeysAreTyped == FareTypeOK => \A o \in FareOffers : keyOf[o] \in CacheKeys
BY FareAssumption DEF FareTypeOK

LEMMA EntriesAreTyped ==
  \A e \in Entries :
    /\ e.own \in BOOLEAN
    /\ e.own \/ e # NoEntry => e.offer \in FareOffers /\ e.price \in FareLevels
<1> TAKE e \in Entries
<1>1. CASE e \in [offer : FareOffers, price : FareLevels, own : BOOLEAN]
  <2>1. e.own \in BOOLEAN /\ e.offer \in FareOffers /\ e.price \in FareLevels
    BY <1>1
  <2> QED BY <2>1
<1>2. CASE e = NoEntry
  <2>1. e.own = FALSE
    BY <1>2 DEF NoEntry
  <2> QED BY <1>2, <2>1
<1> QED BY <1>1, <1>2 DEF Entries

LEMMA OrdersAreTyped ==
  FareTypeOK => \A t \in FareRequests :
    /\ order[t].op \in {"preview", "book"} /\ order[t].offer \in FareOffers
    /\ order[t].accepted \in Nat /\ Key(t) \in CacheKeys
BY FareAssumption DEF FareTypeOK, Key

LEMMA FareInitInv == FareInit => FareInv
<1> SUFFICES ASSUME FareInit PROVE FareInv
  OBVIOUS
<1> USE FareAssumption DEF FareInit
<1>1. FareTypeOK
  BY DEF FareTypeOK, Entries, NoEntry, NoSale
<1>2. OwnPricesAreQuoted
  BY DEF OwnPricesAreQuoted, NoEntry
<1>3. RequestsAreServed
  BY DEF RequestsAreServed, Booked
<1>4. FaresSound
  BY DEF FaresSound, FirstRepriceIsTheRealOne, NothingUnacceptedIsBooked, Booked
<1> QED BY <1>1, <1>2, <1>3, <1>4 DEF FareInv

\* The end of a request, whatever it ends with.
LEMMA FareEndKeeps ==
  ASSUME FareInv, NEW t \in FareRequests, FareEnd(t),
         UNCHANGED <<order, keyOf, asking, quoted, cached, bought>>
  PROVE  FareInv'
<1> USE DEF FareInv, FareEnd
<1>1. FareTypeOK'
  BY DEF FareTypeOK, Entries
<1>2. OwnPricesAreQuoted'
  BY DEF OwnPricesAreQuoted, FareTypeOK, NoEntry
<1>3. RequestsAreServed'
  BY DEF RequestsAreServed, Booked, FareTypeOK
<1>4. FaresSound'
  BY DEF FaresSound, FirstRepriceIsTheRealOne, NothingUnacceptedIsBooked, Booked
<1> QED BY <1>1, <1>2, <1>3, <1>4

LEMMA FareStepInv == FareInv /\ [FareNext]_fareVars => FareInv'
<1> SUFFICES ASSUME FareInv, [FareNext]_fareVars PROVE FareInv'
  OBVIOUS
<1> USE FareLevelsArePositive DEF FareInv
<1>1. ASSUME NEW o \in FareOffers, SearchStores(o) PROVE FareInv'
  <2> USE <1>1 DEF SearchStores
  <2>1. asking[o] \in FareLevels /\ asking[o] \in Nat \ {0} /\ keyOf[o] \in CacheKeys
    BY KeysAreTyped DEF FareTypeOK
  <2>2. FareTypeOK'
    BY <2>1 DEF FareTypeOK, Entries
  <2>3. \A p \in FareOffers : quoted[p] > 0 => quoted'[p] = quoted[p]
    <3>1. DOMAIN quoted = FareOffers /\ ~(quoted[o] > 0)
      BY DEF FareTypeOK
    <3> QED BY <3>1
  <2>4. OwnPricesAreQuoted'
    <3>1. ASSUME NEW e \in Entries, e.own, e.price = quoted[e.offer]
          PROVE  e.price = quoted'[e.offer]
      <4>1. e.offer \in FareOffers /\ e.price > 0 /\ e.price \in Nat
        BY <3>1, EntriesAreTyped
      <4> QED BY <4>1, <3>1, <2>3
    <3>2. quoted'[o] = asking[o]
      BY DEF FareTypeOK
    <3>3. ASSUME NEW k \in CacheKeys, cached'[k].own
          PROVE  cached'[k].price = quoted'[cached'[k].offer]
      <4>1. CASE k = keyOf[o]
        <5>1. cached'[k] = [offer |-> o, price |-> asking[o], own |-> TRUE]
          BY <4>1, <2>1 DEF FareTypeOK
        <5> QED BY <5>1, <3>2
      <4>2. CASE k # keyOf[o]
        <5>1. cached'[k] = cached[k] /\ cached[k] \in Entries
          BY <4>2 DEF FareTypeOK
        <5> QED BY <5>1, <3>1, <3>3 DEF OwnPricesAreQuoted
      <4> QED BY <4>1, <4>2
    <3>4. ASSUME NEW t \in FareRequests, fareRead'[t].own
          PROVE  fareRead'[t].price = quoted'[fareRead'[t].offer]
      BY <3>1, <3>4 DEF OwnPricesAreQuoted, FareTypeOK
    <3> QED BY <3>3, <3>4 DEF OwnPricesAreQuoted
  <2>5. RequestsAreServed'
    BY <2>3, OrdersAreTyped DEF RequestsAreServed, Booked
  <2>6. FaresSound'
    BY <2>3, OrdersAreTyped DEF RequestsAreServed, FaresSound, FirstRepriceIsTheRealOne,
       NothingUnacceptedIsBooked, Booked
  <2> QED BY <2>2, <2>4, <2>5, <2>6
<1>2. ASSUME NEW o \in FareOffers, PriceMoves(o) PROVE FareInv'
  <2> USE <1>2 DEF PriceMoves
  <2>1. FareTypeOK'
    BY DEF FareTypeOK
  <2> QED BY <2>1 DEF OwnPricesAreQuoted, RequestsAreServed, FaresSound,
    FirstRepriceIsTheRealOne, NothingUnacceptedIsBooked, Booked
<1>3. ASSUME NEW k \in CacheKeys, EntryExpires(k) PROVE FareInv'
  <2> USE <1>3 DEF EntryExpires
  <2>1. FareTypeOK'
    BY DEF FareTypeOK, Entries
  <2>2. OwnPricesAreQuoted'
    BY DEF OwnPricesAreQuoted, FareTypeOK, NoEntry
  <2> QED BY <2>1, <2>2 DEF RequestsAreServed, FaresSound, FirstRepriceIsTheRealOne,
    NothingUnacceptedIsBooked, Booked
<1>4. ASSUME NEW t \in FareRequests, ReadCached(t) PROVE FareInv'
  <2>1. CASE cached[Key(t)] = NoEntry
    BY <2>1, <1>4, FareEndKeeps DEF ReadCached
  <2>2. CASE cached[Key(t)] # NoEntry
    <3> USE <1>4, <2>2, OrdersAreTyped DEF ReadCached
    <3>0. cached[Key(t)] \in Entries
      BY DEF FareTypeOK
    <3>1. FareTypeOK'
      BY <3>0 DEF FareTypeOK
    <3>2. OwnPricesAreQuoted'
      <4>1. \A u \in FareRequests :
              fareRead'[u] = IF u = t THEN cached[Key(t)] ELSE fareRead[u]
        BY DEF FareTypeOK
      <4> QED BY <4>1 DEF OwnPricesAreQuoted
    <3>3. RequestsAreServed'
      BY DEF RequestsAreServed, FareTypeOK, Booked
    <3>4. FaresSound'
      BY DEF FaresSound, FirstRepriceIsTheRealOne, NothingUnacceptedIsBooked, Booked
    <3> QED BY <3>1, <3>2, <3>3, <3>4
  <2> QED BY <2>1, <2>2
<1>5. ASSUME NEW t \in FareRequests, AskPrice(t) PROVE FareInv'
  <2> USE <1>5 DEF AskPrice
  <2>1. fareRead[t].offer \in FareOffers
    BY EntriesAreTyped DEF RequestsAreServed, FareTypeOK
  <2>2. FareTypeOK'
    BY <2>1 DEF FareTypeOK
  <2>3. RequestsAreServed'
    BY <2>1 DEF RequestsAreServed, FareTypeOK, Booked
  <2>4. FaresSound'
    BY DEF FaresSound, FirstRepriceIsTheRealOne, NothingUnacceptedIsBooked, Booked
  <2> QED BY <2>2, <2>3, <2>4 DEF OwnPricesAreQuoted
<1>6. ASSUME NEW t \in FareRequests,
             PriceUnavailable(t) \/ ReplaceFails(t) \/ RefuseOrShow(t) PROVE FareInv'
  BY <1>6, FareEndKeeps DEF PriceUnavailable, ReplaceFails, RefuseOrShow
<1>7. ASSUME NEW t \in FareRequests, ReplaceCached(t) PROVE FareInv'
  <2> USE <1>7, OrdersAreTyped DEF ReplaceCached
  <2>1. fareRead[t].offer \in FareOffers /\ newPrice[t] \in FareLevels
    BY EntriesAreTyped DEF RequestsAreServed, FareTypeOK
  <2>2. FareTypeOK'
    BY <2>1 DEF FareTypeOK, Entries
  <2>3. OwnPricesAreQuoted'
    BY DEF OwnPricesAreQuoted, FareTypeOK
  <2>4. RequestsAreServed'
    BY DEF RequestsAreServed, FareTypeOK, Booked
  <2>5. FaresSound'
    BY DEF FaresSound, FirstRepriceIsTheRealOne, NothingUnacceptedIsBooked, Booked
  <2> QED BY <2>2, <2>3, <2>4, <2>5
<1>8. ASSUME NEW t \in FareRequests, Book(t) PROVE FareInv'
  <2> DEFINE sale == [total |-> FinalTotal(t), verified |-> NewTotal(t),
                      own |-> fareRead[t].own /\ fareRead[t].offer = order[t].offer]
  <2>1. /\ farePc[t] = "decide" /\ Accepts(t) /\ FareEnd(t)
        /\ bought' = [bought EXCEPT ![t] = sale]
        /\ UNCHANGED <<order, keyOf, asking, quoted, cached>>
    BY <1>8 DEF Book
  <2>2. /\ newPrice[t] \in Nat \ {0} /\ quoted[order[t].offer] \in Nat \ {0}
        /\ order[t].offer \in FareOffers
    <3>1. newPrice[t] \in FareLevels /\ quoted[order[t].offer] > 0
      BY <2>1 DEF RequestsAreServed
    <3> QED BY <3>1, OrdersAreTyped DEF FareTypeOK
  <2>3. fareRead[t].own \in BOOLEAN
    BY EntriesAreTyped DEF FareTypeOK
  <2>4. sale \in [total : Nat, verified : Nat, own : BOOLEAN]
    BY <2>2, <2>3 DEF FinalTotal, NewTotal, QuotedTotal
  <2>5. sale.own => sale.total = sale.verified
    BY DEF OwnPricesAreQuoted, FinalTotal, NewTotal, QuotedTotal, PriceChanged
  <2>6. sale.total \in {quoted[order[t].offer] + Markup, order[t].accepted}
    BY <2>1 DEF Accepts, FinalTotal, QuotedTotal
  <2> HIDE DEF sale
  <2> USE <2>1 DEF FareEnd
  <2>7. FareTypeOK'
    BY <2>4 DEF FareTypeOK, Entries
  <2>8. OwnPricesAreQuoted'
    BY DEF OwnPricesAreQuoted, FareTypeOK, NoEntry
  <2>9. RequestsAreServed'
    BY <2>2 DEF RequestsAreServed, FareTypeOK, Booked
  <2>10. FaresSound'
    BY <2>5, <2>6 DEF FareTypeOK, FaresSound, FirstRepriceIsTheRealOne,
       NothingUnacceptedIsBooked, Booked
  <2> QED BY <2>7, <2>8, <2>9, <2>10
<1>9. CASE UNCHANGED fareVars
  BY <1>9 DEF fareVars, FareTypeOK, OwnPricesAreQuoted, RequestsAreServed, FaresSound,
    FirstRepriceIsTheRealOne, NothingUnacceptedIsBooked, Booked
<1> QED BY <1>1, <1>2, <1>3, <1>4, <1>5, <1>6, <1>7, <1>8, <1>9 DEF FareNext

\* FareTypeOK and FaresSound: for any offers, keys of the cache and requests, a
\* booking costs what the supplier asked in its reprice when the cached offer
\* was still the one of the search, and never a price that the traveller
\* neither saw in the search nor accepted.
THEOREM FaresAlwaysSound == FareSpec => [](FareTypeOK /\ FaresSound)
<1>1. FareInv => FareTypeOK /\ FaresSound
  BY DEF FareInv
<1> QED BY <1>1, FareInitInv, FareStepInv, PTL DEF FareSpec
-----------------------------------------------------------------------------
(* Travel policies (TravelPolicy).                                         *)

\* The rows are there, what an administrator sends was accepted, and every
\* verdict is that of the policy that was followed.
PolicyDecisions ==
  /\ policies = [owner \in Owners |-> policies[owner]]
  /\ adminAsk = [a \in PolicyAdmins |-> adminAsk[a]]
  /\ followed = [e \in Evaluations |-> followed[e]]
  /\ inForce = [e \in Evaluations |-> inForce[e]]
  /\ \A a \in PolicyAdmins : adminPc[a] = "upsert" => AcceptsPolicy(adminAsk[a].dto)
  /\ \A e \in Evaluations : evalPc[e] = "done" => verdict[e] = Evaluate(followed[e], trip[e])

\* Between its two reads an evaluation saw no override: unless one was made
\* since, the corporate policy it is about to read is in force.
ReadsAgree ==
  \A e \in Evaluations : evalPc[e] = "corporate" /\ ~overrideMade[e] =>
    policies["department"] = NoPolicy /\ Effective \in inForce[e]

PolicyInv ==
  PolicyTypeOK /\ PolicyDecisions /\ ReadsAgree /\ FollowsAPolicyInForce /\ CapsAreOrdered

LEMMA CabinsAreRanked == \A c \in Cabins : CabinRank[c] \in Nat
BY DEF Cabins, CabinRank

LEMMA EvaluationsDecide ==
  \A policy, t : Evaluate(policy, t) \in {Blocked, NeedsApproval, InPolicy}
BY DEF Evaluate

LEMMA HardCapDecides ==
  ASSUME NEW policy \in Policy, NEW t \in Trips,
         ~policy.foreign, Exceeds(t.fare, policy.hard)
  PROVE  /\ Evaluate(policy, t) # InPolicy
         /\ CabinRank[t.cabin] <= CabinRank[policy.maxCabin] => Evaluate(policy, t).blocked
<1>1. policy # NoPolicy
  BY DEF NoPolicy, Exceeds
<1>2. CabinRank[t.cabin] \in Nat /\ CabinRank[policy.maxCabin] \in Nat
  BY PolicyAssumption, CabinsAreRanked DEF Policy
<1>3. Comparable(policy) /\ Exceeds(FareIn(policy, t.fare), policy.hard)
  BY DEF Comparable, FareIn
<1>4. CASE CabinRank[t.cabin] > CabinRank[policy.maxCabin]
  <2>1. Evaluate(policy, t) \in {Blocked, NeedsApproval}
    BY <1>1, <1>4 DEF Evaluate
  <2> QED BY <2>1, <1>2, <1>4 DEF Blocked, NeedsApproval, InPolicy
<1>5. CASE ~(CabinRank[t.cabin] > CabinRank[policy.maxCabin])
  <2>1. Evaluate(policy, t) = Blocked
    BY <1>1, <1>3, <1>5 DEF Evaluate
  <2> QED BY <2>1 DEF Blocked, InPolicy
<1> QED BY <1>4, <1>5

LEMMA PolicyInitInv == PolicyInit => PolicyInv
<1> SUFFICES ASSUME PolicyInit PROVE PolicyInv
  OBVIOUS
<1> USE DEF PolicyInit
<1>1. PolicyTypeOK
  BY DEF PolicyTypeOK, Owners
<1>2. PolicyDecisions
  BY DEF PolicyDecisions
<1>3. ReadsAgree /\ FollowsAPolicyInForce
  BY DEF ReadsAgree, FollowsAPolicyInForce
<1>4. CapsAreOrdered
  BY DEF CapsAreOrdered, NoPolicy
<1> QED BY <1>1, <1>2, <1>3, <1>4 DEF PolicyInv

\* What a change of the policies leaves in order.
LEMMA PutKeeps ==
  ASSUME PolicyInv, NEW owner \in Owners, NEW policy \in Policy \cup {NoPolicy},
         policy = NoPolicy \/ AcceptsPolicy(policy), Put(owner, policy),
         NEW a \in PolicyAdmins, adminPc' = [adminPc EXCEPT ![a] = "done"],
         UNCHANGED <<trip, evalPc, verdict, adminAsk, followed>>
  PROVE  PolicyInv'
<1> USE DEF PolicyInv, Put
<1>1. \A o \in Owners : policies'[o] = IF o = owner THEN policy ELSE policies[o]
  BY DEF PolicyDecisions
<1>2. Effective' \in Policy \cup {NoPolicy}
  BY <1>1 DEF Effective, PolicyTypeOK, Owners
<1>3. \A e \in Evaluations :
        /\ inForce'[e] = IF evalPc[e] = "corporate" THEN inForce[e] \cup {Effective'} ELSE inForce[e]
        /\ overrideMade'[e] = (overrideMade[e] \/ (evalPc[e] = "corporate" /\ policies'["department"] # NoPolicy))
  OBVIOUS
<1>4. PolicyTypeOK'
  <2>1. overrideMade' \in [Evaluations -> BOOLEAN]
    BY DEF PolicyTypeOK
  <2>2. \A e \in Evaluations : \A p \in inForce'[e] : p \in Policy \cup {NoPolicy}
    BY <1>2, <1>3 DEF PolicyTypeOK
  <2>3. \A o \in Owners : policies'[o] \in Policy \cup {NoPolicy}
    BY <1>1 DEF PolicyTypeOK
  <2> QED BY <2>1, <2>2, <2>3 DEF PolicyTypeOK
<1>5. PolicyDecisions'
  BY DEF PolicyDecisions, PolicyTypeOK
<1>6. ReadsAgree'
  BY <1>3 DEF ReadsAgree
<1>7. FollowsAPolicyInForce'
  BY <1>3 DEF FollowsAPolicyInForce
<1>8. CapsAreOrdered'
  BY <1>1 DEF CapsAreOrdered, AcceptsPolicy, NoPolicy
<1> QED BY <1>4, <1>5, <1>6, <1>7, <1>8

LEMMA PolicyStepInv == PolicyInv /\ [PolicyNext]_policyVars => PolicyInv'
<1> SUFFICES ASSUME PolicyInv, [PolicyNext]_policyVars PROVE PolicyInv'
  OBVIOUS
<1> USE DEF PolicyInv
<1>1. ASSUME NEW e \in Evaluations, ReadOverride(e) PROVE PolicyInv'
  <2> USE <1>1 DEF ReadOverride
  <2>1. Effective \in Policy \cup {NoPolicy}
    BY DEF Effective, PolicyTypeOK, Owners
  <2>2. CASE policies["department"] # NoPolicy
    <3>1. Effective = policies["department"] /\ Decide(e, Effective)
      BY <2>2 DEF Effective
    <3> USE <3>1 DEF Decide
    <3>2. PolicyTypeOK'
      BY <2>1, EvaluationsDecide DEF PolicyTypeOK
    <3>3. PolicyDecisions'
      BY DEF PolicyDecisions, PolicyTypeOK
    <3>4. ReadsAgree' /\ FollowsAPolicyInForce' /\ CapsAreOrdered'
      BY DEF ReadsAgree, FollowsAPolicyInForce, CapsAreOrdered, PolicyDecisions, PolicyTypeOK, Effective
    <3> QED BY <3>2, <3>3, <3>4
  <2>3. CASE policies["department"] = NoPolicy
    <3> USE <2>3
    <3>2. PolicyTypeOK'
      BY <2>1 DEF PolicyTypeOK
    <3>3. PolicyDecisions'
      BY DEF PolicyDecisions, PolicyTypeOK
    <3>4. ReadsAgree' /\ FollowsAPolicyInForce' /\ CapsAreOrdered'
      BY DEF ReadsAgree, FollowsAPolicyInForce, CapsAreOrdered, PolicyDecisions, PolicyTypeOK, Effective
    <3> QED BY <3>2, <3>3, <3>4
  <2> QED BY <2>2, <2>3
<1>2. ASSUME NEW e \in Evaluations, ReadCorporate(e) PROVE PolicyInv'
  <2> USE <1>2 DEF ReadCorporate, Decide
  <2>1. ~overrideMade[e] => policies["corporate"] \in inForce[e]
    BY DEF ReadsAgree, Effective
  <2>2. PolicyTypeOK'
    BY EvaluationsDecide DEF PolicyTypeOK, Owners
  <2>3. PolicyDecisions'
    BY DEF PolicyDecisions, PolicyTypeOK
  <2>4. ReadsAgree' /\ FollowsAPolicyInForce' /\ CapsAreOrdered'
    BY <2>1 DEF ReadsAgree, FollowsAPolicyInForce, CapsAreOrdered, PolicyDecisions, PolicyTypeOK, Effective
  <2> QED BY <2>2, <2>3, <2>4
<1>3. ASSUME NEW a \in PolicyAdmins, ReadForUpsert(a) PROVE PolicyInv'
  <2> USE <1>3 DEF ReadForUpsert
  <2>1. PICK owner \in Owners, dto \in PolicyDtos :
          /\ AcceptsPolicy(dto)
          /\ adminAsk' = [adminAsk EXCEPT ![a] =
               [owner |-> owner, dto |-> dto, creates |-> policies[owner] = NoPolicy]]
    OBVIOUS
  <2>2. PolicyTypeOK'
    <3> DEFINE creates == policies[owner] = NoPolicy
    <3>1. creates \in BOOLEAN
      OBVIOUS
    <3>2. adminAsk' = [adminAsk EXCEPT ![a] = [owner |-> owner, dto |-> dto, creates |-> creates]]
      BY <2>1
    <3> HIDE DEF creates
    <3> QED BY <3>1, <3>2 DEF PolicyTypeOK, PolicyDecisions
  <2>3. PolicyDecisions'
    BY <2>1 DEF PolicyDecisions, PolicyTypeOK
  <2> QED BY <2>2, <2>3 DEF ReadsAgree, FollowsAPolicyInForce, CapsAreOrdered, Effective
<1>4. ASSUME NEW a \in PolicyAdmins, ReadForDelete(a) \/ PolicyWriteConflicts(a) PROVE PolicyInv'
  <2> USE <1>4 DEF ReadForDelete, PolicyWriteConflicts
  <2>1. PolicyTypeOK'
    BY DEF PolicyTypeOK
  <2>2. PolicyDecisions'
    BY DEF PolicyDecisions, PolicyTypeOK
  <2> QED BY <2>1, <2>2 DEF ReadsAgree, FollowsAPolicyInForce, CapsAreOrdered, Effective
<1>5. ASSUME NEW a \in PolicyAdmins, Upsert(a) PROVE PolicyInv'
  <2> USE <1>5 DEF Upsert
  <2>1. AcceptsPolicy(adminAsk[a].dto) /\ adminAsk[a].owner \in Owners
    BY DEF PolicyDecisions, PolicyTypeOK
  <2>2. adminAsk[a].dto \in Policy \cup {NoPolicy}
    BY PolicyAssumption DEF PolicyTypeOK
  <2> QED BY <2>1, <2>2, PutKeeps
<1>6. ASSUME NEW a \in PolicyAdmins, DeleteOverride(a) PROVE PolicyInv'
  BY <1>6, PutKeeps DEF DeleteOverride, Owners
<1>7. CASE UNCHANGED policyVars
  BY <1>7 DEF policyVars, PolicyTypeOK, PolicyDecisions, ReadsAgree, FollowsAPolicyInForce,
     CapsAreOrdered, Effective
<1> QED BY <1>1, <1>2, <1>3, <1>4, <1>5, <1>6, <1>7 DEF PolicyNext

LEMMA PolicyInvSound == PolicyInv => PolicyTypeOK /\ PoliciesSound
<1> SUFFICES ASSUME PolicyInv, NEW e \in Evaluations, evalPc[e] = "done", OverHardCap(e)
             PROVE  /\ verdict[e] # InPolicy
                    /\ CabinRank[trip[e].cabin] <= CabinRank[followed[e].maxCabin] =>
                         verdict[e].blocked
  BY DEF PoliciesSound, HardCapNeverPasses, PolicyInv
<1>1. followed[e] \in Policy /\ trip[e] \in Trips
  BY DEF PolicyInv, PolicyTypeOK, OverHardCap
<1>2. verdict[e] = Evaluate(followed[e], trip[e])
  BY DEF PolicyInv, PolicyDecisions
<1> QED BY <1>1, <1>2, HardCapDecides DEF OverHardCap

\* PolicyTypeOK and PoliciesSound: however administrators change the policies
\* between the two look-ups of an evaluation, the one it follows was in force
\* during it, the caps of every policy are in order, and a fare above the hard
\* cap is never simply allowed.
THEOREM PoliciesAlwaysSound == PolicySpec => [](PolicyTypeOK /\ PoliciesSound)
BY PolicyInitInv, PolicyStepInv, PolicyInvSound, PTL DEF PolicySpec
-----------------------------------------------------------------------------
(* The page on which a traveller books (BookingPage).                      *)

\* A key is that of one booking, made for a request that was told of it; the
\* requests come from this form and the ones before, under their forms' keys.
RowsAreKeyed ==
  /\ submission = [n \in Submissions |-> submission[n]]
  /\ previewCall = [p \in Previews |-> previewCall[p]]
  /\ \A b, c \in hotelRows : b.key = c.key => b = c
  /\ \A b \in hotelRows : \E n \in Submissions :
       submission[n] # NoRequest /\ submission[n].key = b.key /\ submission[n].answer.kind = "booking"
  /\ \A n \in Submissions : submission[n] # NoRequest =>
       submission[n].key = submission[n].form /\ submission[n].form <= form

\* Whose answer is awaited or shown was sent from this form; and unless an
\* answer was lost, every other request of the form was turned down, and a
\* booking is what its request asked for.
AnswersAreKnown ==
  /\ waitingFor # 0 => submission[waitingFor] # NoRequest /\ submission[waitingFor].form = form
  /\ step = "left" => /\ waitingFor = 0 /\ shown \in Submissions
                      /\ submission[shown] # NoRequest /\ submission[shown].form = form
                      /\ submission[shown].answer.kind = "booking"
  /\ ~answerLost => \A n \in Submissions : submission[n] # NoRequest /\ submission[n].form = form =>
       /\ n # waitingFor /\ ~(step = "left" /\ n = shown) =>
            submission[n].answer.kind \in {"refused", "confirm"}
       /\ submission[n].answer.kind = "booking" =>
            /\ submission[n].answer.row.rooms = submission[n].rooms
            /\ submission[n].answer.row.total
                 \in {submission[n].rooms * SearchPrice, submission[n].accepted}

\* One preview at a time is for the rooms on the review page.
PreviewsAgree ==
  ~previewsOverlap =>
    /\ \A p, q \in Previews : previewCall[p] # 0 /\ previewCall[q] # 0 => p = q
    /\ step = "review" => \A p \in Previews : previewCall[p] # 0 =>
         previewCall[p] = rooms /\ preview.loading
    /\ step = "review" /\ ~preview.loading => preview.of \in {0, rooms}

PageInv == PageTypeOK /\ RowsAreKeyed /\ AnswersAreKnown /\ PreviewsAgree

-----------------------------------------------------------------------------
LEMMA PageBounds ==
  /\ MaxRooms \in Nat \ {0} /\ LastForm \in Nat \ {0} /\ 0 \notin Submissions
  /\ Cardinality(Submissions) \in Nat /\ 0 \in 0..MaxRooms
BY PageAssumption, FS_CardinalityType

LEMMA RequestsAreTyped ==
  \A q \in Requests :
    /\ q # NoRequest /\ q.form \in 1..LastForm /\ q.rooms \in RoomCounts
    /\ q.accepted \in Totals \cup {0} /\ q.answer \in Answers
    /\ \A a \in Answers : /\ [q EXCEPT !.answer = a] \in Requests
                          /\ [q EXCEPT !.answer = a].answer = a
                          /\ [q EXCEPT !.answer = a].form = q.form
                          /\ [q EXCEPT !.answer = a].key = q.key
                          /\ [q EXCEPT !.answer = a].rooms = q.rooms
                          /\ [q EXCEPT !.answer = a].accepted = q.accepted
<1> TAKE q \in Requests
<1>1. q.form \in 1..LastForm /\ q.form # 0
  BY PageBounds DEF Requests
<1>2. q # NoRequest
  BY <1>1 DEF NoRequest
<1>3. ASSUME NEW a \in Answers PROVE [q EXCEPT !.answer = a] \in Requests
  BY DEF Requests
<1>4. q.rooms \in RoomCounts /\ q.accepted \in Totals \cup {0} /\ q.answer \in Answers
  BY DEF Requests
<1>5. q = [form |-> q.form, key |-> q.key, rooms |-> q.rooms, accepted |-> q.accepted,
           answer |-> q.answer]
  BY DEF Requests
<1> QED BY <1>1, <1>2, <1>3, <1>4, <1>5

LEMMA AnswersAreTyped ==
  /\ [kind |-> "pending"] \in Answers /\ [kind |-> "refused"] \in Answers
  /\ \A total \in Totals : [kind |-> "confirm", total |-> total] \in Answers
  /\ \A b \in HotelRow : [kind |-> "booking", row |-> b] \in Answers
  /\ \A a \in Answers : a.kind = "confirm" => a.total \in Totals
  /\ \A a \in Answers : a.kind \in {"pending", "refused", "confirm", "booking"}
BY DEF Answers

LEMMA PageInitInv == PageInit => PageInv
<1> SUFFICES ASSUME PageInit PROVE PageInv
  OBVIOUS
<1> USE PageBounds DEF PageInit
<1>1. PageTypeOK
  <2>1. form \in 1..LastForm /\ rooms \in RoomCounts
    BY DEF RoomCounts
  <2>2. /\ preview \in [loading : BOOLEAN, of : 0..MaxRooms]
        /\ previewCall \in [Previews -> 0..MaxRooms]
    OBVIOUS
  <2> QED BY <2>1, <2>2 DEF PageTypeOK
<1>2. RowsAreKeyed
  BY DEF RowsAreKeyed
<1>3. AnswersAreKnown
  BY DEF AnswersAreKnown
<1>4. PreviewsAgree
  BY DEF PreviewsAgree
<1> QED BY <1>1, <1>2, <1>3, <1>4 DEF PageInv

LEMMA PreviewKeeps ==
  ASSUME PageInv, NEW p \in Previews,
         GoToReview(p) \/ PreviewArrives(p)
  PROVE  PageInv'
<1> USE PageBounds DEF PageInv, sent
<1>1. CASE GoToReview(p)
  <2> USE <1>1 DEF GoToReview
  <2>1. preview' = [loading |-> TRUE, of |-> preview.of] /\ rooms \in 1..MaxRooms
    BY DEF PageTypeOK, RoomCounts
  <2>2. previewCall' = [previewCall EXCEPT ![p] = rooms]
    OBVIOUS
  <2>3. PageTypeOK'
    <3>1. previewsOverlap' \in BOOLEAN
      BY DEF PageTypeOK
    <3>2. previewCall' \in [Previews -> 0..MaxRooms] /\ preview.of \in 0..MaxRooms
      BY <2>1, <2>2 DEF PageTypeOK
    <3>3. preview' \in [loading : BOOLEAN, of : 0..MaxRooms]
      BY <2>1, <3>2
    <3> QED BY <3>1, <3>2, <3>3 DEF PageTypeOK
  <2>4. PreviewsAgree'
    <3>1. CASE \E q \in Previews : previewCall[q] # 0
      BY <3>1 DEF PreviewsAgree
    <3>2. CASE \A q \in Previews : previewCall[q] = 0
      <4>1. \A q \in Previews : previewCall'[q] = IF q = p THEN rooms ELSE 0
        BY <2>2, <3>2 DEF RowsAreKeyed
      <4> QED BY <2>1, <4>1 DEF PreviewsAgree
    <3> QED BY <3>1, <3>2
  <2> QED BY <2>2, <2>3, <2>4 DEF RowsAreKeyed, AnswersAreKnown
<1>2. CASE PreviewArrives(p)
  <2> USE <1>2 DEF PreviewArrives, AfterFailedPreview
  <2>1. PICK of \in {previewCall[p], 0} : preview' = [loading |-> FALSE, of |-> of]
    OBVIOUS
  <2>2. previewCall' = [previewCall EXCEPT ![p] = 0] /\ of \in 0..MaxRooms
    BY DEF PageTypeOK
  <2>3. PageTypeOK'
    BY <2>1, <2>2 DEF PageTypeOK
  <2>4. PreviewsAgree'
    <3>1. \A q \in Previews : previewCall'[q] = IF q = p THEN 0 ELSE previewCall[q]
      BY <2>2 DEF RowsAreKeyed
    <3> QED BY <2>1, <3>1 DEF PreviewsAgree
  <2> QED BY <2>2, <2>3, <2>4 DEF RowsAreKeyed, AnswersAreKnown
<1> QED BY <1>1, <1>2

LEMMA SubmitKeeps ==
  ASSUME PageInv, NEW n \in Submissions, Confirm(n) \/ Accept(n)
  PROVE  PageInv'
<1> USE PageBounds DEF PageInv
<1>1. PICK accepted \in Totals \cup {0} : Submit(n, accepted)
  BY DEF Confirm, Accept, PageTypeOK
<1>2. step = "review" /\ waitingFor = 0
  BY DEF Confirm, Accept, CanConfirm
<1> DEFINE q == [form |-> form, key |-> form, rooms |-> rooms, accepted |-> accepted,
                 answer |-> [kind |-> "pending"]]
<1>3. /\ submission[n] = NoRequest /\ waitingFor' = n
      /\ submission' = [submission EXCEPT ![n] = q]
      /\ UNCHANGED <<shown, answerLost, screen, hotelRows>>
  BY <1>1 DEF Submit, KeyOf
<1>4. q \in Requests
  BY AnswersAreTyped DEF PageTypeOK, Requests
<1>5. /\ q # NoRequest /\ q.form = form /\ q.key = form /\ q.answer.kind = "pending"
  BY <1>4, RequestsAreTyped
<1> HIDE DEF q
<1>6. \A m \in Submissions : submission'[m] = IF m = n THEN q ELSE submission[m]
  BY <1>3 DEF RowsAreKeyed
<1>7. UNCHANGED <<form, step, rooms, preview, previewCall, dialog, previewsOverlap>>
  BY <1>3 DEF screen
<1>8. PageTypeOK'
  BY <1>3, <1>4, <1>6, <1>7 DEF PageTypeOK
<1>9. RowsAreKeyed'
  <2>1. form \in Nat
    BY DEF PageTypeOK
  <2>2. ASSUME NEW b \in hotelRows
        PROVE  \E m \in Submissions : /\ submission'[m] # NoRequest /\ submission'[m].key = b.key
                                      /\ submission'[m].answer.kind = "booking"
    <3>1. PICK m \in Submissions : /\ submission[m] # NoRequest /\ submission[m].key = b.key
                                   /\ submission[m].answer.kind = "booking"
      BY DEF RowsAreKeyed
    <3>2. submission'[m] = submission[m]
      BY <1>3, <1>6, <3>1
    <3> QED BY <3>1, <3>2
  <2> QED BY <1>3, <1>5, <1>6, <1>7, <2>1, <2>2 DEF RowsAreKeyed
<1>10. AnswersAreKnown'
  <2>1. n # 0 /\ step' = "review"
    BY <1>2, <1>7
  <2>2. ~answerLost => \A m \in Submissions \ {n} : submission[m] # NoRequest /\ submission[m].form = form =>
          submission[m].answer.kind \in {"refused", "confirm"}
    BY <1>2 DEF AnswersAreKnown
  <2> QED BY <1>3, <1>5, <1>6, <1>7, <2>1, <2>2 DEF AnswersAreKnown
<1>11. PreviewsAgree'
  BY <1>7 DEF PreviewsAgree
<1> QED BY <1>8, <1>9, <1>10, <1>11

LEMMA ArrivalKeeps ==
  ASSUME PageInv, NEW n \in Submissions, AnswerArrives(n) \/ AnswerIsLost(n)
  PROVE  PageInv'
<1> USE PageBounds DEF PageInv
<1>1. CASE AnswerArrives(n)
  <2> USE <1>1 DEF AnswerArrives
  <2>1. /\ waitingFor = n /\ n # 0 /\ submission[n] # NoRequest /\ submission[n].form = form
        /\ submission[n] \in Requests
    BY DEF AnswersAreKnown, PageTypeOK
  <2>2. /\ submission[n].answer \in Answers
        /\ submission[n].answer.kind \in {"refused", "confirm", "booking"}
    BY <2>1, RequestsAreTyped, AnswersAreTyped
  <2>3. /\ dialog' \in Totals \cup {0} /\ step' \in {step, "left"}
        /\ step' = "left" <=> step = "left" \/ submission[n].answer.kind = "booking"
        /\ shown' = IF submission[n].answer.kind = "booking" THEN n ELSE 0
    BY <2>2, AnswersAreTyped DEF PageTypeOK
  <2>4. PageTypeOK'
    BY <2>3 DEF PageTypeOK
  <2>5. step # "left"
    BY <2>1 DEF AnswersAreKnown
  <2>6. AnswersAreKnown'
    BY <2>1, <2>2, <2>3, <2>5 DEF AnswersAreKnown
  <2>7. PreviewsAgree'
    BY <2>3 DEF PreviewsAgree
  <2> QED BY <2>4, <2>6, <2>7 DEF RowsAreKeyed
<1>2. CASE AnswerIsLost(n)
  <2> USE <1>2 DEF AnswerIsLost, screen
  <2>1. PageTypeOK'
    BY DEF PageTypeOK
  <2> QED BY <2>1 DEF RowsAreKeyed, AnswersAreKnown, PreviewsAgree
<1> QED BY <1>1, <1>2

LEMMA ReloadKeeps == PageInv /\ Reload => PageInv'
<1> SUFFICES ASSUME PageInv, Reload PROVE PageInv'
  OBVIOUS
<1> USE PageBounds DEF PageInv, Reload
<1>1. PageTypeOK'
  <2>1. form' \in 1..LastForm /\ rooms' \in RoomCounts
    BY DEF PageTypeOK, RoomCounts
  <2>2. /\ preview' \in [loading : BOOLEAN, of : 0..MaxRooms]
        /\ previewCall' \in [Previews -> 0..MaxRooms]
    OBVIOUS
  <2> QED BY <2>1, <2>2 DEF PageTypeOK
<1>2. \A n \in Submissions : submission[n] # NoRequest => submission[n].form \in Nat
  BY RequestsAreTyped DEF PageTypeOK
<1>3. RowsAreKeyed' /\ AnswersAreKnown'
  BY <1>2 DEF RowsAreKeyed, AnswersAreKnown, PageTypeOK
<1>4. PreviewsAgree'
  BY DEF PreviewsAgree
<1> QED BY <1>1, <1>3, <1>4

\* The server answers n with `answer`; what that leaves to be shown.
LEMMA AnswerKeeps ==
  ASSUME PageInv, NEW n \in Submissions, submission[n] # NoRequest,
         submission[n].answer.kind = "pending",
         NEW answer \in Answers, answer.kind # "pending", AnswerWith(n, answer),
         UNCHANGED <<waitingFor, shown, answerLost, screen>>,
         hotelRows' \subseteq HotelRow,
         \A b, c \in hotelRows' : b.key = c.key => b = c,
         \A b \in hotelRows' : b \in hotelRows \/
           (b.key = submission[n].key /\ answer.kind = "booking"),
         ~answerLost /\ n = waitingFor /\ answer.kind = "booking" =>
           /\ answer.row.rooms = submission[n].rooms
           /\ answer.row.total \in {submission[n].rooms * SearchPrice, submission[n].accepted}
  PROVE  PageInv'
<1> USE PageBounds DEF PageInv
<1> DEFINE q == submission[n]
           r == [q EXCEPT !.answer = answer]
<1>1. q \in Requests
  BY DEF PageTypeOK
<1>2. /\ r \in Requests /\ r # NoRequest /\ r.answer = answer /\ r.form = q.form /\ r.key = q.key
      /\ r.rooms = q.rooms /\ r.accepted = q.accepted
  BY <1>1, RequestsAreTyped
<1>3. submission' = [submission EXCEPT ![n] = r]
  BY DEF AnswerWith
<1> HIDE DEF r
<1>4. \A m \in Submissions : submission'[m] = IF m = n THEN r ELSE submission[m]
  BY <1>3 DEF RowsAreKeyed
<1>5. UNCHANGED <<form, step, rooms, preview, previewCall, dialog, previewsOverlap>>
  BY DEF screen
<1>6. PageTypeOK'
  BY <1>2, <1>4, <1>5 DEF PageTypeOK
<1>7. RowsAreKeyed'
  <2>1. ASSUME NEW b \in hotelRows'
        PROVE  \E m \in Submissions : /\ submission'[m] # NoRequest /\ submission'[m].key = b.key
                                      /\ submission'[m].answer.kind = "booking"
    <3>1. CASE b \in hotelRows
      <4>1. PICK m \in Submissions : /\ submission[m] # NoRequest /\ submission[m].key = b.key
                                     /\ submission[m].answer.kind = "booking"
        BY <3>1 DEF RowsAreKeyed
      <4>2. submission'[m] = submission[m]
        BY <1>4, <4>1
      <4> QED BY <4>1, <4>2
    <3>2. CASE b \notin hotelRows
      BY <1>2, <1>4, <2>1, <3>2
    <3> QED BY <3>1, <3>2
  <2> QED BY <1>2, <1>3, <1>4, <1>5, <2>1 DEF RowsAreKeyed
<1>8. AnswersAreKnown'
  <2>1. step = "left" => n # shown
    BY DEF AnswersAreKnown
  <2>2. ~answerLost /\ q.form = form => n = waitingFor
    BY <2>1 DEF AnswersAreKnown
  <2>3. ~answerLost /\ q.form = form /\ r.answer.kind = "booking" =>
          r.answer.row.rooms = r.rooms /\ r.answer.row.total \in {r.rooms * SearchPrice, r.accepted}
    BY <1>2, <2>2
  <2>4. r.answer.kind # "pending"
    BY <1>2
  <2>5. ASSUME ~answerLost', NEW m \in Submissions,
               submission'[m] # NoRequest, submission'[m].form = form
        PROVE  /\ m # waitingFor /\ ~(step = "left" /\ m = shown) =>
                    submission'[m].answer.kind \in {"refused", "confirm"}
               /\ submission'[m].answer.kind = "booking" =>
                    /\ submission'[m].answer.row.rooms = submission'[m].rooms
                    /\ submission'[m].answer.row.total
                         \in {submission'[m].rooms * SearchPrice, submission'[m].accepted}
    <3>1. ~answerLost
      BY <2>5
    <3>2. CASE m = n
      <4>1. submission'[m] = r /\ q.form = form
        BY <1>2, <1>4, <2>5, <3>2
      <4> QED BY <2>2, <2>3, <3>1, <3>2, <4>1
    <3>3. CASE m # n
      <4>1. submission'[m] = submission[m]
        BY <1>4, <3>3
      <4> QED BY <2>5, <3>1, <4>1 DEF AnswersAreKnown
    <3> QED BY <3>2, <3>3
  <2>6. waitingFor # 0 => submission'[waitingFor] # NoRequest /\ submission'[waitingFor].form = form
    BY <1>2, <1>4 DEF AnswersAreKnown, PageTypeOK
  <2>7. step = "left" => /\ waitingFor = 0 /\ shown \in Submissions
                         /\ submission'[shown] # NoRequest /\ submission'[shown].form = form
                         /\ submission'[shown].answer.kind = "booking"
    BY <1>4, <2>1 DEF AnswersAreKnown
  <2> QED BY <1>5, <2>5, <2>6, <2>7 DEF AnswersAreKnown
<1>9. PreviewsAgree'
  BY <1>5 DEF PreviewsAgree
<1> QED BY <1>6, <1>7, <1>8, <1>9

LEMMA ServeKeeps ==
  ASSUME PageInv, NEW n \in Submissions, Serve(n)
  PROVE  PageInv'
<1> DEFINE q == submission[n]
           existing == {b \in hotelRows : b.key = q.key}
<1>1. /\ q # NoRequest /\ q.answer.kind = "pending"
      /\ UNCHANGED <<waitingFor, shown, answerLost, screen>>
  BY DEF Serve
<1>2. /\ q \in Requests /\ q.rooms \in RoomCounts /\ hotelRows \subseteq HotelRow
      /\ \A b, c \in hotelRows : b.key = c.key => b = c
  BY <1>1, RequestsAreTyped DEF PageInv, PageTypeOK, RowsAreKeyed
<1>3. CASE ServeRefuses(n)
  <2>1. [kind |-> "refused"] \in Answers
    BY AnswersAreTyped
  <2> QED BY <1>1, <1>2, <1>3, <2>1, AnswerKeeps DEF ServeRefuses
<1>4. ASSUME NEW price \in RoomPrices \cup {SearchPrice}, ServeAt(n, price)
      PROVE  PageInv'
  <2> DEFINE total == q.rooms * price
             row == [key |-> q.key, rooms |-> q.rooms, total |-> total]
  <2>1. total \in Totals
    BY <1>2 DEF Totals
  <2>2. CASE existing # {} /\ (\E b \in existing : AnswerWith(n, [kind |-> "booking", row |-> b]))
             /\ UNCHANGED hotelRows
    <3>1. PICK b \in existing : AnswerWith(n, [kind |-> "booking", row |-> b])
      BY <2>2
    <3>2. [kind |-> "booking", row |-> b] \in Answers
      BY <1>2, AnswersAreTyped
    <3>3. PICK m \in Submissions : /\ submission[m] # NoRequest /\ submission[m].key = q.key
                                   /\ submission[m].answer.kind = "booking"
      BY DEF PageInv, RowsAreKeyed
    <3>4. m # n /\ submission[m].form = q.form
      BY <1>1, <3>3 DEF PageInv, RowsAreKeyed
    <3>5. ~(~answerLost /\ n = waitingFor)
      <4> SUFFICES ASSUME ~answerLost, n = waitingFor PROVE FALSE
        OBVIOUS
      <4>1. q.form = form /\ n # 0
        BY PageBounds DEF PageInv, AnswersAreKnown
      <4>2. step # "left"
        BY <4>1 DEF PageInv, AnswersAreKnown
      <4> QED BY <3>3, <3>4, <4>1, <4>2 DEF PageInv, AnswersAreKnown
    <3> QED BY <1>1, <1>2, <2>2, <3>1, <3>2, <3>5, AnswerKeeps
  <2>3. CASE AnswerWith(n, [kind |-> "confirm", total |-> total]) /\ UNCHANGED hotelRows
    <3>1. [kind |-> "confirm", total |-> total] \in Answers
      BY <2>1, AnswersAreTyped
    <3> QED BY <1>1, <1>2, <2>3, <3>1, AnswerKeeps
  <2>4. CASE /\ existing = {} /\ (price = SearchPrice \/ q.accepted = total)
             /\ AnswerWith(n, [kind |-> "booking", row |-> row])
             /\ hotelRows' = hotelRows \cup {row}
    <3>1. row \in HotelRow /\ row.key = q.key
      BY <1>2, <2>1 DEF HotelRow, Requests
    <3>2. [kind |-> "booking", row |-> row] \in Answers
      BY <3>1, AnswersAreTyped
    <3>3. row.rooms = q.rooms /\ row.total \in {q.rooms * SearchPrice, q.accepted}
      BY <2>4
    <3>4. \A b \in hotelRows : b.key # q.key
      BY <2>4
    <3> HIDE DEF row
    <3>5. /\ hotelRows' \subseteq HotelRow
          /\ \A b, c \in hotelRows' : b.key = c.key => b = c
          /\ \A b \in hotelRows' : b \in hotelRows \/ b.key = q.key
      BY <1>2, <2>4, <3>1, <3>4
    <3> QED BY <1>1, <2>4, <3>2, <3>3, <3>5, AnswerKeeps
  <2> QED BY <1>4, <2>2, <2>3, <2>4 DEF ServeAt
<1> QED BY <1>3, <1>4 DEF Serve

LEMMA PageStepInv == PageInv /\ [PageNext]_pageVars => PageInv'
<1> SUFFICES ASSUME PageInv, [PageNext]_pageVars PROVE PageInv'
  OBVIOUS
<1>1. CASE ChangeRooms \/ Back \/ DismissDialog
  <2> USE PageBounds, <1>1 DEF PageInv, sent, ChangeRooms, Back, DismissDialog
  <2>1. PageTypeOK'
    BY DEF PageTypeOK
  <2> QED BY <2>1 DEF RowsAreKeyed, AnswersAreKnown, PreviewsAgree
<1>2. CASE UNCHANGED pageVars
  BY <1>2 DEF pageVars, screen, sent, PageInv, PageTypeOK, RowsAreKeyed, AnswersAreKnown,
     PreviewsAgree
<1> QED BY <1>1, <1>2, PreviewKeeps, SubmitKeeps, ArrivalKeeps, ReloadKeeps, ServeKeeps DEF PageNext

LEMMA PageInvSound == PageInv => PageTypeOK /\ FormsSound
<1> SUFFICES ASSUME PageInv PROVE FormsSound
  BY DEF PageInv
<1>1. OneBookingPerForm
  <2>1. \A n \in Submissions : submission[n].form # 0 => submission[n] # NoRequest
    BY DEF NoRequest
  <2> QED BY <2>1 DEF PageInv, RowsAreKeyed, OneBookingPerForm
<1>2. ShownBookingIsAsAsked
  BY DEF PageInv, AnswersAreKnown, ShownBookingIsAsAsked
<1>3. ReviewedPriceIsForTheseRooms
  BY DEF PageInv, PreviewsAgree, ReviewedPriceIsForTheseRooms, CanConfirm
<1> QED BY <1>1, <1>2, <1>3 DEF FormsSound

\* PageTypeOK and FormsSound: whatever the traveller changes, repeats or leaves
\* and in whatever order requests are served, one form makes one booking, the
\* booking shown is the form's unless an answer was lost, and the price under
\* review is for the rooms asked for unless previews overlapped.
THEOREM FormsAlwaysSound == PageSpec => [](PageTypeOK /\ FormsSound)
BY PageInitInv, PageStepInv, PageInvSound, PTL DEF PageSpec
-----------------------------------------------------------------------------
(* The run of MC_Search: each step of it is a step of every service, or      *)
(* leaves it alone.                                                          *)

LEMMA PricingInit ==
  MCInit => TokenInit /\ RatesInit /\ MarkupInit /\ FareInit /\ PolicyInit /\ PageInit
BY DEF MCInit

LEMMA PricingStep ==
  [MCNext]_searchVars =>
    /\ [TokenNext]_tokenVars /\ [RatesNext]_ratesVars /\ [MarkupNext]_markupVars
    /\ [FareNext]_fareVars /\ [PolicyNext]_policyVars /\ [PageNext]_pageVars
<1> SUFFICES ASSUME [MCNext]_searchVars
             PROVE  /\ [TokenNext]_tokenVars /\ [RatesNext]_ratesVars /\ [MarkupNext]_markupVars
                    /\ [FareNext]_fareVars /\ [PolicyNext]_policyVars /\ [PageNext]_pageVars
  OBVIOUS
<1> USE DEF searchingVars, pricingVars, askingVars
<1>1. CASE Searching /\ UNCHANGED <<pricingVars, askingVars>>
  BY <1>1 DEF Searching
<1>2. CASE Pricing /\ UNCHANGED <<searchingVars, askingVars>>
  BY <1>2 DEF Pricing
<1>3. CASE Asking /\ UNCHANGED <<searchingVars, pricingVars>>
  BY <1>3 DEF Asking
<1>4. CASE UNCHANGED searchVars
  BY <1>4 DEF searchVars
<1> QED BY <1>1, <1>2, <1>3, <1>4 DEF MCNext

LEMMA PricingServices ==
  MCSpec => TokenSpec /\ RatesSpec /\ MarkupSpec /\ FareSpec /\ PolicySpec /\ PageSpec
BY PricingInit, PricingStep, PTL
   DEF MCSpec, TokenSpec, RatesSpec, MarkupSpec, FareSpec, PolicySpec, PageSpec

\* The part of SearchTypeOK that is about prices.
LEMMA PricingTypeCorrect ==
  MCSpec => [](/\ TokenTypeOK /\ RatesTypeOK /\ MarkupTypeOK
               /\ FareTypeOK /\ PolicyTypeOK /\ PageTypeOK)
BY PricingServices, TokensAlwaysSound, RatesAlwaysFresh, MarkupAlwaysSound, FaresAlwaysSound,
   PoliciesAlwaysSound, FormsAlwaysSound, PTL

\* CachesSound: the token of the supplier and the exchange rates that are kept in
\* memory are used while they are good, whoever asks for them at once.
THEOREM CachesAlwaysSound == MCSpec => []CachesSound
BY PricingServices, TokensAlwaysSound, RatesAlwaysFresh, PTL DEF CachesSound

\* PurchasesSound: what is bought is what was asked for, at a price that was
\* shown or accepted, under a policy that was in force.
THEOREM PurchasesAlwaysSound == MCSpec => []PurchasesSound
BY PricingServices, FaresAlwaysSound, FormsAlwaysSound, PoliciesAlwaysSound, PTL
   DEF PurchasesSound
=============================================================================
