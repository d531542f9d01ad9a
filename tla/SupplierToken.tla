---------------------------- MODULE SupplierToken ----------------------------
(***************************************************************************)
(* The OAuth2 token of AmadeusFlightSupplierAdapter.getAccessToken: cached *)
(* in memory with an early-refresh margin, one request to the token        *)
(* endpoint shared by all callers that need it meanwhile.                  *)
(***************************************************************************)
EXTENDS Naturals, FiniteSets

CONSTANTS
  TokenCallers,
  Lifetime,    \* expires_in, as the supplier sends it
  Margin,      \* the 60 seconds
  LastTick     \* bound on the clock

ASSUME TokenAssumption == Lifetime \in Nat /\ Margin \in Nat /\ LastTick \in Nat

VARIABLES
  clock,
  cachedToken,  \* [expiresAt, validUntil]: the adapter's and the supplier's view
  requests,     \* the requests under way: set of [by, since]
  callerPc,     \* "idle" or "waiting"
  handedOut     \* how long the token last taken from the cache was still valid; history

tokenVars == <<clock, cachedToken, requests, callerPc, handedOut>>

TokenInit ==
  /\ clock = 0
  /\ cachedToken = [expiresAt |-> 0, validUntil |-> 0]
  /\ requests = {}
  /\ callerPc = [c \in TokenCallers |-> "idle"]
  /\ handedOut = [c \in TokenCallers |-> Lifetime]

\* Mutant: the token is kept to its last second.
EarlyExpiryOnTime(since) == since + Lifetime
EarlyExpiry(since) == since + IF Lifetime > Margin THEN Lifetime - Margin ELSE 0

CachedIsFresh == cachedToken.expiresAt > clock

UseCached(c) ==
  /\ callerPc[c] = "idle"
  /\ CachedIsFresh
  /\ handedOut' = [handedOut EXCEPT ![c] =
       IF cachedToken.validUntil > clock THEN cachedToken.validUntil - clock ELSE 0]
  /\ UNCHANGED <<clock, cachedToken, requests, callerPc>>

\* A request is under way: its answer is awaited.
JoinRequest(c) ==
  /\ callerPc[c] = "idle"
  /\ ~CachedIsFresh
  /\ requests # {}
  /\ callerPc' = [callerPc EXCEPT ![c] = "waiting"]
  /\ UNCHANGED <<clock, cachedToken, requests, handedOut>>

RequestToken(c) ==
  /\ callerPc[c] = "idle"
  /\ ~CachedIsFresh
  /\ requests = {}
  /\ requests' = {[by |-> c, since |-> clock]}
  /\ callerPc' = [callerPc EXCEPT ![c] = "waiting"]
  /\ UNCHANGED <<clock, cachedToken, handedOut>>

\* The answer: cached with the time at which the request was made, and handed
\* to everyone who waits; the request is over.  The supplier counts from some
\* moment in between.
TokenAnswered(request) ==
  /\ \E issued \in request.since..clock :
       cachedToken' = [expiresAt |-> EarlyExpiry(request.since), validUntil |-> issued + Lifetime]
  /\ requests' = requests \ {request}
  /\ callerPc' = [c \in TokenCallers |-> "idle"]
  /\ UNCHANGED <<clock, handedOut>>

\* A failure: everyone who waits gets the error, and the next caller asks again.
TokenRefused(request) ==
  /\ requests' = requests \ {request}
  /\ callerPc' = [c \in TokenCallers |-> "idle"]
  /\ UNCHANGED <<clock, cachedToken, handedOut>>

Tick ==
  /\ clock < LastTick
  /\ clock' = clock + 1
  /\ UNCHANGED <<cachedToken, requests, callerPc, handedOut>>

\* The token endpoint answers, one way or the other.
EndpointAnswers == \E request \in requests : TokenAnswered(request) \/ TokenRefused(request)

TokenNext ==
  \/ \E c \in TokenCallers : UseCached(c) \/ JoinRequest(c) \/ RequestToken(c)
  \/ EndpointAnswers
  \/ Tick

TokenSpec == TokenInit /\ [][TokenNext]_tokenVars
-----------------------------------------------------------------------------
(* Properties.                                                             *)

TokenTypeOK ==
  /\ clock \in 0..LastTick
  /\ cachedToken \in [expiresAt : 0..(LastTick + Lifetime), validUntil : 0..(LastTick + Lifetime)]
  /\ requests \subseteq [by : TokenCallers, since : 0..LastTick]
  /\ callerPc \in [TokenCallers -> {"idle", "waiting"}]
  /\ handedOut \in [TokenCallers -> 0..(LastTick + Lifetime)]

\* "A concurrent second caller while a fetch is already in flight awaits the
\* same promise rather than firing a duplicate token request", and nobody waits
\* for a request that is over.
OneTokenRequest ==
  /\ Cardinality(requests) <= 1
  /\ requests = {} => \A c \in TokenCallers : callerPc[c] = "idle"

\* A token comes from the cache only while the supplier will take it for longer
\* than the margin, even if it issued it the moment it was asked: the expiry is
\* counted from before the request, never from after it.  A token that lives no
\* longer than the margin is never used twice.
TokensAreFresh ==
  \A c \in TokenCallers : handedOut[c] > Margin \/ (Lifetime <= Margin /\ handedOut[c] = Lifetime)

\* One request at a time, and only tokens with time left.
TokensSound == OneTokenRequest /\ TokensAreFresh
=============================================================================
