# Formal verification of the travel platform's API

This directory holds TLA+ models of the state-changing core of `src/apps/api` (the
NestJS API of the travel platform) and of the search form and the booking page that call it, the TLC
configurations that check them on small instances, and proofs, checked by TLAPS, of the
properties that matter most. Paths
below are relative to `src/apps/api/src/modules/` unless they start with `src/`.

- [The system](#the-system)
- [What the database gives the code](#what-the-database-gives-the-code)
- [Modules](#modules)
- [Runs](#runs) and [what they refute](#what-the-code-does-not-keep)
- [Bounds](#bounds), [fairness](#fairness)
- [Proofs](#proofs)
- [Observations without a run](#observations-without-a-run)
- [Not modelled](#not-modelled), [plan](#plan)

## The system

One API process (or several behind a proxy) serves customers (B2C), travel agencies
(B2B), companies (CORPORATE) and staff. All shared state is in PostgreSQL, reached
through Prisma; Redis keeps counters and tokens; suppliers and the payment provider
are remote. Handlers are `async` functions without locks: **every `await` is a point
where any other request may run, and where the request may die for good**. There is
no queue, no scheduler and no recovery job; what a handler did not finish stays as it is.

| Component | State it keeps | Operations | Hard behaviour | What makes it correct |
|---|---|---|---|---|
| Booking status machine (`bookings/booking-state-machine.service.ts`, `booking-status.transitions.ts`) | `bookings.status`, `booking_status_history` | `transition` | read, check and write without a lock | the table is followed; status and history agree |
| Wallet (`wallet/wallet.service.ts`) | `wallets.balance`, `wallet_transactions` | `getOrCreateWallet`, `applyTransaction` through debits, credits and admin adjustments | concurrent calls on a wallet, retries with one key | balance = sum of the ledger, one row per key, credit floor |
| Flight bookings (`bookings/bookings.service.ts`) | booking, tickets, refunds | `createBooking`, `issueTicketsForBooking`, `cancelBooking`/`performCancellation` | long chains of awaits on database, supplier and provider; retries; cancellation during creation | one supplier booking and one charge per key; money back exactly once; no valid ticket on a cancelled booking |
| Payments (`payments/`) | `payments` | charge, refund, for flights, hotels and pilgrimages | answers lost, read–call–write refunds | never back more than was charged |
| Corporate approvals (`corporate-approvals/`) | `corporate_approvals` | `decide` | two approvers, owner cancels meanwhile | no ticket before approval; one decision |
| Hotel bookings (`hotels/hotels.service.ts`) | `hotel_bookings`, refunds | create, cancel | status written directly, without the machine | one refund per booking |
| Hajj/Umrah (`hajj-umrah/`) | packages with seats, bookings with payments | create/update package, book, add payment | last seats, concurrent payments | no overbooking; paid = sum of payments |
| Visa, manpower (`visas/`, `manpower/`) | applications and their history, a job's filled positions | submit, staff transitions, withdraw, update a job | status checked before the transaction that writes it | a decided application stays decided, its history is unbroken, positions count applications |
| Travel packages (`packages/`) | `travel_packages` | create | checks outside the transaction | a booking in at most one package |
| Flight and hotel search (`flights/`, `hotels/`, `suppliers/`, `src/packages/types/src/itinerary.ts`) | searches, runs, offers, supplier health; the adapter's token and offers in memory | search, record health, reprice, show the legs of an offer | parallel suppliers, timeouts, late answers, caches | one failing supplier costs only its own offers; a fare that is booked was verified; legs are those that are flown |
| Pricing, travel policy, exchange rates (`flights/pricing.service.ts`, `pricing-admin/`, `travel-policy/`, `fx/`) | rules, policies, cached rates | compute a markup, evaluate a fare, convert; change rules and policies | scopes read one after the other while they change, answers out of order | most specific rule wins; no fare above a hard cap passes; no stale rate |
| Authentication, throttles (`auth/`, `src/apps/api/src/redis/`) | refresh tokens, reset links, second factor, counters | log in, refresh, sign out, reset, switch the second factor, verify its codes | look-up then update; two clocks; two-command counters | a rotated token ends; a session does not outlive a reset; a lockout ends |
| Roles and permissions (`rbac/`) | roles of users, permissions of roles | assign, revoke, grant | administrators change each other's rights | somebody can always change them; nobody changes them without the right |
| Agency administration (`agencies-admin/`) | an agency's status and date of approval | update the status | two administrators | the first approval stays dated |
| Assistant (`ai-assistant/`) | nothing beyond a turn | chat, run the tools the model asks for | an outside model, tools that fail | a turn ends; every call has its result; nobody is told of another's booking |
| Search forms and booking pages (`src/apps/web`, `b2b`, `corporate`) | the legs of the trip; the form, its key, the price shown | edit, search; preview, review, submit, accept a new price | a hidden leg that follows the one shown; lost and late answers, a form changed between attempts | what is searched is what is shown; one booking per form, and the one that is shown |
| Catalogues, audit, notifications, metrics, analytics, remaining pages | rows of their own | CRUD, reads | none beyond last write wins | see [Not modelled](#not-modelled) |

How they interact: `createBooking` calls the travel policy, the supplier adapter, the
status machine, the wallet (B2B) or payments (others), and for CORPORATE leaves an
approval that `decide` later turns into ticketing or cancellation. `performCancellation`
calls the adapter, the status machine, and the wallet or payments. They share the
booking row and nothing coordinates them but its status.

The hotel service writes its booking's status itself and has payments and wallet calls of
its own; pilgrimage bookings pay through payments only. A package takes bookings by
looking at their status. Search and pricing feed `createBooking` through the stored offer,
whose price the adapter confirms through its cache. A page keeps one idempotency key per
form, and that key is all that ties its attempts together.

## What the database gives the code

All models rest on one reading of PostgreSQL as Prisma uses it (the code never sets an
isolation level, never uses `SELECT ... FOR UPDATE` and never adds the old value to an
`UPDATE`'s `where`): a transaction runs at READ COMMITTED, so

- a read sees what was committed before it and does not block anyone,
- an `UPDATE` locks its row to the end of the transaction and writes the value it was given,
- an `INSERT` under a unique index waits for an open transaction with the same key and
  fails when that one commits,
- the writes of a transaction appear together, at its commit, or never.

The definitions that stand for this (row lock, key lock, rollback, crash) are marked
external in `PROJECT.json`; everything else is translated from the source lines given there.

## Modules

| Module | Stands for |
|---|---|
| `BookingStatus` | `ALLOWED_BOOKING_TRANSITIONS` as a record of sets, `isTransitionAllowed`, and `Stage`, a rank of the statuses used by a property |
| `StatusMachine` | `transition` for one booking: `Read` (read + check), `Commit` (update + history row), `Rollback`, for any set `Callers` |
| `Ledger` | **abstract**: what the wallet promises, one atomic `Post` per entry |
| `WalletLedger` | `applyTransaction` statement by statement (`Begin`, `ReadWallet`, `UpdateWallet`, `InsertRow`, `Commit`, with `Refuse`, `KeyConflict`, `ReturnExisting`, `Rollback`); EXTENDS `Ledger`, whose variables are its committed state |
| `FlightBooking` | one flight booking from request to refund; composes `StatusMachine` (INSTANCE `SM`, the callers are the requests) with bookings, payments and approvals |
| `HotelBooking` | one hotel booking: `createBooking` and `cancelBooking` with the wallet, the payments and the refund behind them, one action per await |
| `TravelPackages` | `create` of a package over a flight and a hotel booking, whose own statuses move meanwhile |
| `SeatPool` | **abstract**: the seats of a departure, taken and given back in one step |
| `HajjUmrah` | one pilgrimage departure: `createBooking`, `addPayment`, `updatePackage` and the charge behind them, one action per await; instantiates `SeatPool` |
| `Workflows` | visa and job applications: `apply`, staff `updateStatus`, `withdraw`, `updateJob`, each as a read and a later write |
| `AgencyStatus` | `updateStatus` of an agency with its date of approval |
| `Sessions` | `login` with and without second factor, `refresh`, `logout`, `resetPassword` over refresh tokens, backup codes and reset links |
| `SecondFactor` | set-up, confirmation and removal of the second factor beside sign-ins that use it |
| `Totp` | base32 encoding of the secret and `verifyTotp` between two clocks |
| `LoginThrottle` | the counter both throttle guards keep in Redis: increment, set expiry, check |
| `RoleAdministration` | assigning and revoking roles, granting and revoking permissions, with the authorisation of the caller at the beginning of the request |
| `SearchForm` | the form of a flight search in the web application, which mirrors one pair of airports into the leg back, and the checks of form and server |
| `FlightSearch` | one search over its suppliers in parallel: calls, timeouts, run rows, health counters, de-duplication, persisting |
| `HotelSearch` | one hotel search over its adapters, one after the other |
| `Itinerary` | how the mock and the Amadeus adapter flatten legs into numbered segments, and how `groupSegmentsByLeg` cuts them again |
| `SupplierToken` | the token the Amadeus adapter shares between callers |
| `FareCheck` | the reprice of an offer through the adapter's cache, in a preview and inside `createBooking` |
| `LiveRates` | the exchange rates kept for an hour and the conversions that fetch them |
| `MarkupRules` | `computeMarkup`, scope by scope, and the administrator's `create`, `update` |
| `TravelPolicy` | `evaluate` and `resolvePolicy` while policies of the company and of departments change |
| `BookingPage` | the hotel booking page of the web application, with its previews, submissions and answers, against the server that keeps keys |
| `Assistant` | one turn of `chat` with the tools the model asks for |
| `Totals` | sums over a set: the number of units its values are made of, so that a sum needs neither a fold nor recursion and can be reasoned about |
| `StatusMachine_proofs`, `WalletLedger_proofs`, `FlightBooking_proofs` | the theorems about the module of that name, with their proofs |
| `Sales_proofs` | the same for `HotelBooking`, `TravelPackages` and `HajjUmrah`, and for the run that joins them |
| `Office_proofs` | for `Workflows`, `AgencyStatus`, `Sessions`, `SecondFactor`, `Totp`, `LoginThrottle`, `RoleAdministration`, and the run that joins them |
| `Pricing_proofs`, `Search_proofs` | for what `MC_Search` joins: tokens, rates, markup, reprice, policy and booking page; form, flight and hotel search, legs and assistant |
| `Totals_proofs` | lemmas about sums and least numbers that the others use |
| `MC_WalletLedger`, `MC_FlightBooking` | model values and bounds of one component |
| `MC_Sales`, `MC_Search`, `MC_Office` | several components that share no state, checked in one run |

The last three are *sums*: `service` is chosen in the initial state, the chosen component
takes its steps and the variables of all others keep one initial value, so that the state
space is the sum and not the product of the components'. Nothing is lost, since those
components touch no common row. Where a component needs a scenario (who asks for what) it is
a constant function from requests to what each does, also chosen initially.

**`FlightBooking`** has one action per await. `pc[r]` is what request `r` does next; when it
is the name of a booking status, the next thing is `transition` to that status, so the
three actions `TransitionRead`, `TransitionCommit` and `TransitionThrows` serve all
callers, and `After` says where each goes on. Rows (what the database knows) are kept apart
from `booked`, `released`, `charge` and `paidBack` (what suppliers and provider really did):
the hard questions are about the difference. A charge may be `LOST`: made, but reported as
failed. A supplier may have booked or released although it answered with an error.
Requests come in three kinds: `Creators` (all carrying the one idempotency key of the
booking), `Cancellers` and `Approvers`. Prices, names, notifications and audit rows are
abstracted away; the wallet appears as the set of keys it has rows for, since
`WalletLedger` shows that a key is posted once.

`Sales` are the kinds of sale: where the fare was searched (`channel`, which decides about approval and policy) and who
books it (`buyer`, who decides between the wallet and the provider) are two things in the code, and need not agree. A fare
found on the CORPORATE channel whose buyer is no employee has nobody to ask for approval; such a booking stays CONFIRMED
(`NoOneToApprove`). `DebitWallet` goes by the buyer alone. A refund that the provider reports as failed may have been
paid all the same, since a lost answer is reported in the same way (`ProviderRefuses`, and `HotelProviderRefuses` for hotels).

In `SupplierBook`, `ChargeProvider`, `DebitWallet` and `IssueTicket` the outcome of the
call is a free choice among the outcomes the code distinguishes.

**`HotelBooking`**, **`HajjUmrah`** and **`Workflows`** follow the same convention: `hotelPc`
and its like say which await a request is at, and what a handler read stays in a
variable of that request until the step that uses it. That is where two requests meet.

A hotel supplier is asked to release a room only if its adapter can (`cancelBooking` is optional) and the booking has a
reference; where it cannot be asked, the cancellation and the refund go on without it. `HotelReleasable` says which of the two a
booking is, and `HotelRefundsAfterRelease` speaks of those that can be released. Departures are changed by an update that sets
the capacity (`Resize`, checked against the seats booked) or by one that leaves it out (`Reprice`, which checks nothing).

**`Sessions`** follows the tokens. The challenge of a sign-in with a second factor is a signed token that is good for five minutes and
that nothing marks as used: it can be answered again while it is open, with another code, and each answer opens a session
of its own (`OneSessionPerSignIn` counts one for each). A reset of the password ends the sessions and leaves open challenges alone, so
`ResetEndsSessions` excepts what a reset found under way or open (`overtaken`), and what came of it.

**`MarkupRules`** lets an administrator change every field that the update's DTO has and the choice depends on: value, bounds, priority and
whether the rule is active. Values and priorities are any integers, since no DTO sets a minimum. Rules that changed while a quote was
being computed are kept in `rulesMoved`, rule by rule: the rule a quote used was, when read, the first (`Precedes`) of those in its scope, and
comes before every matching rule that nobody touched since the quote began.

**`BookingPage`** models both ends: what the traveller sees and the requests on their
way. An answer can be lost after the server acted, a preview can arrive when the form has
changed, and two submissions can be served in either order. The server's side is only
what `createBooking` promises about keys, which `HotelBooking` shows.

History variables (such as `seatsOverlap`, `hajjCrashed`, `replayed`, `delegated`) record that something
happened. No action's guard reads them; a property whose statement the code keeps only until
requests overlap, or a key is repeated, or `ROLES_MANAGE` is handed on, is stated with them as
its precondition. Each such precondition is needed: without it TLC finds a counterexample.

Mutants: operators whose comment starts with *Mutant* are not part of a model. Each is a
plausible mistake in one definition; `PROJECT.json` lists which property notices it.

## Runs

| Run | States | Shows |
|---|---|---|
| `wallet_concurrent` | 13,327 | overlapping calls with retries and rollbacks: one row per key (`KeyAppliedOnce`), a balance that no refusal or rollback parts from its rows, which add up and stay within the terms they were checked against (`RowsSound`), every call answered, so no cycle of locks (`EveryCallReturns`) |
| `wallet_serial` | 1,719 | no overlap on an agency: `WalletLedger` implements `Ledger` (`ImplementsLedger`), the balance is the sum of the rows and the credit floor holds (`SerialLedgerSound`) |
| `flight_safety` | 565,290 | a request and its retry, two cancellations, an approver and crashes, for every kind of sale: `OneBookingPerKey`, `NoMoneyBeforeConfirmation`, `RefundsFollowCancellations`, `SupplierReleasedFirst`, `NoTicketBeforeApproval`; the status moves by `StatusMachine` only (`MovesByStateMachine`, a refinement) |
| `flight_live` | 53,124 | fair and without crash: requests end (`EveryRequestEnds`), a booking leaves REFUND_PENDING for REFUNDED or FAILED and a refund leaves PROCESSING (`RefundsSettle`); that REFUNDED is the right one of the two is refuted below |
| `sales` | 186,903 | hotels, packages, pilgrimages: money and seats (see below), the seats implement `SeatPool` until requests overlap (`ImplementsSeatPool`), hotel refunds settle, charged money is counted |
| `search` | 643,369 | the search form, flight and hotel searches, legs, the shared token, rates, markup, reprice, policy, the booking page and the assistant |
| `office` | 586,412 | the status machine in series, visa and job applications, agencies, sessions, second factor and its codes, throttle, roles |

Several properties, most of them of the last three, are conjunctions of named parts, since the parts are about
one question and are checked on one component each:

| Property | Parts |
|---|---|
| `RowsSound` | `RowsAddUp`, `BalanceIsLastRow` |
| `SerialLedgerSound` | `BalanceIsLedgerSum`, `SpendWithinTerms` |
| `RefundsSettle` | `RefundArrives`, `RefundsAreClosed` |
| `HotelMoneySound` | `HotelSoldOnce`, `HotelMoneyAfterConfirmation`, `HotelRefundsAfterRelease`, `HotelRefundedOnce` |
| `PackagesSound` | `PackagedLegsWereSold`, `PackagesOwnTheirLegs` |
| `HajjMoneySound` | `EachKeyChargedOnce`, `HajjAccountsAgree`, `FullyPaidMeansChargedOnce`, `NeverChargedBeyondTotal` |
| `OffersSound` | form: `RoundTripsComeBack`, `WhatIsShownPasses`, `OnlyPartiesAreRefused`; flight search: `OffersAreTheCheapest`, `EverySupplierIsAccounted`, `HealthCountsFailures`; hotel search: `RunRowsMatchOffers`, `EveryAdapterIsAsked` |
| `LegsSound` | `ItineraryTypeOK`, `LegsAreTheFlownOnes`, `TotalsAgree` |
| `ChatsSound` | `EveryCallHasItsResult`, `TurnsAreBounded`, `OwnBookingsOnly` |
| `CachesSound` | token: `OneTokenRequest`, `TokensAreFresh`; rates: `CachedRatesAreFresh` |
| `PurchasesSound` | reprice: `FirstRepriceIsTheRealOne`, `NothingUnacceptedIsBooked`; page: `OneBookingPerForm`, `ShownBookingIsAsAsked`, `ReviewedPriceIsForTheseRooms`; policy: `FollowsAPolicyInForce`, `CapsAreOrdered`, `HardCapNeverPasses` |
| `MarkupSound` | `RulesAreSound`, `MarkupFollowsRules`, `MarkupBelowMaximum` |
| `QuestionsEnd` | `SearchesEnd`, `ChatTurnsEnd` |
| `HistoriesSound` | status machine: `StatusIsLastRecorded`; applications: `AppStatusIsLastRow`, `AppRowsAllowed`, `AppHistoryUnbroken`, `NoWithdrawalOnceSelected`, `FilledCountsApplications` |
| `AccountsSound` | sessions: `OneSessionPerSignIn`, `SignOutEndsChain`, `OthersStaySignedIn`, `ResetEndsSessions`, `CodesWorkOnce`, `LinksWorkOnce`; `SecondFactorSound`; codes: `CodesLiveOneStep`; throttle: `WindowAdmitsAtMost` |

The office run checks besides `StatusFollowsTable` of the status machine, `FirstApprovalKept` of
agencies, `SecretsSurviveEncoding` of the second factor, `LockoutEnds` of the throttle,
`SomeoneManagesRoles` and `ChangesAreAuthorised` of roles. What each part says, and of which code, stands before it in its module.

`CHECK_DEADLOCK FALSE` stands where the system really stops: a terminal status allows no
transition, a booking whose requests have all ended does nothing more, a search is over.
The wallet runs check deadlock.

### What the code does not keep

Each of these runs checks one statement that a comment of the code makes, and TLC finds
it violated. The quotes are in `PROJECT.json`.

| Run | Statement | How it fails |
|---|---|---|
| `wallet_drift` | the balance is always the sum of the ledger | two calls read one balance; the second `UPDATE` overwrites the first |
| `flight_double_refund` | never refunded more than charged, since a booking is cancelled once | both cancellations load CONFIRMED, both transitions pass their check, both find the payment PAID |
| `flight_rejected_refund` | REFUND_PENDING resolves to REFUNDED or, if the supplier rejects it, FAILED; never a claim that money moved when it did not | the settlement is REJECTED, and the transition after the `catch` block is to REFUNDED all the same |
| `hajj_replayed` | amount paid advances as payments succeed, and a key is charged once | a repeated payment returns the old row without charging and is added to the amount again |
| `fares_unverified` | no booking at a price that was not just verified | the preview has already replaced the cached offer, so the reprice inside `createBooking` sees no change and the total of the search is booked |

`RefundsSettle` is therefore only about leaving REFUND_PENDING: it does not say that a booking that is REFUNDED had its
money sent back. The hotel service moves its booking to REFUNDED in the same way after a rejected refund
(`hotels/hotels.service.ts:281`), and `HotelRefundSettles` says no more either.

Statements of the code that fail for reasons these runs already show are kept as definitions beside
the model, checked by no run: `NoCreditWithoutDebit` (a debit failed, the booking stayed CONFIRMED,
its cancellation credits the wallet), `CompletedMeansRefunded`, `StatusFollowsTable` with overlap and
`DecisionIsFinal` in `FlightBooking`; `FilledCountsOpenApplications` in `Workflows` (nothing takes a
rejected or withdrawn application out of the count). `HardCapRejects` in `TravelPolicy` is another, without a run of
its own: `src/apps/api/prisma/schema.prisma:926` says a fare above the hard cap is rejected outright, and `evaluate` judges the cabin
first and ends there, asking for approval only. What does hold of the hard cap is `HardCapNeverPasses`.

### Observations without a run

Met while modelling; the models follow the code, and no property depends on the comment.

- `suppliers/adapters/real/amadeus-flight-supplier.adapter.ts:192-193`: `createBooking` uses `index`, which is not defined there.
- The same adapter, line 333: Amadeus' local times have no offset and are stored as UTC, so the duration of a leg
  as `groupSegmentsByLeg` computes it is off by the difference of its ends' zones; `src/packages/types/src/flights.ts:64-65`
  says times include an offset. Durations of a day or more (`P1DT2H`) parse to zero.
- `src/packages/types/src/itinerary.ts:67` promises complete legs; the last leg returned may be incomplete.
- `flights/flight-search-orchestrator.service.ts:80`: when a row cannot be written a search stays PENDING for good.
- `fx/fx-rates.service.ts:5` says the provider is polled at most this often; concurrent and failed fetches poll more.
- `ai-assistant/ai-assistant.service.ts:246` says a tool failure becomes a result; a rejected search is returned
  without `await`, passes the `catch` and ends the turn (`ToolThrows`).
- `payments/payments.service.ts:78`: flights, hotels and pilgrimages share one unique column of keys.
- `auth/auth.service.ts:253`: a confirmation that overlaps another set-up can leave an account enabled with a secret nobody has proved, or none.
- `src/apps/b2b/src/components/flight-search-form.tsx:50-51` says the pair shown is mirrored into the return leg. It is not
  when the form opens with a destination (the banners of the home page) or goes from one way to round trip: the leg back
  is blank, nothing shows it, and the search is refused until both airports are picked anew. After a trip of several cities
  a round trip is searched with the second leg of that trip. The web and b2b forms agree in this; the corporate one shows
  every leg by itself, has nothing to keep in step and so does not share the hazard.
- `src/apps/web/src/components/airport-input.tsx`: a look-up that was under way is not cancelled, so an old answer can replace the
  options of a newer one; clearing the text within its 250 ms leaves the sign of loading on.
- The hotel page says a price was verified with the supplier also when the preview failed.
- `src/apps/web/src/app/hajj-umrah/bookings/[id]/page.tsx:77` and the wallet page of the administrators draw a fresh key
  per click, so a click after a lost answer pays, or adjusts, again.

## Bounds

- `MaxHistory` (8): the longest path of the table has 7 rows.
- `wallet_*`: two concurrent calls, two agencies (one with credit 2, one without), four
  keys, amounts 1 and 2, five requests of which two share a key across agencies. Requests
  can be repeated, so every retry occurs. Each agency needs at most three rows for the
  arguments (lost update, floor, key reuse).
- `flight_*`: one booking (bookings share only the wallet, which is modelled by itself).
  `flight_safety` has two requests of each kind that races with itself, so that every
  property sees a retry, two cancellations and an approval beside each other; the requests
  of one kind are interchangeable (SYMMETRY; no liveness is checked there). `flight_live` has
  two creators, one canceller and one approver, and two passengers (needed for partial
  ticketing). Five kinds of sale: the three in which channel and buyer
  agree, a CORPORATE fare whose buyer is no employee, and a B2C fare booked by an agent (`MCSales`). Two adapters: one with all optional methods (as `MockFlightSupplierAdapter`) and
  one with `cancelBooking` only (as `AmadeusFlightSupplierAdapter`).
- `sales`: hotels with two creators and two cancellers, a customer or an agent who buys, and a supplier that can or cannot be asked
  for a release (`HotelReleasable`). Packages: two
  requests over one flight and two hotel bookings, so that both a shared leg and a free one exist.
  Pilgrimages: three requests at once on one departure of two seats, price 4 and deposit 1, in
  five scenarios (last seats while the capacity changes, or while an update leaves it alone; a retried booking; a retried instalment;
  two instalments that together exceed the balance; a first payment above the total).
- `search`: two searches and two suppliers, with a product offered at two prices, one at the same
  price, and a search without suppliers; `PastFailures` {0, 2}, so that the third failure,
  which takes a supplier offline, is reached. Two hotel adapters with at most two offers each
  (`MaxOffers`, `CityHotels`), so that storing fails before, between and after. Token: three callers,
  `Lifetime` 4, `Margin` 1, up to `LastTick` 6, so that a token expires once. Rates: `RatesTtl` 3 up to
  `RatesLastTick` 6, two conversions. Markup: two rules drawn from eight that cover three scopes, with
  bounds in and out of order, percentages below 0 and above 100, a discount, and two rules of one scope; `PatchLimit` 2 changes
  by five kinds of update (value, one bound, both bounds, priority below all others, active). Fares: two offers, two requests, the
  supplier's ids different or the same. Policy: three administrators, four policies, three trips. Page:
  two forms, each with two submissions and two previews, and at most two rooms. Legs: five trips of one
  to three legs (one way, return, onward, open jaw, round), direct or over two hubs.
  Search form: two airports, `MaxLegs` 3 of the code's six (removing a leg needs three), `MaxTravellers` 2 of nine.
  Assistant: `MaxToolIterations` 2 (the code's default is 4; the bound is met after any number of
  rounds in the same way) and at most `MaxCalls` 2 tools per answer.
- `office`: visa and job applications with two reviewers, `ReviewLimit` 6 reviews and `MaxRows` 6
  history rows; the approval of an agency dated up to `LastApproval` 3; sessions in six scenarios of
  four requests (two devices, refreshes racing a sign-out, a challenge answered once, around a reset or with two codes, two resets with one link); `LastSecret` 3 secrets (old, new, newer); codes with `TimeStep` 3 for 30 seconds, clocks
  up to `Drift` 4 apart and `LastSecond` 8, so that codes of five steps are seen, and secrets of one to five
  bytes, every remainder a chunk of base32 can have; `MaxAttempts` 3 with three attempts at a time and
  `CountLimit` 6; two users, one role beside SUPER_ADMIN and two requests for roles.

The theorems have no such bounds.

## Fairness

- `WalletLedger!FairSpec`: strong fairness of each call's next statement. PostgreSQL runs
  what can run and grants a row lock in the order of asking. Rollback is not fair and is
  always possible. Weak fairness would not do: the waiting `UPDATE` is disabled every time
  another call holds the lock.
- `FlightBooking!FairSpec`, and the hotel and pilgrimage requests of `sales`: weak fairness of each
  request's next step: the event loop resumes a request whose database statement or remote call was
  answered, and it is assumed that remote calls are answered, with a result or an error. `flight_live`
  has no crash, and in `sales` the liveness properties speak of behaviours without one: after a crash
  nothing resumes the request, and nothing is promised.
- Flight searches: weak fairness of the search's own steps and of the timer of each call, **not** of the
  suppliers' answers. That a search ends with suppliers that never answer is the point of the timeout.
- The assistant: the model and the tools answer, with a result or an error (the client library has a timeout).
- `LockoutEnds`: Redis expires keys (`WindowEnds`), and a request that lives sends its second command (`SetExpiry`).
- `RefundArrives` (REFUND_PENDING is left for REFUNDED or FAILED) is checked with one canceller. With two, a canceller that loaded the booking before it
  was ticketed moves it from REFUND_PENDING to CANCELLED.

## Proofs

Proved with TLAPS for every value of the constants: any number of callers, calls and requests, any
agencies, keys, amounts, credit terms, scenarios, users and roles, under the assumptions the modules name
(`LedgerAssumption`: amounts and limits are naturals; `RequestsAssumption`: requests are entries;
`DebitsEnforceLimit`: whoever debits a wallet asks for the limit to be enforced, as every caller in the code
does, an administrator's adjustment included; `FlightAssumption`: finitely many requests, each of one kind, and
kinds of sale and adapters as the code knows them; `ItineraryAssumption`: a searched leg ends elsewhere than it began;
and their like in the other modules). Every safety property that a passing run checks is the
statement of a theorem, or part of one.

Two conventions keep the proofs within what SMT solvers do. A sum is `Total`, the number of units its values are made of
(`Totals`), so that facts about sums are facts about finite sets: one more value adds itself, one changed value changes the sum by
the difference, values that are all at most others total at most theirs. And what needs induction over numbers goes through the
least element of the set of exceptions (`LeastNatural`, `InductionUpTo`), which the well-foundedness of `<` gives.

`StatusMachine_proofs`
- `TypeCorrect`, `StatusRecorded`, `EdgesAllowed`: of `Spec`, with overlap. `EdgesAllowed`
  is not inductive by itself: a commit writes what was read earlier, so the invariant is
  strengthened with `PendingAllowed` (every open transition is an edge of the table).
- `SerialHistoryUnbroken`, `SerialStatusFollowsTable`, `SerialStageNeverDecreases`: of
  `SerialSpec`. They rest on `PendingCurrent` (an open transition started from the status
  the booking still has), which is exactly what an overlap breaks: it is inductive only
  together with `NoOverlap`.

`WalletLedger_proofs`
- `WalletTypeCorrect`, strengthened with `BusyHasInput`.
- `KeyAppliedOnceAlways`, strengthened with `KeyHeldAlone`: a call that has inserted its
  row is the only one with its key, committed or not.
- `RowsSoundAlways`, from `BalanceIsLastRowAlways` (only a commit writes, and it writes both) and `RowsAddUpAlways`,
  which is strengthened with `PendingSound`: what a call carries from its read adds up and is within its terms.
- `SerialLedgerUnbroken` and the refinement `SerialImplementsLedger`, which rest on
  `ReadIsCurrent`: the balance a call read is the balance its wallet still has. Without
  `NoOverlap` this is the fact that fails in `wallet_drift`.
- `SerialLedgerAlwaysSound`: of `SerialSpec`, for any entries: the balance is the credits less the debits of all its rows, and
  never below what its terms allow. `LedgerInv` says both of every wallet; a commit preserves it because what it
  writes was computed from the balance that is still there (`ReadIsCurrent`) and was within the terms (`PendingSound`).

`FlightBooking_proofs`, of `Spec`, with crashes
- `FlightTypeCorrect`, strengthened with `PendingIsAsked`: a request with an open transition
  is one whose next thing is that transition. Without it a commit could send a request
  anywhere.
- `FlightMovesByStateMachine`: every step is a step of `StatusMachine` or leaves its variables
  alone, so `StatusRecorded` and `EdgesAllowed` hold of every booking.
- `OneBookingPerKeyAlways` rests on `OneWorker`: `Working` (who creates the booking, or left a
  trace at the supplier or the provider doing so) has at most one member, and none while there
  is no booking row. `OneBookingPerKey` alone is not inductive: it does not say that the
  retry is kept away from the supplier *before* the first attempt has called it.
- `MoneyAfterConfirmation` (`MoneyInv`) and `TicketsWaitForApproval` (`ApprovalInv`) build on
  `OneWorker`: since one request creates the booking, its place in `createBooking` tells what
  has not happened yet.
- `SupplierReleasedFirstAlways` (`ReleaseInv`): a request that asks for CANCELLED or
  REFUND_PENDING has been to the supplier.
- `RefundsFollowCancellationsAlways` (`RefundInv`) counts requests that committed a
  cancellation and have yet to make their refund row together with the rows made; a commit
  adds one to both sides, a crash only takes away from the left.

`Sales_proofs`, with crashes
- Hotels: `HotelMoneyAlwaysSound` from `HotelInv`, five parts of which none is inductive alone: types; `OneCreator` (at most
  one request has got past the insert, and none while there is no row); `TakenInv` (where that request is, and so what has
  not been taken yet); `GivenBackInv` (a request that settles a refund has been to the supplier, if there is anybody to ask); `OneCanceller`
  (until cancellations overlap, one of them at a time is past its read).
- Packages: `PackagesAlwaysSound` from `PackageInv`. The checks of a request are about statuses that move on meanwhile, so the
  invariant keeps what was seen (`SeenWereSold`: a booking once sold stays one that was sold) and, until two requests
  overlap, that the legs seen are still nobody's (`OneUnderWay`).
- Seats: `NeverOverbookedAlways` and the refinement `SeatsImplementPool` from `SeatsInv`: until requests on the seats
  overlap, a request past its capacity check, or a change of the capacity past its own, still finds the
  count it checked. `SeatsAreAlwaysBookings` needs no such condition: the count is changed by increments in the transaction that
  makes the booking, so it is the total of the pilgrims in the bookings, whatever overlaps.
- Payments: `EachKeyChargedOnceAlways` from `ChargesInv`: a request that may still charge a key holds it, and holds it alone. It needs
  no condition either: the unique column of payments decides.
- Accounts: `HajjMoneyAlwaysSound` from `AccountsInv`. An account agrees with its paid payments because of two inequalities with two
  different reasons. `NothingInvented`: until a key is repeated, what an account has counted, and what requests are about to add to it,
  has been paid, since a payment has one owner (`OneOwner`). `NothingLost`: until payments overlap or a request dies, whoever is
  between the read and the write of an account is the only one (`OnePayer`), so what has been paid is counted or about to be.
  `WithinRemaining` carries the check of the remaining balance to the charge.

`Office_proofs`, each module by itself and then `OfficeTypeCorrect`, `HistoriesAlwaysSound`, `AccountsAlwaysSound` of the run
- Applications (`WorkInv`): status and last row of the history agree whatever overlaps, since one transaction writes both;
  that a selected application is not withdrawn needs `ReviewsAreChecked` (an open review was allowed from the status read) and
  `SelectionLasts`. The filled positions are a cardinality, which a step changes by one or not at all.
- Agencies (`AgencyInv`): until administrators overlap, the one between read and write still finds the date it read (`OneReads`).
- Sessions (`SessionInv`), with crashes: a refresh token that can still be used belongs to one request or to nobody (`OneHolder`), which is
  what rotation must preserve; what a sign-out ended stays ended (`SignedOutStay`); what a request has proved still holds unless a reset overtook
  it or the challenge it answers (`ProvenNow`); a backup code and a reset link past their check have not been spent by another (`CodesSpent`,
  `LinksSpent`), until two requests overlap on them.
- Second factor (`FactorInv`): what a request is about to write was read from the secret that is still there (`StepsAreCurrent`).
- Codes (`TotpInv`): the verdict is a statement about steps (`VerdictInSteps`), the property one about seconds; `StepsApart` translates, for
  any step, drift and clock. `SecretsAlwaysSurvive`: for bytes of any number, base32 and back is the identity. Bit `j` of the text
  is bit `j` of the bytes for every `j` up to their end, each byte is the sum of its bits, and the bits that the last digit was
  padded with never make up a byte.
- Throttle (`ThrottleInv`): whoever was let through was counted before (`AdmittedAreCounted`), with crashes.
- Roles: `SomeoneAlwaysManages`, `ChangesAlwaysAuthorised` and, whatever overlaps, `SuperAdminAlwaysManages`, from `RoleInv`:
  at most one change is pending until requests overlap (`OnePending`), and whoever makes it may still do so
  (`PendingMayManage`); until the right is delegated it is SUPER_ADMIN's alone (`NotDelegated`), which is why a user who
  revokes another's role must keep his own.

`Pricing_proofs`, then `CachesAlwaysSound`, `PurchasesAlwaysSound` of the run
- Token (`TokenInv`): one request is under way at most, made before now, and a cached token is good for the margin beyond the time the adapter
  trusts it, or no longer than the margin in all.
- Rates (`RatesInv`, `RatesDated`): a table is dated by the beginning of the fetch that brought it, which is before the quotation, so the
  hour is never longer than an hour, however the answers are ordered.
- Markup (`MarkupInv`): every rule that fits and that lies in a scope already passed was made or changed since the quote began (`NothingOverlooked`);
  so the rule found next precedes every other one that fits. Values and priorities are any integers.
- Reprice (`FareInv`, `OwnPricesAreQuoted`): an entry that the search made is of the offer it is found under and at its price; a price that
  goes into a booking was quoted, and is either the one shown or the one accepted.
- Policy (`PolicyInv`, `ReadsAgree`): between the two reads of an evaluation no override was made, or the property knows of it; so the
  policy it follows was in force at some moment of the evaluation.
- Booking page (`PageInv`): the server has a row for each key that was answered (`RowsAreKeyed`, `AnswersAreKnown`), and until previews overlap the
  price on the screen is for the rooms in the form (`PreviewsAgree`).

`Search_proofs`, then `OffersAlwaysSound`, `LegsInRunSound`, `AssistantAlwaysSound`, `SearchTypeCorrect` of the run
- Form (`FormInv`): while the trip type is not touched the hidden leg is the way back, and as long as no trip of several cities came between
  each of its ends is blank or the one shown (`LegBackFollows`).
- Flight search (`FlightInv`): every call that ended has its run row, an open one none (`CallsAreRecorded`); what is offered comes from calls that
  succeeded in time (`OffersFollowCalls`), and the cheapest of a product exists because prices are naturals; a health counter that only one
  search is writing is the one it read (`HealthIsRead`).
- Hotel search (`HotelSearchInv`, `OffersAddUp`): what was stored and what is left to store is what an adapter offered, row by row.
- Assistant (`ChatInv`): the results so far are those of the first calls of the last answer, in order, and the number of answers with calls is
  the number of rounds begun.
- Legs: `LegsAlwaysSound`, for trips of any number of legs. `Off(len, i)` segments belong to the first `i` legs; the numbers of either adapter
  rise with the legs and the segments in each, so the k-th row by number is the segment at place k (`SortedIs`, `PlacesOrdered`); a leg
  ends at its own last segment since no flight before it arrives where the leg does (`LegEndIs`), so the cursor before leg `i` is
  `Off(len, i - 1) + 1` (`CursorsAre`, by induction on the legs), and grouping returns the legs that were flattened (`GroupingIs`).
  Stops, minutes and layovers follow: the zone of a hub is added to both ends of a layover.

The runs that join services need one more fact each: a step of the run is a step of every service or leaves it alone, and what the run
starts from is an initial state of every service (`OfficeStep`, `SearchingStep` and their like). So what is proved of a service
holds in the run, and `SearchesAlwaysSound` and the others are about the same formulas TLC checks.

Model-checked only: liveness, which needs ENABLED: `EveryCallReturns`, `EveryRequestEnds`, `RefundsSettle`, `HotelRefundSettles`,
`ChargedMoneyIsCounted`, `QuestionsEnd`, `LockoutEnds`. And the statements of the code that do not hold, which only a counterexample can settle.

## Not modelled

- Who may call an operation (`assertCanView`, guards, scopes): sequential checks on one row, without state of
  their own. The exception is role administration, where the rights themselves change.
- Registration: one transaction behind a unique e-mail address. Cost centres; the `create` operations of pilgrimage
  packages and jobs, which are the initial states of their modules; the rule by which a deposit is chosen, constant.
- Catalogue and administration services: create, read, update and delete of single rows, last write wins, nothing
  waits or depends on the order.
- Audit, notifications, metrics, spreadsheet export, analytics: written on the side and read by no decision.
- The remaining pages of the five front ends. The other booking pages make the same
  calls in the same order; the b2b search form is the web's again, and the corporate form shows each leg by itself, which
  leaves no hidden leg to keep in step. The rest shows what the API answers. The clients do not refresh tokens by themselves.
- What adapters translate, beyond the legs of an offer: field by field, without state. Of an Amadeus leg the model
  has one or two segments, while `normalizeOffer` takes any number: all that `groupSegmentsByLeg` depends on, a first segment, a
  last one and a connection between, occurs with two.
- Checks by the DTOs on text that no state depends on, such as the length of a nationality in a flight search.
- Deployment, seeds and scripts.
- Inside the models: the credit terms of an agency are constant, amounts are integers in minor units (`round2` has
  been applied), names, wording and prices that no property tells apart are left out.

Measured in lines, this is the larger part of the repository: about two thirds of it are pages, forms, DTOs, controllers
and mock data, and the services of the API, whose state changes are what the models are about, are a fifth.

## Plan

Done: the booking core (`BookingStatus`, `StatusMachine`, `Ledger`, `WalletLedger`, `FlightBooking`), the other products
(`HotelBooking`, `TravelPackages`, `HajjUmrah` over `SeatPool`), the back office (`Workflows`, `AgencyStatus`,
`Sessions`, `SecondFactor`, `Totp`, `LoginThrottle`, `RoleAdministration`), search and pricing (`FlightSearch`, `HotelSearch`,
`Itinerary`, `SupplierToken`, `FareCheck`, `LiveRates`, `MarkupRules`, `TravelPolicy`), `SearchForm`, `BookingPage` and `Assistant`;
and a proof of every safety property the passing runs check.

Left, in this order:

1. Composition: two `FlightBooking`s of one agency on one `Ledger`.
2. Registration, if accounts get a protocol of their own.
