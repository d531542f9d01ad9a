---------------------------- MODULE BookingPage ----------------------------
(***************************************************************************)
(* The traveller's side of a hotel booking: the web application's page     *)
(* BookHotelOfferPage and, as far as its answers go, HotelsService         *)
(* (repriceOffer, createBooking).  A form is one mounting of the page and  *)
(* draws one idempotency key; its calls overlap with what the traveller    *)
(* does meanwhile, their answers may be late or never come, and reloading  *)
(* starts over with a blank form while old requests are still on the way.  *)
(* The pages for flights differ in what is filled in, not in this.         *)
(***************************************************************************)
EXTENDS Naturals, FiniteSets

CONSTANTS
  MaxRooms,       \* the most rooms the form offers (the code: 9)
  SearchPrice,    \* offer.totalFare, the price of a room as searched
  RoomPrices,     \* the prices the supplier may ask when it is asked again
  Submissions,    \* the submissions, numbered; each is made at most once
  Previews,       \* preview calls that may be under way at a time
  LastForm        \* bound on the forms opened

ASSUME PageAssumption ==
  /\ MaxRooms \in Nat \ {0} /\ LastForm \in Nat \ {0}
  /\ SearchPrice \in Nat \ {0} /\ RoomPrices \subseteq Nat \ {0}
  /\ Submissions \subseteq Nat \ {0} /\ IsFiniteSet(Submissions)

VARIABLES
  form,         \* the number of the form on the screen
  step,         \* "guest", "review", or "left" when a booking is shown
  rooms,
  preview,      \* [loading, of]: previewLoading; the rooms previewTotal is for, 0 for null
  previewCall,  \* previewCall[p]: the rooms preview call p asked for, or 0
  dialog,       \* priceConfirm.newTotal, or 0
  waitingFor,   \* the submission the page waits for (submitting), or 0
  submission,   \* submission[n]: the request, with its answer when it has one, or NoRequest
  hotelRows,    \* the hotel bookings that were made
  shown,        \* the submission whose booking the page has moved to, or 0
  \* History of the form.
  answerLost,       \* one of its submissions may have been served without an answer
  previewsOverlap   \* two of its previews were under way at a time

screen == <<form, step, rooms, preview, previewCall, dialog, previewsOverlap>>
sent == <<waitingFor, submission, shown, answerLost>>
pageVars == <<screen, sent, hotelRows>>

RoomCounts == 1..MaxRooms
Totals == {n * p : n \in RoomCounts, p \in RoomPrices \cup {SearchPrice}}

NoRequest == [form |-> 0]
HotelRow == [key : 1..LastForm + Cardinality(Submissions), rooms : RoomCounts, total : Totals]
Answers == [kind : {"pending", "refused"}]
             \cup [kind : {"confirm"}, total : Totals]
             \cup [kind : {"booking"}, row : HotelRow]
Requests ==
  [form : 1..LastForm, key : 1..LastForm + Cardinality(Submissions), rooms : RoomCounts,
   accepted : Totals \cup {0}, answer : Answers]

PageTypeOK ==
  /\ form \in 1..LastForm
  /\ step \in {"guest", "review", "left"}
  /\ rooms \in RoomCounts
  /\ preview \in [loading : BOOLEAN, of : 0..MaxRooms]
  /\ previewCall \in [Previews -> 0..MaxRooms]
  /\ dialog \in Totals \cup {0}
  /\ waitingFor \in Submissions \cup {0} /\ shown \in Submissions \cup {0}
  /\ \A n \in Submissions : submission[n] \in Requests \cup {NoRequest}
  /\ hotelRows \subseteq HotelRow
  /\ answerLost \in BOOLEAN /\ previewsOverlap \in BOOLEAN

PageInit ==
  /\ form = 1 /\ step = "guest" /\ rooms = 1
  /\ preview = [loading |-> FALSE, of |-> 0]
  /\ previewCall = [p \in Previews |-> 0]
  /\ dialog = 0 /\ waitingFor = 0 /\ shown = 0
  /\ submission = [n \in Submissions |-> NoRequest]
  /\ hotelRows = {}
  /\ answerLost = FALSE /\ previewsOverlap = FALSE
-----------------------------------------------------------------------------
(* The first step, and the way to the second.                              *)

ChangeRooms ==
  /\ step = "guest"
  /\ rooms' \in RoomCounts \cap {rooms - 1, rooms + 1}
  /\ UNCHANGED <<form, step, preview, previewCall, dialog, previewsOverlap, sent, hotelRows>>

\* The old previewTotal stays on the screen until the new one arrives.
GoToReview(p) ==
  /\ step = "guest"
  /\ previewCall[p] = 0
  /\ step' = "review"
  /\ preview' = [preview EXCEPT !.loading = TRUE]
  /\ previewCall' = [previewCall EXCEPT ![p] = rooms]
  /\ previewsOverlap' = (previewsOverlap \/ \E q \in Previews : previewCall[q] # 0)
  /\ UNCHANGED <<form, rooms, dialog, sent, hotelRows>>

\* Mutant: a failed preview leaves the total of the one before.
FailedPreviewKeepsTotal == preview.of
\* A failed preview falls back to the price of the search.
AfterFailedPreview == 0

\* The answer of any preview is shown, and ends the waiting, also when a later
\* one is still under way.  A fare that is gone has no total either.
PreviewArrives(p) ==
  /\ previewCall[p] # 0
  /\ \E of \in {previewCall[p], 0, AfterFailedPreview} : preview' = [loading |-> FALSE, of |-> of]
  /\ previewCall' = [previewCall EXCEPT ![p] = 0]
  /\ UNCHANGED <<form, step, rooms, dialog, previewsOverlap, sent, hotelRows>>
-----------------------------------------------------------------------------
(* The review.                                                             *)

\* Not disabled while a submission is under way.
Back ==
  /\ step = "review" /\ dialog = 0
  /\ step' = "guest"
  /\ UNCHANGED <<form, rooms, preview, previewCall, dialog, previewsOverlap, sent, hotelRows>>

DismissDialog ==
  /\ step = "review" /\ dialog # 0
  /\ dialog' = 0
  /\ UNCHANGED <<form, step, rooms, preview, previewCall, previewsOverlap, sent, hotelRows>>

\* Mutant: a key is drawn for every submission.
KeyOfSubmission(n) == LastForm + n
\* useMemo(() => newIdempotencyKey(), []): one key as long as the form lives.
KeyOf(n) == form

\* submitBooking; the card is turned into a token first, and when that fails
\* nothing is sent.  The rooms are those on the screen when it was clicked.
Submit(n, accepted) ==
  /\ submission[n] = NoRequest
  /\ \A m \in Submissions : m < n => submission[m] # NoRequest
  /\ submission' = [submission EXCEPT ![n] =
       [form |-> form, key |-> KeyOf(n), rooms |-> rooms, accepted |-> accepted,
        answer |-> [kind |-> "pending"]]]
  /\ waitingFor' = n
  /\ UNCHANGED <<shown, answerLost, screen, hotelRows>>

CanConfirm == step = "review" /\ dialog = 0 /\ waitingFor = 0 /\ ~preview.loading
Confirm(n) == CanConfirm /\ Submit(n, 0)

\* "Accept ... and book" does not wait for a preview.
Accept(n) == step = "review" /\ dialog # 0 /\ waitingFor = 0 /\ Submit(n, dialog)

\* The booking detail, the price dialog, or the server's refusal.
AnswerArrives(n) ==
  /\ waitingFor = n
  /\ submission[n].answer.kind # "pending"
  /\ waitingFor' = 0
  /\ LET answer == submission[n].answer IN
     /\ dialog' = IF answer.kind = "confirm" THEN answer.total ELSE dialog
     /\ step' = IF answer.kind = "booking" THEN "left" ELSE step
     /\ shown' = IF answer.kind = "booking" THEN n ELSE 0
  /\ UNCHANGED <<form, rooms, preview, previewCall, previewsOverlap, submission, answerLost,
                 hotelRows>>

\* The connection breaks, or the server answers with an error although it has
\* made the booking: the page is told it failed and can be submitted again.
AnswerIsLost(n) ==
  /\ waitingFor = n
  /\ waitingFor' = 0
  /\ answerLost' = TRUE
  /\ UNCHANGED <<submission, shown, screen, hotelRows>>

\* The traveller starts over; nothing that is under way is called off.
Reload ==
  /\ step # "left" /\ form < LastForm
  /\ form' = form + 1 /\ step' = "guest" /\ rooms' = 1
  /\ preview' = [loading |-> FALSE, of |-> 0]
  /\ previewCall' = [p \in Previews |-> 0]
  /\ dialog' = 0 /\ waitingFor' = 0 /\ shown' = 0
  /\ answerLost' = FALSE /\ previewsOverlap' = FALSE
  /\ UNCHANGED <<submission, hotelRows>>
-----------------------------------------------------------------------------
(* The server.                                                             *)

AnswerWith(n, answer) == submission' = [submission EXCEPT ![n].answer = answer]

\* createBooking of submission n when the supplier asks price for a room: the
\* booking of the key if there is one, whatever n asks for; else the new price
\* if it was not accepted; else a booking.
ServeAt(n, price) ==
  LET q == submission[n]
      total == q.rooms * price
      existing == {b \in hotelRows : b.key = q.key}
      row == [key |-> q.key, rooms |-> q.rooms, total |-> total]
  IN \/ /\ existing # {}
        /\ \E b \in existing : AnswerWith(n, [kind |-> "booking", row |-> b])
        /\ UNCHANGED hotelRows
     \/ /\ existing = {} /\ price # SearchPrice /\ q.accepted # total
        /\ AnswerWith(n, [kind |-> "confirm", total |-> total])
        /\ UNCHANGED hotelRows
     \/ /\ existing = {} /\ (price = SearchPrice \/ q.accepted = total)
        /\ AnswerWith(n, [kind |-> "booking", row |-> row])
        /\ hotelRows' = hotelRows \cup {row}

\* The offer is gone or expired, or the agency may not book.
ServeRefuses(n) ==
  /\ \A b \in hotelRows : b.key # submission[n].key
  /\ AnswerWith(n, [kind |-> "refused"])
  /\ UNCHANGED hotelRows

Serve(n) ==
  /\ submission[n] # NoRequest
  /\ submission[n].answer.kind = "pending"
  /\ ServeRefuses(n) \/ \E price \in RoomPrices \cup {SearchPrice} : ServeAt(n, price)
  /\ UNCHANGED <<waitingFor, shown, answerLost, screen>>

PageNext ==
  \/ ChangeRooms \/ Back \/ DismissDialog \/ Reload
  \/ \E p \in Previews : GoToReview(p) \/ PreviewArrives(p)
  \/ \E n \in Submissions :
       Confirm(n) \/ Accept(n) \/ Serve(n) \/ AnswerArrives(n) \/ AnswerIsLost(n)

PageSpec == PageInit /\ [][PageNext]_pageVars
-----------------------------------------------------------------------------
(* Properties.                                                             *)

\* "treats that as the same request rather than a second booking - a fresh key
\* is only drawn when the traveler starts over": however often a form is
\* submitted, after lost answers, price dialogs and changes to it, and however
\* late its requests are served, it makes at most one booking.
OneBookingPerForm ==
  \A b, c \in hotelRows :
    (\E n, m \in Submissions :
       /\ submission[n].form # 0 /\ submission[m].form = submission[n].form
       /\ submission[n].key = b.key /\ submission[m].key = c.key) => b = c

\* The page shows a booking of the rooms that were asked for, at the price of
\* the search or at the one accepted for it - unless an answer was lost: then
\* the form may have changed since the booking was made, which is shown.
ShownBookingIsAsAsked ==
  step = "left" /\ ~answerLost =>
    LET q == submission[shown]
        row == q.answer.row
    IN row.rooms = q.rooms /\ row.total \in {q.rooms * SearchPrice, q.accepted}

\* "Price re-verified with the supplier": when "Confirm and book" can be
\* clicked the total beside it is the supplier's for the rooms of the form, or
\* that of the search - unless two previews were under way at a time.
ReviewedPriceIsForTheseRooms ==
  CanConfirm /\ ~previewsOverlap => preview.of \in {0, rooms}

FormsSound == OneBookingPerForm /\ ShownBookingIsAsAsked /\ ReviewedPriceIsForTheseRooms
=============================================================================
