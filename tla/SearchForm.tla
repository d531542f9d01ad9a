----------------------------- MODULE SearchForm -----------------------------
(***************************************************************************)
(* The form in which a traveller says what to fly: FlightSearchForm of the *)
(* web application, which keeps a list of legs, shows one pair of airports *)
(* for a round trip and mirrors it into the leg back; and what the server  *)
(* asks of a search before it does anything (validateRequest).             *)
(*                                                                         *)
(* An airport is what the field hands over: one picked from its list, or   *)
(* none while the traveller types.  Dates are left out.                    *)
(***************************************************************************)
EXTENDS Naturals, Sequences

CONSTANTS
  Airports,
  NoAirport,      \* the empty string
  MaxLegs,        \* 6: legs of a multi-city trip
  MaxTravellers   \* 9

ASSUME SearchFormAssumption ==
  NoAirport \notin Airports /\ MaxLegs \in Nat /\ MaxLegs >= 2 /\ MaxTravellers \in Nat \ {0}

VARIABLES
  tripType,
  formLegs,      \* segments
  adults, infants,
  formStep,      \* "editing", "searching" or "done"
  tripChanged,   \* history: the trip type was changed, or the form opened with a destination
  throughMulti   \* history: it has been MULTI_CITY

formVars == <<tripType, formLegs, adults, infants, formStep, tripChanged, throughMulti>>

LegEnds == Airports \cup {NoAirport}
FlightLeg == [origin : LegEnds, destination : LegEnds]
EmptyLeg == [origin |-> NoAirport, destination |-> NoAirport]
WayBack(leg) == [origin |-> leg.destination, destination |-> leg.origin]

FormTypeOK ==
  /\ tripType \in {"ONE_WAY", "ROUND_TRIP", "MULTI_CITY"}
  /\ Len(formLegs) \in 1..MaxLegs /\ \A i \in 1..Len(formLegs) : formLegs[i] \in FlightLeg
  /\ adults \in 1..MaxTravellers /\ infants \in 0..MaxTravellers
  /\ formStep \in {"editing", "searching", "done"}
  /\ tripChanged \in BOOLEAN /\ throughMulti \in BOOLEAN

\* The home page opens the form with the destination of a banner.
FormInit ==
  /\ tripType = "ROUND_TRIP"
  /\ \E to \in LegEnds :
       /\ formLegs = <<[EmptyLeg EXCEPT !.destination = to], EmptyLeg>>
       /\ tripChanged = (to # NoAirport)
  /\ adults = 1 /\ infants = 0
  /\ formStep = "editing" /\ throughMulti = FALSE
-----------------------------------------------------------------------------
(* The traveller's hands; nothing is locked while a search is under way.   *)

LegsFor(trip) ==
  LET second == IF Len(formLegs) >= 2 THEN formLegs[2] ELSE EmptyLeg
  IN CASE trip = "ONE_WAY" -> <<formLegs[1]>>
       [] trip = "ROUND_TRIP" -> <<formLegs[1], second>>
       [] OTHER -> IF Len(formLegs) >= 2 THEN formLegs ELSE <<formLegs[1], EmptyLeg>>

SetTrip(trip) ==
  /\ tripType' = trip /\ formLegs' = LegsFor(trip)
  /\ tripChanged' = (tripChanged \/ trip # tripType)
  /\ throughMulti' = (throughMulti \/ trip = "MULTI_CITY")
  /\ UNCHANGED <<adults, infants>>

\* One pair is shown unless the trip has several cities; the leg back follows.
WithPair(out, back) ==
  IF tripType = "ROUND_TRIP" THEN <<out, back>> ELSE [formLegs EXCEPT ![1] = out]

EditLegs(changed) ==
  /\ formLegs' = changed
  /\ UNCHANGED <<tripType, adults, infants, tripChanged, throughMulti>>

SetMainOrigin(airport) ==
  /\ tripType # "MULTI_CITY"
  /\ EditLegs(WithPair([formLegs[1] EXCEPT !.origin = airport],
                       [formLegs[2] EXCEPT !.destination = airport]))

SetMainDestination(airport) ==
  /\ tripType # "MULTI_CITY"
  /\ EditLegs(WithPair([formLegs[1] EXCEPT !.destination = airport],
                       [formLegs[2] EXCEPT !.origin = airport]))

\* Mutant: the leg back is left as it is.
SwapMainOnly ==
  /\ tripType # "MULTI_CITY"
  /\ EditLegs([formLegs EXCEPT ![1] = WayBack(@)])
SwapMain ==
  /\ tripType # "MULTI_CITY"
  /\ EditLegs(WithPair(WayBack(formLegs[1]), formLegs[1]))

UpdateSegment(i, airport) ==
  /\ tripType = "MULTI_CITY" /\ i \in 1..Len(formLegs)
  /\ \E leg \in {[formLegs[i] EXCEPT !.origin = airport], [formLegs[i] EXCEPT !.destination = airport]} :
       EditLegs([formLegs EXCEPT ![i] = leg])

AddSegment ==
  /\ tripType = "MULTI_CITY" /\ Len(formLegs) < MaxLegs
  /\ EditLegs(Append(formLegs, EmptyLeg))

RemoveSegment(i) ==
  /\ tripType = "MULTI_CITY" /\ Len(formLegs) > 2 /\ i \in 1..Len(formLegs)
  /\ EditLegs(SubSeq(formLegs, 1, i - 1) \o SubSeq(formLegs, i + 1, Len(formLegs)))

\* Mutant: the infants stay.
InfantsStay(count) == infants
\* An infant for each adult at most.
InfantsWith(count) == IF infants <= count THEN infants ELSE count

SetAdults(count) ==
  /\ adults' = count /\ infants' = InfantsWith(count)
  /\ UNCHANGED <<tripType, formLegs, tripChanged, throughMulti>>
SetInfants(count) ==
  /\ count <= adults
  /\ infants' = count
  /\ UNCHANGED <<tripType, formLegs, adults, tripChanged, throughMulti>>

Edit ==
  \/ \E trip \in {"ONE_WAY", "ROUND_TRIP", "MULTI_CITY"} : SetTrip(trip)
  \/ \E a \in LegEnds : SetMainOrigin(a) \/ SetMainDestination(a)
  \/ SwapMain
  \/ \E i \in 1..MaxLegs, a \in LegEnds : UpdateSegment(i, a)
  \/ AddSegment
  \/ \E i \in 1..MaxLegs : RemoveSegment(i)
  \/ \E n \in {adults - 1, adults + 1} \cap 1..MaxTravellers : SetAdults(n)
  \/ \E n \in {infants - 1, infants + 1} \cap (0..MaxTravellers) : SetInfants(n)
-----------------------------------------------------------------------------
(* handleSubmit, and validateRequest on the server.                        *)

PassesForm ==
  \A i \in 1..Len(formLegs) :
    NoAirport \notin {formLegs[i].origin, formLegs[i].destination} /\ formLegs[i].origin # formLegs[i].destination

\* validateRequest's reasons.  What the DTO asks of single fields before it is
\* left out: the nationality is free text of the form that nothing else reads,
\* and a search refused for its length comes back like any failed one.
ServerRefusals ==
  {reason \in {"segments", "sameAirport", "infants", "travellers"} :
     \/ /\ reason = "segments"
        /\ CASE tripType = "ONE_WAY" -> Len(formLegs) # 1
             [] tripType = "ROUND_TRIP" -> Len(formLegs) # 2
             [] OTHER -> Len(formLegs) \notin 2..MaxLegs
     \/ reason = "sameAirport" /\ \E i \in 1..Len(formLegs) : formLegs[i].origin = formLegs[i].destination
     \/ reason = "infants" /\ infants > adults
     \/ reason = "travellers" /\ adults + infants > MaxTravellers}

\* The server reads what was sent: editing goes on, and the page is left for
\* the results when they come.
SubmitForm ==
  /\ formStep = "editing" /\ PassesForm
  /\ formStep' = IF ServerRefusals = {} THEN "searching" ELSE "editing"
  /\ UNCHANGED <<tripType, formLegs, adults, infants, tripChanged, throughMulti>>

SearchAnswered ==
  /\ formStep = "searching"
  /\ formStep' \in {"done", "editing"}
  /\ UNCHANGED <<tripType, formLegs, adults, infants, tripChanged, throughMulti>>

FormNext ==
  \/ formStep # "done" /\ Edit /\ UNCHANGED formStep
  \/ SubmitForm
  \/ SearchAnswered

FormSpec == FormInit /\ [][FormNext]_formVars
-----------------------------------------------------------------------------
(* Properties, of every form that could be submitted as it stands.         *)

\* "the UI shows a single From/To pair and mirrors it into the return leg
\* automatically": a round trip that passes the form's checks comes back from
\* where it goes, whatever was picked, cleared and swapped in whatever order.
\* After a trip of several cities the second leg stays what it was then.
RoundTripsComeBack ==
  tripType = "ROUND_TRIP" /\ PassesForm /\ ~throughMulti => formLegs[2] = WayBack(formLegs[1])

\* A traveller who sees two different airports on the form is not told to
\* choose both; a form that was opened with a destination, or whose trip type
\* was changed, has an empty leg back that is not shown.
WhatIsShownPasses ==
  /\ tripType # "MULTI_CITY" /\ ~tripChanged
  /\ NoAirport \notin {formLegs[1].origin, formLegs[1].destination}
  /\ formLegs[1].origin # formLegs[1].destination
  => PassesForm

\* The form's checks and its buttons leave validateRequest nothing to refuse
\* but the number of travellers, which the form does not limit as a whole.
OnlyPartiesAreRefused == PassesForm => ServerRefusals \subseteq {"travellers"}

SearchFormSound == RoundTripsComeBack /\ WhatIsShownPasses /\ OnlyPartiesAreRefused
=============================================================================
