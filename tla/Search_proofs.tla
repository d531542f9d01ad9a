--------------------------- MODULE Search_proofs ----------------------------
(***************************************************************************)
(* Proofs about what is searched for and comes back: the form of a search, *)
(* flight and hotel searches, the assistant and the legs of an offer, for  *)
(* any number of suppliers, offers and requests; then about the run that   *)
(* joins them.                                                             *)
(***************************************************************************)
EXTENDS MC_Search, Pricing_proofs, Totals_proofs, SequenceTheorems
-----------------------------------------------------------------------------
(* The form of a search (SearchForm).                                      *)

\* As many legs as the trip type has.
LegsOfTrip ==
  /\ tripType = "ONE_WAY" => Len(formLegs) = 1
  /\ tripType = "ROUND_TRIP" => Len(formLegs) = 2
  /\ tripType = "MULTI_CITY" => Len(formLegs) \in 2..MaxLegs

\* An end of the leg back is the other end of the leg out or was never filled
\* in; it is filled in with it as long as the trip type is not touched.
LegBackFollows ==
  /\ tripType = "MULTI_CITY" => throughMulti
  /\ tripType = "ROUND_TRIP" /\ ~throughMulti =>
       /\ formLegs[2].origin \in {NoAirport, formLegs[1].destination}
       /\ formLegs[2].destination \in {NoAirport, formLegs[1].origin}
  /\ ~tripChanged => tripType = "ROUND_TRIP" /\ formLegs[2] = WayBack(formLegs[1])

FormInv ==
  /\ FormTypeOK
  /\ formLegs \in Seq(FlightLeg)
  /\ infants <= adults
  /\ LegsOfTrip
  /\ LegBackFollows

LEMMA FormBounds ==
  /\ NoAirport \notin Airports /\ MaxLegs \in Nat /\ MaxLegs >= 2 /\ MaxTravellers \in Nat \ {0}
  /\ EmptyLeg \in FlightLeg
BY SearchFormAssumption DEF EmptyLeg, FlightLeg, LegEnds

LEMMA LegFacts ==
  ASSUME NEW leg \in FlightLeg
  PROVE  /\ leg.origin \in LegEnds /\ leg.destination \in LegEnds
         /\ WayBack(leg) \in FlightLeg /\ WayBack(leg).origin = leg.destination
         /\ WayBack(leg).destination = leg.origin
         /\ \A a \in LegEnds :
              /\ [leg EXCEPT !.origin = a] \in FlightLeg
              /\ [leg EXCEPT !.destination = a] \in FlightLeg
              /\ [leg EXCEPT !.origin = a].origin = a
              /\ [leg EXCEPT !.origin = a].destination = leg.destination
              /\ [leg EXCEPT !.destination = a].destination = a
              /\ [leg EXCEPT !.destination = a].origin = leg.origin
BY DEF FlightLeg, WayBack

LEMMA SameLeg ==
  ASSUME NEW a \in FlightLeg, NEW b \in FlightLeg,
         a.origin = b.origin, a.destination = b.destination
  PROVE  a = b
BY DEF FlightLeg

LEMMA OneOrTwoLegs ==
  ASSUME NEW a \in FlightLeg, NEW b \in FlightLeg
  PROVE  /\ <<a>> \in Seq(FlightLeg) /\ Len(<<a>>) = 1
         /\ <<a, b>> \in Seq(FlightLeg) /\ Len(<<a, b>>) = 2
OBVIOUS

LEMMA FormInitInv == FormInit => FormInv
<1> SUFFICES ASSUME FormInit PROVE FormInv
  OBVIOUS
<1> USE FormBounds DEF FormInit
<1>1. PICK to \in LegEnds : /\ formLegs = <<[EmptyLeg EXCEPT !.destination = to], EmptyLeg>>
                            /\ tripChanged = (to # NoAirport)
  OBVIOUS
<1>2. /\ [EmptyLeg EXCEPT !.destination = to] \in FlightLeg
      /\ [EmptyLeg EXCEPT !.destination = to].origin = NoAirport
      /\ EmptyLeg.origin = NoAirport /\ EmptyLeg.destination = NoAirport
  BY LegFacts DEF EmptyLeg
<1>3. /\ formLegs \in Seq(FlightLeg) /\ Len(formLegs) = 2
      /\ formLegs[1] = [EmptyLeg EXCEPT !.destination = to] /\ formLegs[2] = EmptyLeg
  BY <1>1, <1>2
<1>4. FormTypeOK
  <2>1. tripChanged \in BOOLEAN
    BY <1>1, Zenon
  <2>2. Len(formLegs) \in 1..MaxLegs /\ \A i \in 1..Len(formLegs) : formLegs[i] \in FlightLeg
    BY <1>3
  <2>3. adults \in 1..MaxTravellers /\ infants \in 0..MaxTravellers
    OBVIOUS
  <2> QED BY <2>1, <2>2, <2>3 DEF FormTypeOK
<1>5. ~tripChanged => formLegs[2] = WayBack(formLegs[1])
  <2>1. ~tripChanged => [EmptyLeg EXCEPT !.destination = to] = EmptyLeg
    <3>1. to = NoAirport => [EmptyLeg EXCEPT !.destination = to].destination = NoAirport
      BY LegFacts
    <3>2. ~tripChanged => to = NoAirport
      BY <1>1, Zenon
    <3> HIDE DEF FormInit
    <3> QED BY <3>1, <3>2, <1>2, SameLeg
  <2>2. EmptyLeg = WayBack(EmptyLeg)
    BY DEF EmptyLeg, WayBack
  <2> QED BY <1>3, <2>1, <2>2
<1>6. LegsOfTrip /\ LegBackFollows
  BY <1>2, <1>3, <1>5 DEF LegsOfTrip, LegBackFollows
<1> QED BY <1>3, <1>4, <1>6 DEF FormInv

\* Legs of the type, by pieces: what an edit of the legs must show.
LEMMA TypedForm ==
  ASSUME FormInv, formLegs' \in Seq(FlightLeg), Len(formLegs') \in 1..MaxLegs,
         UNCHANGED <<formStep>>, adults' \in 1..MaxTravellers, infants' \in 0..MaxTravellers,
         infants' <= adults', tripType' \in {"ONE_WAY", "ROUND_TRIP", "MULTI_CITY"},
         tripChanged' \in BOOLEAN, throughMulti' \in BOOLEAN, LegsOfTrip', LegBackFollows'
  PROVE  FormInv'
BY DEF FormInv, FormTypeOK

LEMMA LegsNow ==
  ASSUME FormInv
  PROVE  /\ formLegs \in Seq(FlightLeg) /\ Len(formLegs) \in 1..MaxLegs
         /\ Len(formLegs) \in Nat /\ formLegs[1] \in FlightLeg
         /\ Len(formLegs) >= 2 => formLegs[2] \in FlightLeg
         /\ adults \in 1..MaxTravellers /\ infants \in 0..MaxTravellers /\ infants <= adults
         /\ tripType \in {"ONE_WAY", "ROUND_TRIP", "MULTI_CITY"}
         /\ tripChanged \in BOOLEAN /\ throughMulti \in BOOLEAN
BY FormBounds DEF FormInv, FormTypeOK

LEMMA SetTripInv ==
  ASSUME FormInv, UNCHANGED formStep,
         NEW kind \in {"ONE_WAY", "ROUND_TRIP", "MULTI_CITY"}, SetTrip(kind)
  PROVE  FormInv'
<1> DEFINE second == IF Len(formLegs) >= 2 THEN formLegs[2] ELSE EmptyLeg
<1>1. second \in FlightLeg /\ (Len(formLegs) >= 2 => second = formLegs[2])
      /\ (~(Len(formLegs) >= 2) => second = EmptyLeg)
  BY LegsNow, FormBounds
<1>2. formLegs' = LegsFor(kind) /\ tripType' = kind /\ UNCHANGED <<adults, infants>>
      /\ tripChanged' = (tripChanged \/ kind # tripType)
      /\ throughMulti' = (throughMulti \/ kind = "MULTI_CITY")
  BY DEF SetTrip
<1>3. /\ kind = "ONE_WAY" => formLegs' = <<formLegs[1]>>
      /\ kind = "ROUND_TRIP" => formLegs' = <<formLegs[1], second>>
      /\ kind = "MULTI_CITY" => formLegs' = IF Len(formLegs) >= 2 THEN formLegs
                                             ELSE <<formLegs[1], EmptyLeg>>
  BY <1>2 DEF LegsFor
<1> HIDE DEF second
<1>5. ASSUME tripType = "ROUND_TRIP" PROVE second = formLegs[2]
  <2>1. Len(formLegs) = 2
    BY <1>5 DEF FormInv, LegsOfTrip
  <2>2. Len(formLegs) >= 2
    BY <2>1
  <2> QED BY <2>2, <1>1
<1>6. ASSUME tripType = "ONE_WAY" PROVE second = EmptyLeg
  <2>1. Len(formLegs) = 1
    BY <1>6 DEF FormInv, LegsOfTrip
  <2> QED BY <2>1, <1>1
<1>4. formLegs' \in Seq(FlightLeg) /\ Len(formLegs') \in 1..MaxLegs /\ LegsOfTrip'
  <2>1. CASE kind = "ONE_WAY"
    <3>1. formLegs' \in Seq(FlightLeg) /\ Len(formLegs') = 1
      BY <2>1, <1>3, LegsNow, OneOrTwoLegs
    <3> QED BY <3>1, <2>1, <1>2, FormBounds DEF LegsOfTrip
  <2>2. CASE kind = "ROUND_TRIP"
    <3>1. formLegs' \in Seq(FlightLeg) /\ Len(formLegs') = 2
      BY <2>2, <1>1, <1>3, LegsNow, OneOrTwoLegs
    <3> QED BY <3>1, <2>2, <1>2, FormBounds DEF LegsOfTrip
  <2>3. CASE kind = "MULTI_CITY"
    <3>1. formLegs' \in Seq(FlightLeg) /\ Len(formLegs') \in 2..MaxLegs
      <4>1. CASE Len(formLegs) >= 2
        BY <4>1, <2>3, <1>3, LegsNow, FormBounds
      <4>2. CASE ~(Len(formLegs) >= 2)
        <5>1. formLegs' = <<formLegs[1], EmptyLeg>>
          BY <4>2, <2>3, <1>3
        <5> QED BY <5>1, LegsNow, FormBounds, OneOrTwoLegs
      <4> QED BY <4>1, <4>2
    <3> QED BY <3>1, <2>3, <1>2, FormBounds DEF LegsOfTrip
  <2> QED BY <2>1, <2>2, <2>3
<1>7. LegBackFollows'
  <2>1. tripType' = "MULTI_CITY" => throughMulti'
    BY <1>2
  <2>2. ASSUME kind = "ROUND_TRIP"
        PROVE  formLegs'[1] = formLegs[1] /\ formLegs'[2] = second
    BY <2>2, <1>3
  <2>3. ASSUME kind = "ROUND_TRIP", ~throughMulti'
        PROVE  /\ formLegs'[2].origin \in {NoAirport, formLegs'[1].destination}
               /\ formLegs'[2].destination \in {NoAirport, formLegs'[1].origin}
    <3>1. ~throughMulti /\ tripType # "MULTI_CITY"
      BY <1>2, <2>3 DEF FormInv, LegBackFollows
    <3>2. CASE tripType = "ROUND_TRIP"
      <4>1. second = formLegs[2]
        BY <3>2, <1>5
      <4> QED BY <3>1, <3>2, <4>1, <2>2, <2>3 DEF FormInv, LegBackFollows
    <3>3. CASE tripType = "ONE_WAY"
      <4>1. second = EmptyLeg
        BY <3>3, <1>6
      <4> QED BY <4>1, <2>2, <2>3 DEF EmptyLeg
    <3> QED BY <3>1, <3>2, <3>3, LegsNow
  <2>4. ASSUME ~tripChanged'
        PROVE  kind = "ROUND_TRIP" /\ formLegs'[2] = WayBack(formLegs'[1])
    <3>1. ~tripChanged /\ kind = tripType
      BY <1>2, <2>4
    <3>2. tripType = "ROUND_TRIP" /\ formLegs[2] = WayBack(formLegs[1])
      BY <3>1 DEF FormInv, LegBackFollows
    <3>3. second = formLegs[2]
      BY <3>2, <1>5
    <3> QED BY <3>1, <3>2, <3>3, <2>2
  <2> QED BY <2>1, <2>3, <2>4, <1>2 DEF LegBackFollows
<1> QED BY <1>2, <1>4, <1>7, LegsNow, TypedForm

\* An edit of the pair that is shown, with the leg back to follow it.
LEMMA PairInv ==
  ASSUME FormInv, UNCHANGED formStep, NEW out \in FlightLeg, NEW back,
         tripType # "MULTI_CITY", EditLegs(WithPair(out, back)),
         tripType = "ROUND_TRIP" =>
           /\ back \in FlightLeg
           /\ ~throughMulti => /\ back.origin \in {NoAirport, out.destination}
                               /\ back.destination \in {NoAirport, out.origin}
           /\ ~tripChanged => back = WayBack(out)
  PROVE  FormInv'
<1>0. UNCHANGED <<tripType, adults, infants, tripChanged, throughMulti>>
      /\ formLegs' = WithPair(out, back)
  BY DEF EditLegs
<1>1. CASE tripType = "ROUND_TRIP"
  <2>1. formLegs' = <<out, back>> /\ back \in FlightLeg
    BY <1>0, <1>1 DEF WithPair
  <2>2. formLegs' \in Seq(FlightLeg) /\ Len(formLegs') = 2 /\ formLegs'[1] = out /\ formLegs'[2] = back
    BY <2>1
  <2>3. LegsOfTrip' /\ LegBackFollows'
    BY <1>0, <1>1, <2>2 DEF LegsOfTrip, LegBackFollows
  <2> QED BY <1>0, <2>2, <2>3, LegsNow, FormBounds, TypedForm
<1>2. CASE tripType = "ONE_WAY"
  <2>1. formLegs' = [formLegs EXCEPT ![1] = out]
    BY <1>0, <1>2 DEF WithPair
  <2>2. formLegs' \in Seq(FlightLeg) /\ Len(formLegs') = Len(formLegs)
    BY <2>1, LegsNow, ExceptSeq
  <2>3. LegsOfTrip'
    BY <1>0, <2>2 DEF FormInv, LegsOfTrip
  <2>4. LegBackFollows'
    BY <1>0, <1>2 DEF FormInv, LegBackFollows
  <2> QED BY <1>0, <2>2, <2>3, <2>4, LegsNow, TypedForm
<1> QED BY <1>1, <1>2, LegsNow

\* What is known of the leg back of a round trip.
LEMMA BackNow ==
  ASSUME FormInv, tripType = "ROUND_TRIP"
  PROVE  /\ formLegs[2] \in FlightLeg
         /\ ~throughMulti => /\ formLegs[2].origin \in {NoAirport, formLegs[1].destination}
                             /\ formLegs[2].destination \in {NoAirport, formLegs[1].origin}
         /\ ~tripChanged => formLegs[2] = WayBack(formLegs[1])
<1>1. Len(formLegs) = 2
  BY DEF FormInv, LegsOfTrip
<1> QED BY <1>1, LegsNow DEF FormInv, LegBackFollows

LEMMA MainOriginInv ==
  ASSUME FormInv, UNCHANGED formStep, NEW airport \in LegEnds, SetMainOrigin(airport)
  PROVE  FormInv'
<1> DEFINE out == [formLegs[1] EXCEPT !.origin = airport]
           back == [formLegs[2] EXCEPT !.destination = airport]
<1>1. out \in FlightLeg /\ out.origin = airport /\ out.destination = formLegs[1].destination
  BY LegsNow, LegFacts
<1>2. tripType # "MULTI_CITY" /\ EditLegs(WithPair(out, back))
  BY DEF SetMainOrigin
<1>4. tripType = "ROUND_TRIP" =>
        back \in FlightLeg /\ back.destination = airport /\ back.origin = formLegs[2].origin
  BY BackNow, LegFacts
<1> HIDE DEF out, back
<1>3. ASSUME tripType = "ROUND_TRIP"
      PROVE  /\ back \in FlightLeg
             /\ ~throughMulti => /\ back.origin \in {NoAirport, out.destination}
                                 /\ back.destination \in {NoAirport, out.origin}
             /\ ~tripChanged => back = WayBack(out)
  <2>1. back \in FlightLeg /\ back.destination = airport /\ back.origin = formLegs[2].origin
    BY <1>3, <1>4
  <2>2. ASSUME ~tripChanged PROVE back = WayBack(out)
    <3>1. back.origin = formLegs[1].destination
      BY <2>1, <2>2, <1>3, BackNow, LegsNow, LegFacts
    <3> QED BY <3>1, <2>1, <1>1, LegFacts, SameLeg
  <2>3. ~throughMulti => back.origin \in {NoAirport, out.destination}
    BY <2>1, <1>1, <1>3, BackNow
  <2> QED BY <2>1, <2>2, <2>3, <1>1
<1> QED BY <1>1, <1>2, <1>3, PairInv

LEMMA MainDestinationInv ==
  ASSUME FormInv, UNCHANGED formStep, NEW airport \in LegEnds, SetMainDestination(airport)
  PROVE  FormInv'
<1> DEFINE out == [formLegs[1] EXCEPT !.destination = airport]
           back == [formLegs[2] EXCEPT !.origin = airport]
<1>1. out \in FlightLeg /\ out.destination = airport /\ out.origin = formLegs[1].origin
  BY LegsNow, LegFacts
<1>2. tripType # "MULTI_CITY" /\ EditLegs(WithPair(out, back))
  BY DEF SetMainDestination
<1>4. tripType = "ROUND_TRIP" =>
        back \in FlightLeg /\ back.origin = airport /\ back.destination = formLegs[2].destination
  BY BackNow, LegFacts
<1> HIDE DEF out, back
<1>3. ASSUME tripType = "ROUND_TRIP"
      PROVE  /\ back \in FlightLeg
             /\ ~throughMulti => /\ back.origin \in {NoAirport, out.destination}
                                 /\ back.destination \in {NoAirport, out.origin}
             /\ ~tripChanged => back = WayBack(out)
  <2>1. back \in FlightLeg /\ back.origin = airport /\ back.destination = formLegs[2].destination
    BY <1>3, <1>4
  <2>2. ASSUME ~tripChanged PROVE back = WayBack(out)
    <3>1. back.destination = formLegs[1].origin
      BY <2>1, <2>2, <1>3, BackNow, LegsNow, LegFacts
    <3> QED BY <3>1, <2>1, <1>1, LegFacts, SameLeg
  <2>3. ~throughMulti => back.destination \in {NoAirport, out.origin}
    BY <2>1, <1>1, <1>3, BackNow
  <2> QED BY <2>1, <2>2, <2>3, <1>1
<1> QED BY <1>1, <1>2, <1>3, PairInv

LEMMA SwapMainInv ==
  ASSUME FormInv, UNCHANGED formStep, SwapMain
  PROVE  FormInv'
<1>1. /\ WayBack(formLegs[1]) \in FlightLeg /\ formLegs[1] \in FlightLeg
      /\ WayBack(formLegs[1]).origin = formLegs[1].destination
      /\ WayBack(formLegs[1]).destination = formLegs[1].origin
  BY LegsNow, LegFacts
<1>2. formLegs[1] = WayBack(WayBack(formLegs[1]))
  BY <1>1, LegFacts, SameLeg
<1>3. tripType # "MULTI_CITY" /\ EditLegs(WithPair(WayBack(formLegs[1]), formLegs[1]))
  BY DEF SwapMain
<1> QED BY <1>1, <1>2, <1>3, PairInv

\* A trip of several cities may change its legs in any way.
LEMMA MultiInv ==
  ASSUME FormInv, UNCHANGED formStep, tripType = "MULTI_CITY", NEW changed \in Seq(FlightLeg),
         EditLegs(changed), Len(changed) \in 2..MaxLegs
  PROVE  FormInv'
<1>1. formLegs' = changed /\ UNCHANGED <<tripType, adults, infants, tripChanged, throughMulti>>
  BY DEF EditLegs
<1>2. LegsOfTrip' /\ Len(formLegs') \in 1..MaxLegs
  BY <1>1, FormBounds DEF LegsOfTrip
<1>3. LegBackFollows'
  BY <1>1 DEF FormInv, LegBackFollows
<1> QED BY <1>1, <1>2, <1>3, LegsNow, TypedForm

LEMMA UpdateSegmentInv ==
  ASSUME FormInv, UNCHANGED formStep, NEW i \in 1..MaxLegs, NEW airport \in LegEnds,
         UpdateSegment(i, airport)
  PROVE  FormInv'
<1>1. PICK leg \in {[formLegs[i] EXCEPT !.origin = airport], [formLegs[i] EXCEPT !.destination = airport]} :
        EditLegs([formLegs EXCEPT ![i] = leg])
  BY DEF UpdateSegment
<1>2. tripType = "MULTI_CITY" /\ i \in 1..Len(formLegs) /\ formLegs[i] \in FlightLeg
  BY LegsNow DEF UpdateSegment
<1>3. leg \in FlightLeg
  <2>1. /\ [formLegs[i] EXCEPT !.origin = airport] \in FlightLeg
        /\ [formLegs[i] EXCEPT !.destination = airport] \in FlightLeg
    BY <1>2, LegFacts
  <2> QED BY <2>1
<1>4. [formLegs EXCEPT ![i] = leg] \in Seq(FlightLeg) /\ Len([formLegs EXCEPT ![i] = leg]) = Len(formLegs)
  BY <1>2, <1>3, LegsNow, ExceptSeq
<1>5. Len(formLegs) \in 2..MaxLegs
  BY <1>2 DEF FormInv, LegsOfTrip
<1> QED BY <1>1, <1>2, <1>4, <1>5, MultiInv

LEMMA AddSegmentInv ==
  ASSUME FormInv, UNCHANGED formStep, AddSegment
  PROVE  FormInv'
<1>1. Append(formLegs, EmptyLeg) \in Seq(FlightLeg) /\ Len(Append(formLegs, EmptyLeg)) = Len(formLegs) + 1
  BY LegsNow, FormBounds, AppendProperties
<1>2. tripType = "MULTI_CITY" /\ Len(formLegs) < MaxLegs /\ EditLegs(Append(formLegs, EmptyLeg))
      /\ Len(formLegs) \in 2..MaxLegs
  BY DEF AddSegment, FormInv, LegsOfTrip
<1>3. Len(Append(formLegs, EmptyLeg)) \in 2..MaxLegs
  BY <1>1, <1>2, FormBounds
<1> QED BY <1>1, <1>2, <1>3, MultiInv

LEMMA RemoveSegmentInv ==
  ASSUME FormInv, UNCHANGED formStep, NEW i \in 1..MaxLegs, RemoveSegment(i)
  PROVE  FormInv'
<1> DEFINE before == SubSeq(formLegs, 1, i - 1)
           after == SubSeq(formLegs, i + 1, Len(formLegs))
<1>1. /\ tripType = "MULTI_CITY" /\ Len(formLegs) > 2 /\ i \in 1..Len(formLegs)
      /\ EditLegs(before \o after)
  BY DEF RemoveSegment
<1>2. /\ before \in Seq(FlightLeg) /\ Len(before) = i - 1
      /\ after \in Seq(FlightLeg) /\ Len(after) = Len(formLegs) - i
  BY <1>1, LegsNow, SubSeqProperties
<1> HIDE DEF before, after
<1>3. before \o after \in Seq(FlightLeg) /\ Len(before \o after) = Len(formLegs) - 1
  BY <1>1, <1>2, LegsNow, ConcatProperties
<1>4. Len(before \o after) \in 2..MaxLegs
  BY <1>1, <1>3, LegsNow, FormBounds
<1> QED BY <1>1, <1>3, <1>4, MultiInv

LEMMA TravellersInv ==
  ASSUME FormInv, UNCHANGED formStep,
         \/ \E n \in {adults - 1, adults + 1} \cap 1..MaxTravellers : SetAdults(n)
         \/ \E n \in {infants - 1, infants + 1} \cap (0..MaxTravellers) : SetInfants(n)
  PROVE  FormInv'
<1>1. /\ adults' \in 1..MaxTravellers /\ infants' \in 0..MaxTravellers /\ infants' <= adults'
      /\ UNCHANGED <<tripType, formLegs, tripChanged, throughMulti>>
  BY LegsNow, FormBounds DEF SetAdults, SetInfants, InfantsWith
<1>2. LegsOfTrip' /\ LegBackFollows'
  BY <1>1 DEF FormInv, LegsOfTrip, LegBackFollows
<1> QED BY <1>1, <1>2, LegsNow, TypedForm

LEMMA FormStepInv == FormInv /\ [FormNext]_formVars => FormInv'
<1> SUFFICES ASSUME FormInv, [FormNext]_formVars PROVE FormInv'
  OBVIOUS
<1>1. ASSUME Edit, UNCHANGED formStep PROVE FormInv'
  BY <1>1, SetTripInv, MainOriginInv, MainDestinationInv, SwapMainInv, UpdateSegmentInv,
     AddSegmentInv, RemoveSegmentInv, TravellersInv DEF Edit
<1>2. ASSUME UNCHANGED <<tripType, formLegs, adults, infants, tripChanged, throughMulti>>,
             formStep' \in {"editing", "searching", "done"}
      PROVE  FormInv'
  BY <1>2 DEF FormInv, FormTypeOK, LegsOfTrip, LegBackFollows
<1>3. CASE SubmitForm
  BY <1>2, <1>3 DEF SubmitForm
<1>4. CASE SearchAnswered
  BY <1>2, <1>4 DEF SearchAnswered
<1>5. CASE UNCHANGED formVars
  BY <1>2, <1>5 DEF formVars, FormInv, FormTypeOK
<1> QED BY <1>1, <1>3, <1>4, <1>5 DEF FormNext

LEMMA FormInvSound == FormInv => SearchFormSound
<1> SUFFICES ASSUME FormInv PROVE SearchFormSound
  OBVIOUS
<1>1. RoundTripsComeBack
  <2> SUFFICES ASSUME tripType = "ROUND_TRIP", PassesForm, ~throughMulti
               PROVE  formLegs[2] = WayBack(formLegs[1])
    BY DEF RoundTripsComeBack
  <2>1. Len(formLegs) = 2
    BY DEF FormInv, LegsOfTrip
  <2>2. formLegs[2].origin # NoAirport /\ formLegs[2].destination # NoAirport
    BY <2>1 DEF PassesForm
  <2>3. formLegs[2].origin = formLegs[1].destination /\ formLegs[2].destination = formLegs[1].origin
    BY <2>2, BackNow
  <2> QED BY <2>3, BackNow, LegsNow, LegFacts, SameLeg
<1>2. WhatIsShownPasses
  <2> SUFFICES ASSUME ~tripChanged, NoAirport \notin {formLegs[1].origin, formLegs[1].destination},
                      formLegs[1].origin # formLegs[1].destination
               PROVE  PassesForm
    BY DEF WhatIsShownPasses
  <2>1. tripType = "ROUND_TRIP" /\ formLegs[2] = WayBack(formLegs[1])
    BY DEF FormInv, LegBackFollows
  <2>2. formLegs[2].origin = formLegs[1].destination /\ formLegs[2].destination = formLegs[1].origin
    BY <2>1, LegsNow, LegFacts
  <2>3. Len(formLegs) = 2
    BY <2>1 DEF FormInv, LegsOfTrip
  <2>4. \A i \in 1..Len(formLegs) : i = 1 \/ i = 2
    BY <2>3
  <2> QED BY <2>2, <2>4 DEF PassesForm
<1>3. OnlyPartiesAreRefused
  <2> SUFFICES ASSUME PassesForm, NEW reason \in ServerRefusals PROVE reason = "travellers"
    BY DEF OnlyPartiesAreRefused
  <2>1. reason \in {"segments", "sameAirport", "infants", "travellers"}
    BY DEF ServerRefusals
  <2>2. reason # "segments"
    BY LegsNow DEF ServerRefusals, FormInv, LegsOfTrip
  <2>3. reason # "sameAirport"
    BY DEF ServerRefusals, PassesForm
  <2>4. reason # "infants"
    BY LegsNow DEF ServerRefusals
  <2> QED BY <2>1, <2>2, <2>3, <2>4
<1> QED BY <1>1, <1>2, <1>3 DEF SearchFormSound

\* FormTypeOK and SearchFormSound: for any airports and bounds and whatever is
\* edited in whichever order, a round trip that passes the form comes back from
\* where it goes, what is shown complete passes, and the server refuses of what
\* passes the number of travellers only, each but for the forms it leaves out.
THEOREM FormsAlwaysPass == FormSpec => [](FormTypeOK /\ SearchFormSound)
<1>1. FormSpec => []FormInv
  BY FormInitInv, FormStepInv, PTL DEF FormSpec
<1>2. FormInv => FormTypeOK
  BY DEF FormInv
<1> QED BY <1>1, <1>2, FormInvSound, PTL
-----------------------------------------------------------------------------
(* Flight searches (FlightSearch).                                         *)

\* A call has at most one run row, with its outcome; without one it is either
\* not that far, or a failure whose row could not be written.
CallsAreRecorded ==
  \A r \in Searches, s \in FlightSuppliers :
    /\ searchPc[r] = "start" => callPc[r][s] = "idle"
    /\ callPc[r][s] \in {"idle", "calling", "writeRun"} =>
         runRows[r][s] = <<>> /\ ~unrecorded[r][s]
    /\ callPc[r][s] \notin {"idle", "calling"} => outcome[r][s] \in Results
    /\ callPc[r][s] \in {"readHealth", "writeHealth"} =>
         runRows[r][s] = <<outcome[r][s]>> /\ ~unrecorded[r][s]
    /\ callPc[r][s] = "settled" =>
         \/ runRows[r][s] = <<outcome[r][s]>> /\ ~unrecorded[r][s]
         \/ runRows[r][s] = <<>> /\ unrecorded[r][s] /\ outcome[r][s] # "SUCCESS"

\* Offers are stored when every call has ended, and the search completes with
\* all that deduplication left.
OffersFollowCalls ==
  \A r \in Searches :
    /\ searchPc[r] \in {"persist", "done"} => \A s \in Active(r) : callPc[r][s] = "settled"
    /\ searchPc[r] \in {"start", "suppliers"} => offerRows[r] = {}
    /\ offerRows[r] \subseteq Dedupe(r)
    /\ searchRow[r] = "COMPLETED" => searchPc[r] = "done"
    /\ searchPc[r] = "done" => offerRows[r] = Dedupe(r)

\* Until two searches update a supplier's health at a time, the one that does
\* has read what the row says.
HealthIsRead ==
  \A s \in FlightSuppliers : ~healthOverlap[s] => \A r \in Searches :
    Running(r, s, "writeHealth") =>
      /\ healthRead[r][s] = health[s].errors
      /\ \A other \in Searches : Running(other, s, "writeHealth") => other = r

FlightRowsInv ==
  /\ runRows = [r \in Searches |-> [s \in FlightSuppliers |-> runRows[r][s]]]
  /\ offerRows = [r \in Searches |-> offerRows[r]]
  /\ health = [s \in FlightSuppliers |-> health[s]]

FlightInv ==
  /\ FlightSearchTypeOK /\ FlightRowsInv
  /\ CallsAreRecorded /\ OffersFollowCalls /\ HealthIsRead /\ HealthCountsFailures

-----------------------------------------------------------------------------
(* What deduplication leaves.                                              *)

LEMMA MarketIsTyped ==
  ASSUME FlightSearchTypeOK, NEW r \in Searches
  PROVE  /\ Len(market[r]) \in Nat
         /\ Active(r) \subseteq FlightSuppliers
         /\ \A s \in Active(r) : /\ Rank(r, s) \in 1..Len(market[r])
                                 /\ market[r][Rank(r, s)].supplier = s
                                 /\ \A o \in Answer(r, s) : o.cost \in Nat
<1>1. market \in Markets
  BY DEF FlightSearchTypeOK
<1>2. /\ Len(market[r]) \in Nat
      /\ \A i \in 1..Len(market[r]) : /\ market[r][i].supplier \in FlightSuppliers
                                      /\ \A o \in market[r][i].offers : o.cost \in Nat
  BY <1>1, FlightSearchAssumption
<1>3. ASSUME NEW s \in Active(r)
      PROVE  Rank(r, s) \in 1..Len(market[r]) /\ market[r][Rank(r, s)].supplier = s
  <2>1. \E i \in 1..Len(market[r]) : market[r][i].supplier = s
    BY DEF Active
  <2> QED BY <2>1 DEF Rank
<1> QED BY <1>2, <1>3 DEF Active, Answer

LEMMA RawOffersAreTyped ==
  ASSUME FlightSearchTypeOK, NEW r \in Searches, NEW p \in RawOffers(r)
  PROVE  /\ p = [supplier |-> p.supplier, product |-> p.product, cost |-> p.cost]
         /\ p.supplier \in Active(r) /\ outcome[r][p.supplier] = "SUCCESS"
         /\ p.cost \in Nat /\ Rank(r, p.supplier) \in Nat
<1>1. PICK s \in {x \in Active(r) : outcome[r][x] = "SUCCESS"} :
        p \in {[supplier |-> s, product |-> o.product, cost |-> o.cost] : o \in Answer(r, s)}
  BY DEF RawOffers
<1>2. PICK o \in Answer(r, s) : p = [supplier |-> s, product |-> o.product, cost |-> o.cost]
  BY <1>1
<1>3. o.cost \in Nat /\ Rank(r, s) \in Nat
  BY <1>1, MarketIsTyped
<1> QED BY <1>1, <1>2, <1>3

\* An offer for which there is no room has been beaten by one that is kept.
LEMMA DedupeKeepsCheapest ==
  ASSUME FlightSearchTypeOK, NEW r \in Searches, NEW o \in RawOffers(r)
  PROVE  \E p \in Dedupe(r) : p.product = o.product /\ p.cost <= o.cost
<1> DEFINE Same == {q \in RawOffers(r) : q.product = o.product}
           Costs == {q.cost : q \in Same}
<1>1. o \in Same /\ Costs # {} /\ Costs \in SUBSET Nat
  BY RawOffersAreTyped
<1>2. PICK cost \in Costs : \A y \in Costs : cost <= y
  BY <1>1, LeastNatural
<1> DEFINE Cheapest == {q \in Same : q.cost = cost}
           Ranks == {Rank(r, q.supplier) : q \in Cheapest}
<1>3. Ranks # {} /\ Ranks \in SUBSET Nat
  BY <1>2, RawOffersAreTyped
<1>4. PICK rank \in Ranks : \A y \in Ranks : rank <= y
  BY <1>3, LeastNatural
<1>5. PICK p \in Cheapest : Rank(r, p.supplier) = rank
  BY <1>4
<1>6. p \in RawOffers(r) /\ p.product = o.product /\ p.cost = cost /\ cost <= o.cost
  BY <1>1, <1>2, <1>5
<1>7. ASSUME NEW q \in RawOffers(r), q.product = p.product
      PROVE  p.cost < q.cost \/ (p.cost = q.cost /\ Rank(r, p.supplier) <= Rank(r, q.supplier))
  <2>1. q \in Same /\ q.cost \in Nat /\ p.cost \in Nat /\ p.cost <= q.cost
    BY <1>2, <1>6, <1>7, RawOffersAreTyped
  <2>2. q.cost = cost => Rank(r, q.supplier) \in Ranks
    BY <2>1
  <2>3. q.cost = cost => Rank(r, p.supplier) <= Rank(r, q.supplier)
    BY <1>4, <1>5, <2>2
  <2> HIDE DEF Same, Costs, Cheapest, Ranks
  <2> QED BY <1>6, <2>1, <2>3
<1> QED BY <1>6, <1>7 DEF Dedupe

LEMMA DedupeKeepsOne ==
  ASSUME FlightSearchTypeOK, NEW r \in Searches, NEW p \in Dedupe(r), NEW q \in Dedupe(r),
         p.product = q.product
  PROVE  p = q
<1> SUFFICES ASSUME p # q PROVE FALSE
  OBVIOUS
<1>1. p \in RawOffers(r) /\ q \in RawOffers(r)
  BY DEF Dedupe
<1>2. /\ p.cost \in Nat /\ q.cost \in Nat
      /\ Rank(r, p.supplier) \in Nat /\ Rank(r, q.supplier) \in Nat
  BY <1>1, RawOffersAreTyped
<1>3. /\ p.cost < q.cost \/ (p.cost = q.cost /\ Rank(r, p.supplier) <= Rank(r, q.supplier))
      /\ q.cost < p.cost \/ (q.cost = p.cost /\ Rank(r, q.supplier) <= Rank(r, p.supplier))
  BY <1>1 DEF Dedupe
<1>4. p.cost = q.cost /\ Rank(r, p.supplier) = Rank(r, q.supplier)
  BY <1>2, <1>3
<1>5. p.supplier = q.supplier
  BY <1>1, <1>4, RawOffersAreTyped, MarketIsTyped
<1> QED BY <1>1, <1>4, <1>5, RawOffersAreTyped

LEMMA DedupeDepends ==
  ASSUME NEW r \in Searches, market' = market, outcome'[r] = outcome[r]
  PROVE  Active(r)' = Active(r) /\ RawOffers(r)' = RawOffers(r) /\ Dedupe(r)' = Dedupe(r)
<1>1. Active(r)' = Active(r) /\ \A s : Rank(r, s)' = Rank(r, s)
  BY DEF Active, Rank
<1>2. \A s : Answer(r, s)' = Answer(r, s)
  BY <1>1 DEF Answer, Rank
<1>3. RawOffers(r)' = RawOffers(r)
  BY <1>1, <1>2 DEF RawOffers
<1> QED BY <1>1, <1>3 DEF Dedupe
-----------------------------------------------------------------------------
(* The steps.                                                              *)

LEMMA FlightSearchInitInv == FlightSearchInit => FlightInv
<1> SUFFICES ASSUME FlightSearchInit PROVE FlightInv
  OBVIOUS
<1> USE DEF FlightSearchInit
<1>1. failures \in [FlightSuppliers -> Nat]
  BY FlightSearchAssumption
<1>2. FlightSearchTypeOK
  BY <1>1 DEF FlightSearchTypeOK
<1>3. FlightRowsInv
  BY DEF FlightRowsInv
<1>4. CallsAreRecorded
  BY DEF CallsAreRecorded
<1>5. OffersFollowCalls
  BY DEF OffersFollowCalls
<1>6. HealthIsRead
  BY DEF HealthIsRead, Running
<1>7. HealthCountsFailures
  BY <1>1 DEF HealthCountsFailures
<1> QED BY <1>2, <1>3, <1>4, <1>5, <1>6, <1>7 DEF FlightInv

\* A step of one call to a supplier stores no offers.
LEMMA CallStoresNothing ==
  ASSUME FlightInv, NEW r \in Searches, searchPc[r] = "suppliers",
         UNCHANGED <<market, searchRow, searchPc, offerRows>>,
         \A other \in Searches \ {r} :
           outcome'[other] = outcome[other] /\ callPc'[other] = callPc[other]
  PROVE  /\ OffersFollowCalls'
         /\ \A other \in Searches : offerRows'[other] \subseteq RawOffers(other)'
<1>1. ASSUME NEW other \in Searches \ {r}
      PROVE  /\ Active(other)' = Active(other) /\ Dedupe(other)' = Dedupe(other)
             /\ RawOffers(other)' = RawOffers(other)
  BY DedupeDepends
<1>2. offerRows[r] = {} /\ searchRow[r] # "COMPLETED"
  BY DEF FlightInv, OffersFollowCalls
<1>3. OffersFollowCalls'
  <2> SUFFICES ASSUME NEW o \in Searches
               PROVE  /\ searchPc[o] \in {"persist", "done"} =>
                           \A s \in Active(o)' : callPc'[o][s] = "settled"
                      /\ searchPc[o] \in {"start", "suppliers"} => offerRows[o] = {}
                      /\ offerRows[o] \subseteq Dedupe(o)'
                      /\ searchRow[o] = "COMPLETED" => searchPc[o] = "done"
                      /\ searchPc[o] = "done" => offerRows[o] = Dedupe(o)'
    BY DEF OffersFollowCalls
  <2>1. CASE o = r
    BY <1>2, <2>1 DEF FlightInv, OffersFollowCalls
  <2>2. CASE o # r
    BY <1>1, <2>2 DEF FlightInv, OffersFollowCalls
  <2> QED BY <2>1, <2>2
<1>4. \A other \in Searches : offerRows[other] \subseteq RawOffers(other)
  BY DEF FlightInv, FlightSearchTypeOK
<1> QED BY <1>1, <1>2, <1>3, <1>4

\* A step that neither writes nor begins to write health.
LEMMA HealthUntouched ==
  ASSUME FlightInv, UNCHANGED <<health, healthOverlap, failures>>,
         \A r \in Searches, s \in FlightSuppliers : Running(r, s, "writeHealth")' =>
           Running(r, s, "writeHealth") /\ healthRead'[r][s] = healthRead[r][s]
  PROVE  HealthIsRead' /\ HealthCountsFailures'
BY DEF FlightInv, HealthIsRead, HealthCountsFailures

LEMMA StartSearchKeeps ==
  ASSUME FlightInv, NEW r \in Searches, StartSearch(r)
  PROVE  FlightInv'
<1> USE DEF FlightInv, searchHistory, StartSearch
<1>1. \A other \in Searches \ {r} : callPc'[other] = callPc[other]
  BY DEF FlightSearchTypeOK
<1>2. \A s \in FlightSuppliers : callPc'[r][s] \in {"idle", "calling"} /\ callPc[r][s] = "idle"
  BY DEF FlightSearchTypeOK, CallsAreRecorded
<1>3. \A other \in Searches : /\ Active(other)' = Active(other) /\ Dedupe(other)' = Dedupe(other)
                              /\ RawOffers(other)' = RawOffers(other)
  BY DedupeDepends
<1>4. FlightSearchTypeOK'
  BY <1>3 DEF FlightSearchTypeOK
<1>5. CallsAreRecorded'
  BY <1>1, <1>2 DEF CallsAreRecorded, FlightSearchTypeOK
<1>6. OffersFollowCalls'
  BY <1>1, <1>3 DEF OffersFollowCalls, FlightSearchTypeOK
<1>7. HealthIsRead' /\ HealthCountsFailures'
  BY <1>1, <1>2, HealthUntouched DEF Running, FlightSearchTypeOK
<1> QED BY <1>4, <1>5, <1>6, <1>7 DEF FlightRowsInv

LEMMA SettleKeeps ==
  ASSUME FlightInv, NEW r \in Searches, NEW s \in FlightSuppliers, NEW result \in Results,
         Running(r, s, "calling"), Settle(r, s, result)
  PROVE  FlightInv'
<1> USE DEF FlightInv, searchHistory, Settle, Running
<1>1. \A o \in Searches, t \in FlightSuppliers :
        /\ callPc'[o][t] = IF o = r /\ t = s THEN "writeRun" ELSE callPc[o][t]
        /\ outcome'[o][t] = IF o = r /\ t = s THEN result ELSE outcome[o][t]
  BY DEF FlightSearchTypeOK
<1>2. \A other \in Searches \ {r} : outcome'[other] = outcome[other] /\ callPc'[other] = callPc[other]
  BY DEF FlightSearchTypeOK
<1>3. FlightSearchTypeOK'
  BY <1>2, CallStoresNothing DEF FlightSearchTypeOK
<1>4. CallsAreRecorded'
  BY <1>1 DEF CallsAreRecorded
<1>5. HealthIsRead' /\ HealthCountsFailures'
  BY <1>1, HealthUntouched
<1> QED BY <1>2, <1>3, <1>4, <1>5, CallStoresNothing DEF FlightRowsInv

LEMMA WriteRunKeeps ==
  ASSUME FlightInv, NEW r \in Searches, NEW s \in FlightSuppliers, WriteRun(r, s)
  PROVE  FlightInv'
<1> USE DEF FlightInv, searchHistory, WriteRun, Running
<1>1. \A o \in Searches, t \in FlightSuppliers :
        callPc'[o][t] = IF o = r /\ t = s THEN "readHealth" ELSE callPc[o][t]
  BY DEF FlightSearchTypeOK
<1>2. /\ runRows[r][s] = <<>> /\ outcome[r][s] \in Results
      /\ Append(runRows[r][s], outcome[r][s]) = <<outcome[r][s]>>
  <2>1. runRows[r][s] = <<>> /\ outcome[r][s] \in Results
    BY DEF CallsAreRecorded
  <2>2. \A x : Append(<<>>, x) = <<x>>
    OBVIOUS
  <2> QED BY <2>1, <2>2
<1>3. \A o \in Searches, t \in FlightSuppliers :
        runRows'[o][t] = IF o = r /\ t = s THEN <<outcome[r][s]>> ELSE runRows[o][t]
  BY <1>2 DEF FlightRowsInv
<1>4. \A other \in Searches \ {r} : outcome'[other] = outcome[other] /\ callPc'[other] = callPc[other]
  BY DEF FlightSearchTypeOK
<1>5. FlightSearchTypeOK'
  <2>1. <<outcome[r][s]>> \in Seq(Results)
    BY <1>2
  <2> QED BY <1>3, <1>4, <2>1, CallStoresNothing DEF FlightSearchTypeOK
<1>6. CallsAreRecorded'
  BY <1>1, <1>2, <1>3 DEF CallsAreRecorded
<1>7. HealthIsRead' /\ HealthCountsFailures'
  BY <1>1, HealthUntouched
<1> QED BY <1>4, <1>5, <1>6, <1>7, CallStoresNothing DEF FlightRowsInv

LEMMA RunRowFailsKeeps ==
  ASSUME FlightInv, NEW r \in Searches, NEW s \in FlightSuppliers, RunRowFails(r, s)
  PROVE  FlightInv'
<1> USE DEF FlightInv, searchHistory, RunRowFails, Running
<1>1. outcome[r][s] \in Results /\ runRows[r][s] = <<>>
  BY DEF CallsAreRecorded
<1>2. \A other \in Searches \ {r} : outcome'[other] = outcome[other] /\ callPc'[other] = callPc[other]
  BY DEF FlightSearchTypeOK
<1>3. \A o \in Searches, t \in FlightSuppliers :
        o # r \/ t # s => /\ callPc'[o][t] = callPc[o][t] /\ outcome'[o][t] = outcome[o][t]
                          /\ unrecorded'[o][t] = unrecorded[o][t]
  BY DEF FlightSearchTypeOK
<1>4. FlightSearchTypeOK'
  <2>1. searchPc[r] = "suppliers" /\ UNCHANGED <<market, searchRow, searchPc, offerRows>>
    OBVIOUS
  <2>2. \A other \in Searches : offerRows'[other] \subseteq RawOffers(other)'
    BY <1>2, <2>1, CallStoresNothing
  <2>3. outcome' \in [Searches -> [FlightSuppliers -> Results \cup {"none"}]]
    <3>1. CASE outcome' = outcome
      BY <3>1 DEF FlightSearchTypeOK
    <3>2. CASE outcome' = [outcome EXCEPT ![r][s] = "ERROR"]
      BY <3>2 DEF FlightSearchTypeOK, Results
    <3> QED BY <3>1, <3>2
  <2>4. /\ callPc' \in [Searches -> [FlightSuppliers ->
              {"idle", "calling", "writeRun", "readHealth", "writeHealth", "settled"}]]
        /\ unrecorded' \in [Searches -> [FlightSuppliers -> BOOLEAN]]
    <3>1. CASE callPc' = callPc /\ unrecorded' = unrecorded
      BY <3>1 DEF FlightSearchTypeOK
    <3>2. CASE /\ callPc' = [callPc EXCEPT ![r][s] = "settled"]
               /\ unrecorded' = [unrecorded EXCEPT ![r][s] = TRUE]
      BY <3>2 DEF FlightSearchTypeOK
    <3> QED BY <3>1, <3>2
  <2> QED BY <2>2, <2>3, <2>4 DEF FlightSearchTypeOK
<1>5. CallsAreRecorded'
  <2>1. CASE outcome[r][s] = "SUCCESS"
    <3>1. outcome'[r][s] = "ERROR" /\ callPc'[r][s] = "writeRun" /\ unrecorded' = unrecorded
      BY <2>1 DEF FlightSearchTypeOK
    <3> QED BY <1>3, <3>1 DEF CallsAreRecorded, Results
  <2>2. CASE outcome[r][s] # "SUCCESS"
    <3>1. outcome' = outcome /\ callPc'[r][s] = "settled" /\ unrecorded'[r][s] = TRUE
      BY <2>2 DEF FlightSearchTypeOK
    <3> QED BY <1>1, <1>3, <2>2, <3>1 DEF CallsAreRecorded
  <2> QED BY <2>1, <2>2
<1>6. HealthIsRead' /\ HealthCountsFailures'
  <2>1. callPc'[r][s] # "writeHealth"
    BY DEF FlightSearchTypeOK
  <2> QED BY <1>3, <2>1, HealthUntouched
<1> QED BY <1>2, <1>4, <1>5, <1>6, CallStoresNothing DEF FlightRowsInv

LEMMA ReadHealthKeeps ==
  ASSUME FlightInv, NEW r \in Searches, NEW s \in FlightSuppliers, ReadHealth(r, s)
  PROVE  FlightInv'
<1> USE DEF FlightInv, searchHistory, ReadHealth
<1>1. searchPc[r] = "suppliers" /\ callPc[r][s] = "readHealth"
  BY DEF Running
<1>2. \A o \in Searches, t \in FlightSuppliers :
        /\ callPc'[o][t] = IF o = r /\ t = s THEN "writeHealth" ELSE callPc[o][t]
        /\ healthRead'[o][t] = IF o = r /\ t = s THEN health[s].errors ELSE healthRead[o][t]
  BY DEF FlightSearchTypeOK
<1>3. \A other \in Searches \ {r} : outcome'[other] = outcome[other] /\ callPc'[other] = callPc[other]
  BY DEF FlightSearchTypeOK
<1>4. /\ healthOverlap' \in [FlightSuppliers -> BOOLEAN]
      /\ \A t \in FlightSuppliers \ {s} : healthOverlap'[t] = healthOverlap[t]
      /\ ~healthOverlap'[s] => /\ ~healthOverlap[s]
                               /\ \A other \in Searches \ {r} : ~Running(other, s, "writeHealth")
  BY DEF FlightSearchTypeOK
<1>5. FlightSearchTypeOK'
  BY <1>1, <1>3, <1>4, CallStoresNothing DEF FlightSearchTypeOK
<1>6. CallsAreRecorded'
  BY <1>1, <1>2 DEF CallsAreRecorded
<1>7. HealthIsRead'
  BY <1>1, <1>2, <1>4 DEF HealthIsRead, Running
<1>8. HealthCountsFailures'
  BY <1>4 DEF HealthCountsFailures
<1> QED BY <1>1, <1>3, <1>5, <1>6, <1>7, <1>8, CallStoresNothing DEF FlightRowsInv

LEMMA HealthAfterCounts ==
  ASSUME NEW result \in Results, NEW errors \in Nat
  PROVE  LET after == HealthAfter(result, errors)
             count == IF result = "SUCCESS" THEN 0 ELSE errors + 1
         IN /\ after.status \in {"none", "ONLINE", "DEGRADED", "TIMEOUT", "OFFLINE"}
            /\ after.errors = count /\ count \in Nat
            /\ after.status = "OFFLINE" => count >= 3
            /\ after.status = "DEGRADED" => count \in 1..2
BY DEF HealthAfter, Results

LEMMA WriteHealthKeeps ==
  ASSUME FlightInv, NEW r \in Searches, NEW s \in FlightSuppliers, WriteHealth(r, s)
  PROVE  FlightInv'
<1> USE DEF FlightInv, searchHistory, WriteHealth
<1>1. /\ searchPc[r] = "suppliers" /\ callPc[r][s] = "writeHealth"
      /\ outcome[r][s] \in Results /\ healthRead[r][s] \in Nat /\ failures[s] \in Nat
  BY DEF Running, CallsAreRecorded, FlightSearchTypeOK
<1>2. \A o \in Searches, t \in FlightSuppliers :
        /\ callPc'[o][t] = IF o = r /\ t = s THEN "settled" ELSE callPc[o][t]
        /\ healthRead'[o][t] = IF o = r /\ t = s THEN 0 ELSE healthRead[o][t]
  BY DEF FlightSearchTypeOK
<1>3. \A other \in Searches \ {r} : outcome'[other] = outcome[other] /\ callPc'[other] = callPc[other]
  BY DEF FlightSearchTypeOK
<1> DEFINE after == HealthAfter(outcome[r][s], healthRead[r][s])
<1>4. \A t \in FlightSuppliers :
        /\ health'[t] = IF t = s THEN after ELSE health[t]
        /\ failures'[t] = IF t = s
              THEN (IF outcome[r][s] = "SUCCESS" THEN 0 ELSE failures[s] + 1) ELSE failures[t]
  BY DEF FlightRowsInv, FlightSearchTypeOK
<1> HIDE DEF after
<1>5. /\ after.status \in {"none", "ONLINE", "DEGRADED", "TIMEOUT", "OFFLINE"}
      /\ after.errors \in Nat
  BY <1>1, HealthAfterCounts DEF after
<1>6. FlightSearchTypeOK'
  <2>1. failures' \in [FlightSuppliers -> Nat] /\ healthRead' \in [Searches -> [FlightSuppliers -> Nat]]
    BY <1>1 DEF FlightSearchTypeOK
  <2> QED BY <1>1, <1>3, <1>4, <1>5, <2>1, CallStoresNothing DEF FlightSearchTypeOK
<1>7. CallsAreRecorded'
  BY <1>1, <1>2 DEF CallsAreRecorded
<1>8. HealthIsRead'
  <2>1. ~healthOverlap[s] => \A o \in Searches : Running(o, s, "writeHealth") => o = r
    BY <1>1 DEF HealthIsRead, Running
  <2>2. \A o \in Searches, t \in FlightSuppliers :
          Running(o, t, "writeHealth")' => Running(o, t, "writeHealth") /\ ~(o = r /\ t = s)
    BY <1>2 DEF Running
  <2>3. \A o \in Searches, t \in FlightSuppliers :
          Running(o, t, "writeHealth")' /\ ~healthOverlap[t] => t # s
    BY <2>1, <2>2
  <2> QED BY <1>2, <1>4, <2>2, <2>3 DEF HealthIsRead
<1>9. HealthCountsFailures'
  <2>1. ~healthOverlap[s] => healthRead[r][s] = failures[s]
    BY <1>1 DEF HealthIsRead, HealthCountsFailures, Running
  <2>2. ~healthOverlap[s] => /\ after.errors = failures'[s]
                             /\ after.status = "OFFLINE" => failures'[s] >= 3
                             /\ after.status = "DEGRADED" => failures'[s] \in 1..2
    BY <1>1, <1>4, <2>1, HealthAfterCounts DEF after
  <2> QED BY <1>4, <2>2 DEF HealthCountsFailures
<1> QED BY <1>1, <1>3, <1>6, <1>7, <1>8, <1>9, CallStoresNothing DEF FlightRowsInv

LEMMA HealthFailsKeeps ==
  ASSUME FlightInv, NEW r \in Searches, NEW s \in FlightSuppliers, HealthFails(r, s)
  PROVE  FlightInv'
<1> USE DEF FlightInv, searchHistory, HealthFails
<1>1. searchPc[r] = "suppliers" /\ callPc[r][s] \in {"readHealth", "writeHealth"}
  BY DEF Running
<1>2. \A o \in Searches, t \in FlightSuppliers :
        /\ callPc'[o][t] = IF o = r /\ t = s THEN "settled" ELSE callPc[o][t]
        /\ healthRead'[o][t] = IF o = r /\ t = s THEN 0 ELSE healthRead[o][t]
  BY DEF FlightSearchTypeOK
<1>3. \A other \in Searches \ {r} : outcome'[other] = outcome[other] /\ callPc'[other] = callPc[other]
  BY DEF FlightSearchTypeOK
<1>4. FlightSearchTypeOK'
  BY <1>1, <1>3, CallStoresNothing DEF FlightSearchTypeOK, searchHistory
<1>5. CallsAreRecorded'
  BY <1>1, <1>2 DEF CallsAreRecorded, searchHistory
<1>6. HealthIsRead' /\ HealthCountsFailures'
  BY <1>2, HealthUntouched DEF Running, searchHistory
<1> QED BY <1>1, <1>3, <1>4, <1>5, <1>6, CallStoresNothing DEF FlightRowsInv

\* The steps of the search itself change no call.
LEMMA SearchStepKeeps ==
  ASSUME FlightInv, NEW r \in Searches, SearchStep(r) \/ SearchDies(r)
  PROVE  FlightInv'
<1> USE DEF FlightInv, SearchStep
<1>1. UNCHANGED <<market, callPc, outcome, runRows, health, healthRead, searchHistory>>
  BY DEF AllSettled, PersistOffer, CompleteSearch, SearchDies
<1>2. \A o \in Searches : /\ Active(o)' = Active(o) /\ Dedupe(o)' = Dedupe(o)
                          /\ RawOffers(o)' = RawOffers(o)
  BY <1>1, DedupeDepends
<1>3. /\ searchPc' \in [Searches -> {"start", "suppliers", "persist", "done", "dead"}]
      /\ searchRow' \in [Searches -> {"none", "PENDING", "COMPLETED"}]
  BY DEF AllSettled, PersistOffer, CompleteSearch, SearchDies, FlightSearchTypeOK
<1>4. \A o \in Searches : offerRows'[o] \subseteq Dedupe(o)
  BY DEF AllSettled, PersistOffer, CompleteSearch, SearchDies, OffersFollowCalls, FlightRowsInv
<1>5. FlightSearchTypeOK'
  <2>1. \A o \in Searches : Dedupe(o) \subseteq RawOffers(o)
    BY DEF Dedupe
  <2> QED BY <1>1, <1>2, <1>3, <1>4, <2>1 DEF FlightSearchTypeOK, searchHistory
<1>6. \A o \in Searches : searchPc'[o] \in {"start", "suppliers"} => searchPc[o] = searchPc'[o]
  BY DEF AllSettled, PersistOffer, CompleteSearch, SearchDies, FlightSearchTypeOK
<1>7. CallsAreRecorded'
  BY <1>1, <1>6 DEF CallsAreRecorded, searchHistory
<1>8. OffersFollowCalls'
  <2> SUFFICES ASSUME NEW o \in Searches
               PROVE  /\ searchPc'[o] \in {"persist", "done"} =>
                           \A s \in Active(o) : callPc[o][s] = "settled"
                      /\ searchPc'[o] \in {"start", "suppliers"} => offerRows'[o] = {}
                      /\ searchRow'[o] = "COMPLETED" => searchPc'[o] = "done"
                      /\ searchPc'[o] = "done" => offerRows'[o] = Dedupe(o)
    BY <1>1, <1>2, <1>4 DEF OffersFollowCalls
  <2>1. /\ searchPc[o] \in {"persist", "done"} => \A s \in Active(o) : callPc[o][s] = "settled"
        /\ searchPc[o] \in {"start", "suppliers"} => offerRows[o] = {}
        /\ searchRow[o] = "COMPLETED" => searchPc[o] = "done"
        /\ searchPc[o] = "done" => offerRows[o] = Dedupe(o)
    BY DEF OffersFollowCalls
  <2>2. CASE o # r
    <3>1. searchPc'[o] = searchPc[o] /\ searchRow'[o] = searchRow[o] /\ offerRows'[o] = offerRows[o]
      BY <2>2 DEF AllSettled, PersistOffer, CompleteSearch, SearchDies, FlightSearchTypeOK,
         FlightRowsInv
    <3> QED BY <2>1, <3>1
  <2>3. CASE o = r
    <3>1. DOMAIN searchPc = Searches /\ DOMAIN searchRow = Searches
      BY DEF FlightSearchTypeOK
    <3>2. AllSettled(r) => /\ searchPc[r] = "suppliers" /\ searchPc'[r] = "persist"
                           /\ searchRow'[r] = searchRow[r]
                           /\ \A s \in Active(r) : callPc[r][s] = "settled"
      BY <3>1 DEF AllSettled
    <3>3. PersistOffer(r) => searchPc[r] = "persist" /\ UNCHANGED <<searchPc, searchRow>>
      BY DEF PersistOffer
    <3>4. CompleteSearch(r) => /\ searchPc[r] = "persist" /\ searchPc'[r] = "done"
                               /\ offerRows'[r] = Dedupe(r)
      BY <3>1 DEF CompleteSearch
    <3>5. SearchDies(r) => /\ searchPc[r] \in {"suppliers", "persist"} /\ searchPc'[r] = "dead"
                           /\ searchRow'[r] = searchRow[r]
      BY <3>1 DEF SearchDies
    <3> QED BY <2>1, <2>3, <3>2, <3>3, <3>4, <3>5
  <2> QED BY <2>2, <2>3
<1>9. HealthIsRead' /\ HealthCountsFailures'
  BY <1>1, <1>6, HealthUntouched DEF Running, searchHistory
<1>10. offerRows' = [o \in Searches |-> offerRows'[o]]
  BY DEF AllSettled, PersistOffer, CompleteSearch, SearchDies, FlightRowsInv
<1> QED BY <1>1, <1>5, <1>7, <1>8, <1>9, <1>10 DEF FlightRowsInv

LEMMA FlightSearchStepInv == FlightInv /\ [FlightSearchNext]_flightSearchVars => FlightInv'
<1> SUFFICES ASSUME FlightInv, [FlightSearchNext]_flightSearchVars PROVE FlightInv'
  OBVIOUS
<1>1. CASE UNCHANGED flightSearchVars
  <2> USE <1>1 DEF flightSearchVars, searchHistory, FlightInv
  <2>1. \A o \in Searches : /\ Active(o)' = Active(o) /\ Dedupe(o)' = Dedupe(o)
                            /\ RawOffers(o)' = RawOffers(o)
    BY DedupeDepends
  <2>2. FlightSearchTypeOK'
    BY <2>1 DEF FlightSearchTypeOK
  <2>3. OffersFollowCalls'
    BY <2>1 DEF OffersFollowCalls
  <2> QED BY <2>2, <2>3 DEF FlightRowsInv, CallsAreRecorded, HealthIsRead, HealthCountsFailures,
        Running
<1>2. ASSUME NEW r \in Searches, NEW s \in Active(r),
             \/ SupplierAnswers(r, s) \/ CallStep(r, s)
             \/ RunRowFails(r, s) \/ HealthFails(r, s)
      PROVE  FlightInv'
  <2>1. s \in FlightSuppliers
    BY MarketIsTyped DEF FlightInv
  <2>2. SupplierAnswers(r, s) \/ TimeOut(r, s) => FlightInv'
    BY <2>1, SettleKeeps DEF SupplierAnswers, TimeOut, Results
  <2> QED BY <1>2, <2>1, <2>2, WriteRunKeeps, ReadHealthKeeps, WriteHealthKeeps, RunRowFailsKeeps,
        HealthFailsKeeps DEF CallStep
<1> QED BY <1>1, <1>2, StartSearchKeeps, SearchStepKeeps DEF FlightSearchNext

LEMMA FlightInvSound == FlightInv => FlightSearchTypeOK /\ SearchSound
<1> SUFFICES ASSUME FlightInv PROVE OffersAreTheCheapest /\ EverySupplierIsAccounted
  BY DEF FlightInv, SearchSound
<1> USE DEF FlightInv
<1>1. ASSUME NEW r \in Searches, searchRow[r] = "COMPLETED"
      PROVE  /\ offerRows[r] = Dedupe(r) /\ Active(r) \subseteq FlightSuppliers
             /\ \A s \in Active(r) :
                  \/ runRows[r][s] = <<outcome[r][s]>> /\ ~unrecorded[r][s]
                  \/ runRows[r][s] = <<>> /\ unrecorded[r][s] /\ outcome[r][s] # "SUCCESS"
  BY <1>1, MarketIsTyped DEF OffersFollowCalls, CallsAreRecorded
<1>2. ASSUME NEW r \in Searches, searchRow[r] = "COMPLETED", NEW s \in Active(r)
      PROVE  s \in Succeeded(r) <=> outcome[r][s] = "SUCCESS"
  <2>1. \A x : <<x>> = <<"SUCCESS">> <=> x = "SUCCESS"
    OBVIOUS
  <2>2. <<>> # <<"SUCCESS">>
    OBVIOUS
  <2> QED BY <1>1, <1>2, <2>1, <2>2 DEF Succeeded
<1>3. OffersAreTheCheapest
  <2> SUFFICES ASSUME NEW r \in Searches, searchRow[r] = "COMPLETED"
               PROVE  /\ \A s \in Succeeded(r) : \A o \in Answer(r, s) :
                           \E p \in offerRows[r] : p.product = o.product /\ p.cost <= o.cost
                      /\ \A p, q \in offerRows[r] : p.product = q.product => p = q
                      /\ \A p \in offerRows[r] : p.supplier \in Succeeded(r)
    BY DEF OffersAreTheCheapest
  <2>1. ASSUME NEW s \in Succeeded(r), NEW o \in Answer(r, s)
        PROVE  \E p \in offerRows[r] : p.product = o.product /\ p.cost <= o.cost
    <3> DEFINE raw == [supplier |-> s, product |-> o.product, cost |-> o.cost]
    <3>1. s \in Active(r) /\ outcome[r][s] = "SUCCESS"
      BY <1>2 DEF Succeeded
    <3>2. raw \in RawOffers(r)
      BY <3>1 DEF RawOffers
    <3> QED BY <1>1, <3>2, DedupeKeepsCheapest
  <2>2. \A p, q \in offerRows[r] : p.product = q.product => p = q
    BY <1>1, DedupeKeepsOne
  <2>3. \A p \in offerRows[r] : p.supplier \in Succeeded(r)
    BY <1>1, <1>2, RawOffersAreTyped DEF Dedupe
  <2> QED BY <2>1, <2>2, <2>3
<1>4. EverySupplierIsAccounted
  <2>1. \A x : Len(<<x>>) = 1
    OBVIOUS
  <2>2. Len(<<>>) = 0
    OBVIOUS
  <2> SUFFICES ASSUME NEW r \in Searches, searchRow[r] = "COMPLETED", NEW s \in Active(r)
               PROVE  Len(runRows[r][s]) = IF unrecorded[r][s] THEN 0 ELSE 1
    BY DEF EverySupplierIsAccounted
  <2>3. CASE runRows[r][s] = <<outcome[r][s]>> /\ ~unrecorded[r][s]
    BY <2>1, <2>3
  <2>4. CASE runRows[r][s] = <<>> /\ unrecorded[r][s]
    BY <2>2, <2>4
  <2> QED BY <1>1, <2>3, <2>4
<1> QED BY <1>3, <1>4

\* FlightSearchTypeOK and SearchSound: for any suppliers, markets and searches,
\* whoever answers late, never or fails to be recorded: the offers stored are
\* the cheapest of each product among the answers that came in time, every
\* supplier has its run row, and what is known of a supplier's health is what
\* its counter says.
THEOREM SearchesAlwaysSound == FlightSearchSpec => [](FlightSearchTypeOK /\ SearchSound)
BY FlightSearchInitInv, FlightSearchStepInv, FlightInvSound, PTL DEF FlightSearchSpec
-----------------------------------------------------------------------------
(* Hotel searches (HotelSearch).                                           *)

HotelRun == [status : {"SUCCESS", "PARTIAL", "ERROR"}, offerCount : Nat]

\* No more offers than the properties asked so far can have given.
OffersWithin == offerCount <= (IF hsPc = "store" THEN property ELSE property - 1) * MaxOffers

\* Where the search is: one run row for each adapter before the current one,
\* and at most one failure for each property before the current one.
HotelSearchAt ==
  /\ Len(hotelRuns) = adapter - 1
  /\ hsPc \in {"ask", "store", "sumUp"} => adapter <= Len(HotelAdapters)
  /\ hsPc = "start" => adapter = 1 /\ property = 1 /\ offerCount = 0 /\ failedCalls = 0
  /\ hsPc \in {"ask", "store"} => property <= CityHotels
  /\ hsPc = "done" => adapter = Len(HotelAdapters) + 1
  /\ hsPc = "store" <=> toStore > 0
  /\ failedCalls <= property - 1
  /\ OffersWithin

\* What the current adapter offered is stored, still to be stored, or was
\* dropped with a failure; the adapters after it have nothing.
OffersAddUp ==
  /\ adapter <= Len(HotelAdapters) =>
       /\ storedOffers[adapter] + toStore <= offerCount
       /\ failedCalls = 0 => storedOffers[adapter] + toStore = offerCount
  /\ \A i \in 1..Len(HotelAdapters) : i > adapter => storedOffers[i] = 0

HotelSearchInv == HotelSearchTypeOK /\ HotelSearchAt /\ OffersAddUp /\ RunRowsMatchOffers

LEMMA HotelSearchBounds ==
  /\ Len(HotelAdapters) \in Nat /\ CityHotels \in Nat /\ MaxOffers \in Nat
  /\ HotelAdapters = <<>> <=> Len(HotelAdapters) = 0
BY HotelSearchAssumption, EmptySeq

LEMMA OffersOfProperties ==
  ASSUME NEW p \in Nat, NEW n \in Nat, p <= n
  PROVE  /\ p * MaxOffers \in Nat /\ n * MaxOffers \in Nat /\ p * MaxOffers <= n * MaxOffers
         /\ (p + 1) * MaxOffers = p * MaxOffers + MaxOffers
<1>1. PICK d \in Nat : n = p + d
  <2>1. n - p \in Nat /\ n = p + (n - p)
    OBVIOUS
  <2> QED BY <2>1
<1>2. p * MaxOffers \in Nat /\ d * MaxOffers \in Nat
  BY HotelSearchBounds
<1>3. n * MaxOffers = p * MaxOffers + d * MaxOffers
  BY <1>1, HotelSearchBounds
<1>4. (p + 1) * MaxOffers = p * MaxOffers + MaxOffers
  BY HotelSearchBounds
<1> QED BY <1>2, <1>3, <1>4

LEMMA HotelSearchInitInv == HotelSearchInit => HotelSearchInv
<1> SUFFICES ASSUME HotelSearchInit PROVE HotelSearchInv
  OBVIOUS
<1> USE HotelSearchBounds DEF HotelSearchInit
<1>0. 0 <= CityHotels * MaxOffers /\ CityHotels * MaxOffers \in Nat /\ 0 * MaxOffers = 0
  BY OffersOfProperties
<1>1. HotelSearchTypeOK
  BY <1>0 DEF HotelSearchTypeOK
<1>2. HotelSearchAt
  BY <1>0 DEF HotelSearchAt, OffersWithin
<1>3. OffersAddUp
  BY DEF OffersAddUp
<1>4. RunRowsMatchOffers
  BY DEF RunRowsMatchOffers
<1> QED BY <1>1, <1>2, <1>3, <1>4 DEF HotelSearchInv

\* The run rows and the stored offers unchanged: the rows still match.
LEMMA RowsStay ==
  ASSUME RunRowsMatchOffers, UNCHANGED <<hotelRuns, storedOffers>>
  PROVE  RunRowsMatchOffers'
BY DEF RunRowsMatchOffers

LEMMA BeginHotelSearchInv == HotelSearchInv /\ BeginHotelSearch => HotelSearchInv'
<1> SUFFICES ASSUME HotelSearchInv, BeginHotelSearch PROVE HotelSearchInv'
  OBVIOUS
<1> USE HotelSearchBounds DEF HotelSearchInv, BeginHotelSearch
<1>1. HotelSearchTypeOK'
  BY DEF HotelSearchTypeOK
<1>2. HotelSearchAt'
  BY DEF HotelSearchTypeOK, HotelSearchAt, OffersWithin
<1>3. OffersAddUp'
  BY DEF OffersAddUp
<1> QED BY <1>1, <1>2, <1>3, RowsStay

\* Going on to what comes after a property.
LEMMA NextCallInv ==
  ASSUME HotelSearchInv, hsPc \in {"ask", "store"}, NextCall, toStore' = 0,
         offerCount' \in Nat, offerCount' <= property * MaxOffers,
         failedCalls' \in Nat, failedCalls' <= property,
         UNCHANGED <<adapter, hotelRuns>>, storedOffers' \in [1..Len(HotelAdapters) -> Nat]
  PROVE  HotelSearchTypeOK' /\ HotelSearchAt'
<1> USE HotelSearchBounds DEF HotelSearchInv
<1>0. property \in 1..CityHotels /\ property' \in 2..(CityHotels + 1) /\ property' - 1 = property
  BY DEF HotelSearchTypeOK, HotelSearchAt, OffersWithin, NextCall
<1>1. property * MaxOffers <= CityHotels * MaxOffers /\ property * MaxOffers \in Nat
      /\ CityHotels * MaxOffers \in Nat
  BY <1>0, OffersOfProperties
<1>2. hsPc' \in {"ask", "sumUp"} /\ (hsPc' = "ask" => property' <= CityHotels)
  BY <1>0 DEF NextCall
<1>3. HotelSearchTypeOK'
  <2> DEFINE all == CityHotels * MaxOffers
  <2>1. offerCount' <= all /\ all \in Nat
    BY <1>1
  <2> HIDE DEF all
  <2>2. offerCount' \in 0..all /\ failedCalls' \in 0..CityHotels /\ property' \in 1..(CityHotels + 1)
    BY <1>0, <2>1
  <2> QED BY <1>2, <2>2 DEF HotelSearchTypeOK, all
<1>4. HotelSearchAt'
  <2> DEFINE bound == property * MaxOffers
  <2>1. bound = (property' - 1) * MaxOffers
    BY <1>0
  <2>2. bound \in Nat /\ offerCount' <= bound
    BY <1>1
  <2> HIDE DEF bound
  <2>3. offerCount' <= (IF hsPc' = "store" THEN property' ELSE property' - 1) * MaxOffers
    BY <1>2, <2>1, <2>2
  <2>4. adapter \in 1..(Len(HotelAdapters) + 1) /\ Len(hotelRuns) = adapter - 1
    BY DEF HotelSearchTypeOK, HotelSearchAt, OffersWithin
  <2>5. adapter <= Len(HotelAdapters)
    BY DEF HotelSearchAt, OffersWithin
  <2>6. OffersWithin'
    BY <2>3 DEF OffersWithin
  <2>7. Len(hotelRuns') = adapter' - 1 /\ adapter' <= Len(HotelAdapters)
    BY <2>4, <2>5
  <2>9. hsPc' \notin {"start", "done", "store"} /\ ~(toStore' > 0)
    BY <1>2
  <2>10. failedCalls' <= property' - 1
    BY <1>0
  <2>8. hsPc' = "ask" => property' <= CityHotels
    BY <1>2
  <2> QED BY <2>6, <2>7, <2>8, <2>9, <2>10 DEF HotelSearchAt
<1> QED BY <1>3, <1>4

LEMMA HotelsAnsweredInv == HotelSearchInv /\ HotelsAnswered => HotelSearchInv'
<1> SUFFICES ASSUME HotelSearchInv, hsPc = "ask", NEW n \in 0..MaxOffers,
                    offerCount' = offerCount + n, toStore' = n,
                    IF n > 0 THEN hsPc' = "store" /\ UNCHANGED property ELSE NextCall,
                    UNCHANGED <<adapter, failedCalls, hotelRuns, storedOffers>>
             PROVE  HotelSearchInv'
  BY DEF HotelsAnswered
<1> USE HotelSearchBounds DEF HotelSearchInv
<1>0. /\ property \in 1..CityHotels /\ n \in Nat /\ offerCount \in Nat
      /\ adapter \in 1..Len(HotelAdapters) /\ toStore = 0
      /\ failedCalls \in Nat /\ failedCalls <= property - 1
      /\ storedOffers \in [1..Len(HotelAdapters) -> Nat]
  <2>1. toStore = 0
    BY DEF HotelSearchTypeOK, HotelSearchAt, OffersWithin
  <2> QED BY <2>1, OffersOfProperties DEF HotelSearchTypeOK, HotelSearchAt, OffersWithin
<1>1. /\ (property - 1) * MaxOffers \in Nat /\ property * MaxOffers \in Nat
      /\ property * MaxOffers = (property - 1) * MaxOffers + MaxOffers
      /\ property * MaxOffers <= CityHotels * MaxOffers /\ CityHotels * MaxOffers \in Nat
  <2>1. property - 1 \in Nat /\ (property - 1) + 1 = property
    BY <1>0
  <2>2. /\ (property - 1) * MaxOffers \in Nat
        /\ ((property - 1) + 1) * MaxOffers = (property - 1) * MaxOffers + MaxOffers
    BY <1>0, <2>1, OffersOfProperties
  <2> QED BY <1>0, <2>1, <2>2, OffersOfProperties
<1>2. offerCount' \in Nat /\ offerCount' <= property * MaxOffers
  <2>1. offerCount <= (property - 1) * MaxOffers
    BY DEF HotelSearchAt, OffersWithin
  <2> QED BY <2>1, <1>0, <1>1
<1>3. HotelSearchTypeOK' /\ HotelSearchAt'
  <2>1. CASE n > 0
    <3>1. hsPc' = "store" /\ property' = property
      BY <2>1
    <3>2. HotelSearchTypeOK'
      <4> DEFINE all == CityHotels * MaxOffers
      <4>1. offerCount' \in 0..all
        BY <1>1, <1>2
      <4> HIDE DEF all
      <4>2. toStore' \in 0..MaxOffers
        BY <1>0
      <4> QED BY <4>1, <4>2, <3>1 DEF HotelSearchTypeOK, all
    <3>3. offerCount' <= (IF hsPc' = "store" THEN property' ELSE property' - 1) * MaxOffers
      BY <1>2, <3>1
    <3> QED BY <1>0, <2>1, <3>1, <3>2, <3>3 DEF HotelSearchAt, OffersWithin
  <2>2. CASE ~(n > 0)
    BY <1>0, <1>2, <2>2, NextCallInv
  <2> QED BY <2>1, <2>2
<1>4. OffersAddUp'
  BY <1>0 DEF OffersAddUp
<1> QED BY <1>3, <1>4, RowsStay

LEMMA HotelCallFailsInv == HotelSearchInv /\ HotelCallFails => HotelSearchInv'
<1> SUFFICES ASSUME HotelSearchInv, HotelCallFails PROVE HotelSearchInv'
  OBVIOUS
<1> USE HotelSearchBounds DEF HotelSearchInv, HotelCallFails
<1>0. /\ property \in 1..CityHotels /\ offerCount \in Nat /\ toStore = 0
      /\ adapter \in 1..Len(HotelAdapters)
      /\ failedCalls \in Nat /\ failedCalls <= property - 1
      /\ storedOffers \in [1..Len(HotelAdapters) -> Nat]
  <2>1. toStore = 0
    BY DEF HotelSearchTypeOK, HotelSearchAt, OffersWithin
  <2> QED BY <2>1, OffersOfProperties DEF HotelSearchTypeOK, HotelSearchAt, OffersWithin
<1>1. offerCount <= property * MaxOffers
  <2>1. offerCount <= (property - 1) * MaxOffers
    BY DEF HotelSearchAt, OffersWithin
  <2>2. (property - 1) * MaxOffers <= property * MaxOffers /\ (property - 1) * MaxOffers \in Nat
        /\ property * MaxOffers \in Nat
    BY <1>0, OffersOfProperties
  <2> QED BY <2>1, <2>2, <1>0
<1>2. HotelSearchTypeOK' /\ HotelSearchAt'
  BY <1>0, <1>1, NextCallInv
<1>3. OffersAddUp'
  BY <1>0 DEF OffersAddUp
<1> QED BY <1>2, <1>3, RowsStay

LEMMA StoreHotelOfferInv == HotelSearchInv /\ StoreHotelOffer => HotelSearchInv'
<1> SUFFICES ASSUME HotelSearchInv, StoreHotelOffer PROVE HotelSearchInv'
  OBVIOUS
<1> USE HotelSearchBounds DEF HotelSearchInv, StoreHotelOffer
<1>0. /\ property \in 1..CityHotels /\ offerCount \in Nat /\ toStore \in Nat \ {0}
      /\ toStore <= MaxOffers /\ adapter \in 1..Len(HotelAdapters)
      /\ failedCalls \in Nat /\ failedCalls <= property - 1
      /\ storedOffers \in [1..Len(HotelAdapters) -> Nat]
      /\ offerCount <= property * MaxOffers /\ Len(hotelRuns) = adapter - 1
  <2>1. offerCount \in Nat /\ property \in 1..CityHotels
    BY OffersOfProperties DEF HotelSearchTypeOK, HotelSearchAt, OffersWithin
  <2>2. offerCount <= property * MaxOffers
    BY DEF HotelSearchAt, OffersWithin
  <2> QED BY <2>1, <2>2 DEF HotelSearchTypeOK, HotelSearchAt, OffersWithin
<1>1. /\ storedOffers' \in [1..Len(HotelAdapters) -> Nat]
      /\ storedOffers'[adapter] = storedOffers[adapter] + 1
      /\ \A i \in 1..Len(HotelAdapters) : i # adapter => storedOffers'[i] = storedOffers[i]
  BY <1>0
<1>2. HotelSearchTypeOK' /\ HotelSearchAt'
  <2>1. CASE toStore > 1
    <3>1. hsPc' = "store" /\ property' = property /\ toStore' \in 1..MaxOffers
      BY <2>1, <1>0
    <3>2. HotelSearchTypeOK'
      BY <1>0, <1>1, <3>1 DEF HotelSearchTypeOK
    <3> QED BY <1>0, <3>1, <3>2 DEF HotelSearchAt, OffersWithin
  <2>2. CASE ~(toStore > 1)
    BY <1>0, <1>1, <2>2, NextCallInv
  <2> QED BY <2>1, <2>2
<1>3. OffersAddUp'
  <2>1. toStore' = toStore - 1 /\ UNCHANGED <<adapter, offerCount, failedCalls>>
    OBVIOUS
  <2>2. storedOffers'[adapter] + toStore' = storedOffers[adapter] + toStore
    BY <1>0, <1>1, <2>1
  <2>3. \A i \in 1..Len(HotelAdapters) : i > adapter => storedOffers'[i] = 0
    BY <1>0, <1>1 DEF OffersAddUp
  <2> HIDE DEF StoreHotelOffer, HotelSearchInv
  <2>4. OffersAddUp
    BY DEF HotelSearchInv
  <2> QED BY <2>1, <2>2, <2>3, <2>4 DEF OffersAddUp
<1>4. RunRowsMatchOffers'
  <2>1. \A i \in 1..Len(hotelRuns) : storedOffers'[i] = storedOffers[i]
    BY <1>0, <1>1
  <2> QED BY <2>1 DEF RunRowsMatchOffers
<1> QED BY <1>2, <1>3, <1>4

LEMMA StoreFailsInv == HotelSearchInv /\ StoreFails => HotelSearchInv'
<1> SUFFICES ASSUME HotelSearchInv, StoreFails PROVE HotelSearchInv'
  OBVIOUS
<1> USE HotelSearchBounds DEF HotelSearchInv, StoreFails
<1>0. /\ property \in 1..CityHotels /\ offerCount \in Nat /\ toStore \in Nat \ {0}
      /\ adapter \in 1..Len(HotelAdapters)
      /\ failedCalls \in Nat /\ failedCalls <= property - 1
      /\ storedOffers \in [1..Len(HotelAdapters) -> Nat]
      /\ offerCount <= property * MaxOffers
  <2>1. offerCount \in Nat /\ property \in 1..CityHotels
    BY OffersOfProperties DEF HotelSearchTypeOK, HotelSearchAt, OffersWithin
  <2>2. offerCount <= property * MaxOffers
    BY DEF HotelSearchAt, OffersWithin
  <2> QED BY <2>1, <2>2 DEF HotelSearchTypeOK, HotelSearchAt, OffersWithin
<1>2. HotelSearchTypeOK' /\ HotelSearchAt'
  BY <1>0, NextCallInv
<1>3. OffersAddUp'
  BY <1>0 DEF OffersAddUp
<1> QED BY <1>2, <1>3, RowsStay

LEMMA SumUpInv == HotelSearchInv /\ SumUp => HotelSearchInv'
<1> SUFFICES ASSUME HotelSearchInv, SumUp PROVE HotelSearchInv'
  OBVIOUS
<1> USE HotelSearchBounds DEF HotelSearchInv, SumUp
<1>0. /\ offerCount \in Nat /\ toStore = 0 /\ adapter \in 1..Len(HotelAdapters)
      /\ failedCalls \in Nat /\ CityHotels * MaxOffers \in Nat /\ 0 * MaxOffers = 0
      /\ storedOffers \in [1..Len(HotelAdapters) -> Nat]
      /\ hotelRuns \in Seq(HotelRun) /\ Len(hotelRuns) = adapter - 1
  <2>1. toStore = 0
    BY DEF HotelSearchTypeOK, HotelSearchAt, OffersWithin
  <2> QED BY <2>1, OffersOfProperties DEF HotelSearchTypeOK, HotelSearchAt, OffersWithin, HotelRun
<1> DEFINE row == [status |-> RunStatus, offerCount |-> offerCount]
<1>1. row \in HotelRun /\ row.status = RunStatus /\ row.offerCount = offerCount
  BY <1>0 DEF HotelRun, RunStatus
<1>2. hotelRuns' = Append(hotelRuns, row)
  OBVIOUS
<1> HIDE DEF row
<1>3. /\ hotelRuns' \in Seq(HotelRun) /\ Len(hotelRuns') = adapter
      /\ \A i \in 1..Len(hotelRuns) : hotelRuns'[i] = hotelRuns[i]
      /\ hotelRuns'[adapter] = row
  BY <1>0, <1>1, <1>2, AppendProperties
<1>4. HotelSearchTypeOK'
  <2>1. hsPc' \in {"done", "sumUp", "ask"}
    OBVIOUS
  <2> QED BY <1>0, <1>3, <2>1 DEF HotelSearchTypeOK, HotelRun
<1>5. HotelSearchAt'
  <2>1. hsPc' \in {"done", "sumUp", "ask"} /\ (hsPc' = "done" <=> adapter = Len(HotelAdapters))
        /\ (hsPc' = "ask" => CityHotels # 0)
    OBVIOUS
  <2> QED BY <1>0, <1>3, <2>1 DEF HotelSearchAt, OffersWithin
<1>6. OffersAddUp'
  BY <1>0 DEF OffersAddUp
<1>7. RunRowsMatchOffers'
  <2>1. /\ storedOffers[adapter] <= offerCount
        /\ failedCalls = 0 => storedOffers[adapter] = offerCount
    BY <1>0 DEF OffersAddUp
  <2>2. SUFFICES ASSUME NEW i \in 1..adapter
        PROVE /\ hotelRuns'[i].status = "SUCCESS" => storedOffers[i] = hotelRuns'[i].offerCount
              /\ hotelRuns'[i].status = "ERROR" => storedOffers[i] = 0
              /\ hotelRuns'[i].status = "PARTIAL" => storedOffers[i] <= hotelRuns'[i].offerCount
    BY <1>3 DEF RunRowsMatchOffers
  <2>3. CASE i < adapter
    <3>1. i \in 1..Len(hotelRuns) /\ hotelRuns'[i] = hotelRuns[i]
      BY <2>3, <1>0, <1>3
    <3> QED BY <3>1 DEF RunRowsMatchOffers
  <2>4. CASE i = adapter
    <3>1. hotelRuns'[i].status = RunStatus /\ hotelRuns'[i].offerCount = offerCount
      BY <2>4, <1>1, <1>3
    <3> QED BY <3>1, <2>1, <2>4, <1>0 DEF RunStatus
  <2> QED BY <2>3, <2>4, <1>0
<1> QED BY <1>4, <1>5, <1>6, <1>7

LEMMA SumUpFailsInv == HotelSearchInv /\ SumUpFails => HotelSearchInv'
<1> SUFFICES ASSUME HotelSearchInv, SumUpFails PROVE HotelSearchInv'
  OBVIOUS
<1> USE HotelSearchBounds DEF HotelSearchInv, SumUpFails
<1>1. HotelSearchTypeOK'
  BY DEF HotelSearchTypeOK
<1>2. HotelSearchAt'
  BY DEF HotelSearchTypeOK, HotelSearchAt, OffersWithin
<1>3. OffersAddUp'
  BY DEF OffersAddUp
<1> QED BY <1>1, <1>2, <1>3, RowsStay

LEMMA HotelSearchStep == HotelSearchInv /\ [HotelSearchNext]_hotelSearchVars => HotelSearchInv'
<1>1. HotelSearchInv /\ UNCHANGED hotelSearchVars => HotelSearchInv'
  BY DEF HotelSearchInv, hotelSearchVars, HotelSearchTypeOK, HotelSearchAt, OffersAddUp,
         OffersWithin, RunRowsMatchOffers
<1> QED BY <1>1, BeginHotelSearchInv, HotelsAnsweredInv, HotelCallFailsInv, StoreHotelOfferInv,
           StoreFailsInv, SumUpInv, SumUpFailsInv DEF HotelSearchNext

LEMMA HotelSearchInvSound == HotelSearchInv => HotelSearchTypeOK /\ HotelSearchSound
<1> SUFFICES ASSUME HotelSearchInv PROVE HotelSearchTypeOK /\ HotelSearchSound
  OBVIOUS
<1> USE HotelSearchBounds DEF HotelSearchInv
<1>1. EveryAdapterIsAsked
  BY DEF EveryAdapterIsAsked, HotelSearchAt, OffersWithin, HotelSearchTypeOK
<1> QED BY <1>1 DEF HotelSearchSound

\* HotelSearchTypeOK and HotelSearchSound: for any adapters and hotels, the run
\* rows of a search agree with the offers that were stored, one adapter after
\* the other, also when storing them fails half way.
THEOREM HotelSearchesAlwaysSound == HotelSearchSpec => [](HotelSearchTypeOK /\ HotelSearchSound)
<1>1. HotelSearchSpec => []HotelSearchInv
  BY HotelSearchInitInv, HotelSearchStep, PTL DEF HotelSearchSpec
<1> QED BY <1>1, HotelSearchInvSound, PTL
-----------------------------------------------------------------------------
(* The assistant (Assistant).                                              *)

Message ==
  [role : {"assistant"}, calls : Seq(Calls)] \cup [role : {"user"}, results : Seq(ToolResults)]

\* The results of all the calls of an answer, in their order.
AnswersCalls(given, asked) ==
  Len(given) = Len(asked) /\ \A k \in 1..Len(asked) : given[k].id = k

OwnOnly(given) ==
  \A k \in 1..Len(given) : given[k].owner # Guest /\ given[k].outcome = "found" => given[k].owner = visitor

\* The last message asks for tools that were not all run yet.
CallsOpen == Len(messages) > 0 /\ messages[Len(messages)].role = "assistant"

\* Every answer with calls but an open one is followed by their results.
CallsAreAnswered ==
  \A i \in 1..Len(messages) :
    messages[i].role = "assistant" /\ (i < Len(messages) \/ ~CallsOpen) =>
      /\ i < Len(messages) /\ messages[i + 1].role = "user"
      /\ AnswersCalls(messages[i + 1].results, messages[i].calls)

\* What the tools have answered so far, in the order of the calls.
ResultsFollowCalls ==
  /\ turnStep = "tools" =>
       /\ CallsOpen
       /\ Len(results) <= Len(messages[Len(messages)].calls)
       /\ \A k \in 1..Len(results) : results[k].id = k
  /\ turnStep = "model" => ~CallsOpen

RoundsAreCounted ==
  /\ Cardinality(AnswersWithCalls) = rounds + (IF CallsOpen THEN 1 ELSE 0)
  /\ CallsOpen => rounds < MaxToolIterations
  /\ reply = "unfinished" => rounds = MaxToolIterations /\ turnStep = "ended"

OwnInMessages ==
  /\ OwnOnly(results)
  /\ \A i \in 1..Len(messages) : messages[i].role = "user" => OwnOnly(messages[i].results)

ChatTypes ==
  /\ visitor \in Visitors \cup {Guest}
  /\ turnStep \in {"model", "tools", "ended"}
  /\ rounds \in 0..MaxToolIterations
  /\ messages \in Seq(Message)
  /\ \A i \in 1..Len(messages) : messages[i].role = "assistant" => Len(messages[i].calls) <= MaxCalls
  /\ results \in Seq(ToolResults)
  /\ reply \in {"none", "answer", "unfinished", "trouble"}

ChatInv ==
  ChatTypes /\ CallsAreAnswered /\ ResultsFollowCalls /\ RoundsAreCounted /\ OwnInMessages

LEMMA ChatBounds == MaxToolIterations \in Nat \ {0} /\ MaxCalls \in Nat \ {0} /\ Guest \notin Visitors
BY AssistantAssumption

LEMMA MessageFields ==
  ASSUME NEW m \in Message
  PROVE  /\ m.role \in {"assistant", "user"}
         /\ m.role = "assistant" => m.calls \in Seq(Calls)
         /\ m.role = "user" => m.results \in Seq(ToolResults)
BY DEF Message

LEMMA CallFields ==
  ASSUME NEW c \in Calls
  PROVE  /\ c.tool \in {"look_up", "search", "unknown", "booking_status"}
         /\ c.owner \in Visitors \cup {Guest}
         /\ c.tool # "booking_status" => c.owner = Guest
BY DEF Calls

LEMMA CallsOfAnswers ==
  ASSUME NEW calls \in BoundedSeq(Calls, MaxCalls)
  PROVE  calls \in Seq(Calls) /\ Len(calls) <= MaxCalls
<1>1. PICK n \in 0..MaxCalls : calls \in [1..n -> Calls]
  BY DEF BoundedSeq, SeqOf
<1>2. calls \in Seq(Calls) /\ Len(calls) = n
  BY <1>1, ChatBounds, SeqDef, LenProperties
<1> QED BY <1>2, ChatBounds

LEMMA ChatInitInv == ChatInit => ChatInv
<1> SUFFICES ASSUME ChatInit PROVE ChatInv
  OBVIOUS
<1> USE ChatBounds DEF ChatInit
<1>1. ChatTypes
  BY DEF ChatTypes
<1>2. ~CallsOpen /\ Len(messages) = 0 /\ Len(results) = 0
  BY DEF CallsOpen
<1>3. AnswersWithCalls = {}
  BY <1>2 DEF AnswersWithCalls
<1>4. Cardinality(AnswersWithCalls) = 0
  BY <1>3, FS_EmptySet
<1>5. RoundsAreCounted
  BY <1>2, <1>4 DEF RoundsAreCounted
<1>6. CallsAreAnswered /\ ResultsFollowCalls /\ OwnInMessages
  BY <1>2 DEF CallsAreAnswered, ResultsFollowCalls, OwnInMessages, OwnOnly
<1> QED BY <1>1, <1>5, <1>6 DEF ChatInv

\* The messages as they are: the end of a turn, a tool that throws.
LEMMA SameMessages ==
  ASSUME ChatInv, UNCHANGED <<visitor, rounds, messages, results>>,
         turnStep' = "ended", reply' \in {"answer", "unfinished", "trouble"},
         reply' = "unfinished" => rounds = MaxToolIterations
  PROVE  ChatInv'
<1>1. ChatTypes'
  BY DEF ChatInv, ChatTypes
<1>2. CallsOpen' <=> CallsOpen
  BY DEF CallsOpen
<1>3. AnswersWithCalls' = AnswersWithCalls
  BY DEF AnswersWithCalls
<1>4. CallsAreAnswered'
  BY <1>2 DEF ChatInv, CallsAreAnswered
<1>5. ResultsFollowCalls'
  BY DEF ResultsFollowCalls
<1>6. RoundsAreCounted'
  BY <1>2, <1>3 DEF ChatInv, RoundsAreCounted
<1>7. OwnInMessages'
  BY DEF ChatInv, OwnInMessages, OwnOnly
<1> QED BY <1>1, <1>4, <1>5, <1>6, <1>7 DEF ChatInv

\* The set of answers with calls after a message more.
LEMMA AnswersCounted ==
  ASSUME ChatTypes, NEW m \in Message, messages' = Append(messages, m)
  PROVE  /\ Len(messages') = Len(messages) + 1 /\ Len(messages) \in Nat
         /\ messages' \in Seq(Message)
         /\ \A i \in 1..Len(messages) : messages'[i] = messages[i]
         /\ messages'[Len(messages) + 1] = m
         /\ CallsOpen' <=> m.role = "assistant"
         /\ Cardinality(AnswersWithCalls) \in Nat
         /\ Cardinality(AnswersWithCalls') =
              Cardinality(AnswersWithCalls) + (IF m.role = "assistant" THEN 1 ELSE 0)
<1>1. messages \in Seq(Message) /\ Len(messages) \in Nat
  BY LenProperties DEF ChatTypes
<1>2. /\ Len(messages') = Len(messages) + 1 /\ messages' \in Seq(Message)
      /\ \A i \in 1..Len(messages) : messages'[i] = messages[i]
      /\ messages'[Len(messages) + 1] = m
  BY <1>1, AppendProperties
<1>3. CallsOpen' <=> m.role = "assistant"
  BY <1>1, <1>2 DEF CallsOpen
<1>4. AnswersWithCalls' =
        IF m.role = "assistant" THEN AnswersWithCalls \cup {Len(messages) + 1} ELSE AnswersWithCalls
  <2>1. \A i : i \in 1..Len(messages') <=> i \in 1..Len(messages) \/ i = Len(messages) + 1
    BY <1>1, <1>2
  <2> QED BY <1>2, <2>1 DEF AnswersWithCalls
<1>5. IsFiniteSet(AnswersWithCalls) /\ Len(messages) + 1 \notin AnswersWithCalls
  <2>1. AnswersWithCalls \subseteq 1..Len(messages)
    BY DEF AnswersWithCalls
  <2>2. IsFiniteSet(1..Len(messages))
    BY <1>1, FS_Interval
  <2>3. IsFiniteSet(AnswersWithCalls)
    BY <2>1, <2>2, FS_Subset
  <2>4. Len(messages) + 1 \notin 1..Len(messages)
    BY <1>1
  <2> QED BY <2>1, <2>3, <2>4
<1>6. Cardinality(AnswersWithCalls) \in Nat
      /\ Cardinality(AnswersWithCalls \cup {Len(messages) + 1}) = Cardinality(AnswersWithCalls) + 1
  BY <1>5, FS_CardinalityType, FS_AddElement
<1>7. Cardinality(AnswersWithCalls') =
        Cardinality(AnswersWithCalls) + (IF m.role = "assistant" THEN 1 ELSE 0)
  BY <1>4, <1>6
<1> QED BY <1>1, <1>2, <1>3, <1>6, <1>7

LEMMA ModelAsksInv ==
  ASSUME ChatInv, NEW calls \in BoundedSeq(Calls, MaxCalls), ModelAsks(calls)
  PROVE  ChatInv'
<1> DEFINE m == [role |-> "assistant", calls |-> calls]
<1>1. calls \in Seq(Calls) /\ Len(calls) <= MaxCalls /\ Len(calls) \in Nat
  BY CallsOfAnswers, LenProperties
<1>2. m \in Message /\ m.role = "assistant" /\ m.calls = calls
  BY <1>1 DEF Message
<1>3. /\ turnStep = "model" /\ rounds < MaxToolIterations /\ turnStep' = "tools" /\ results' = <<>>
      /\ messages' = Append(messages, m) /\ UNCHANGED <<visitor, rounds, reply>>
  BY DEF ModelAsks, MayAsk
<1> HIDE DEF m
<1>4. /\ Len(messages') = Len(messages) + 1 /\ Len(messages) \in Nat
      /\ messages' \in Seq(Message)
      /\ \A i \in 1..Len(messages) : messages'[i] = messages[i]
      /\ messages'[Len(messages) + 1] = m
      /\ CallsOpen'
      /\ Cardinality(AnswersWithCalls') = Cardinality(AnswersWithCalls) + 1
  BY <1>2, <1>3, AnswersCounted DEF ChatInv
<1>5. ~CallsOpen /\ Cardinality(AnswersWithCalls) = rounds
  BY <1>3 DEF ChatInv, ResultsFollowCalls, RoundsAreCounted, ChatTypes
<1>6. \A i \in 1..Len(messages') : i \in 1..Len(messages) \/ i = Len(messages) + 1
  BY <1>4
<1>7. ChatTypes'
  <2>1. \A i \in 1..Len(messages') : messages'[i].role = "assistant" => Len(messages'[i].calls) <= MaxCalls
    BY <1>1, <1>2, <1>4, <1>6 DEF ChatInv, ChatTypes
  <2> QED BY <1>3, <1>4, <2>1 DEF ChatInv, ChatTypes
<1>8. CallsAreAnswered'
  <2> SUFFICES ASSUME NEW i \in 1..Len(messages'), messages'[i].role = "assistant",
                      i < Len(messages') \/ ~CallsOpen'
               PROVE  /\ i < Len(messages') /\ messages'[i + 1].role = "user"
                      /\ AnswersCalls(messages'[i + 1].results, messages'[i].calls)
    BY DEF CallsAreAnswered, AnswersCalls
  <2>1. i \in 1..Len(messages) /\ messages'[i] = messages[i]
    BY <1>4
  <2>2. /\ i < Len(messages) /\ messages[i + 1].role = "user"
        /\ AnswersCalls(messages[i + 1].results, messages[i].calls)
    BY <2>1, <1>5 DEF ChatInv, CallsAreAnswered
  <2>3. messages'[i + 1] = messages[i + 1]
    BY <2>1, <2>2, <1>4
  <2>4. i < Len(messages')
    BY <2>2, <1>4
  <2> QED BY <2>1, <2>2, <2>3, <2>4
<1>9. ResultsFollowCalls'
  <2>1. Len(results') = 0 /\ messages'[Len(messages')].calls = calls
    BY <1>2, <1>3, <1>4
  <2> QED BY <1>1, <1>3, <1>4, <2>1 DEF ResultsFollowCalls
<1>10. RoundsAreCounted'
  <2>1. reply # "unfinished"
    BY <1>3 DEF ChatInv, RoundsAreCounted
  <2> QED BY <2>1, <1>3, <1>4, <1>5 DEF RoundsAreCounted
<1>11. OwnInMessages'
  <2>1. OwnOnly(results)'
    BY <1>3 DEF OwnOnly
  <2>2. \A i \in 1..Len(messages') : messages'[i].role = "user" =>
           i \in 1..Len(messages) /\ messages'[i] = messages[i]
    BY <1>2, <1>4, <1>6
  <2> QED BY <1>3, <2>1, <2>2 DEF ChatInv, OwnInMessages, OwnOnly
<1> QED BY <1>7, <1>8, <1>9, <1>10, <1>11 DEF ChatInv

\* The open answer, while its tools run.
LEMMA OpenAnswer ==
  ASSUME ChatInv, turnStep = "tools"
  PROVE  /\ AskedCalls = messages[Len(messages)].calls /\ CallsOpen
         /\ Len(messages) \in Nat \ {0}
         /\ AskedCalls \in Seq(Calls) /\ Len(AskedCalls) <= MaxCalls /\ Len(AskedCalls) \in Nat
         /\ results \in Seq(ToolResults) /\ Len(results) \in Nat
         /\ Len(results) <= Len(AskedCalls)
         /\ \A k \in 1..Len(results) : results[k].id = k
         /\ rounds < MaxToolIterations /\ rounds \in Nat
         /\ Cardinality(AnswersWithCalls) = rounds + 1
<1>1. CallsOpen /\ messages \in Seq(Message) /\ results \in Seq(ToolResults)
  BY DEF ChatInv, ResultsFollowCalls, ChatTypes
<1>2. Len(messages) \in Nat \ {0} /\ messages[Len(messages)] \in Message
      /\ messages[Len(messages)].role = "assistant"
  BY <1>1, LenProperties DEF CallsOpen
<1>3. AskedCalls = messages[Len(messages)].calls
  BY DEF AskedCalls, Last
<1>4. AskedCalls \in Seq(Calls) /\ Len(AskedCalls) <= MaxCalls /\ Len(AskedCalls) \in Nat
  BY <1>2, <1>3, MessageFields, LenProperties DEF ChatInv, ChatTypes
<1>5. /\ Len(results) <= Len(AskedCalls) /\ \A k \in 1..Len(results) : results[k].id = k
  BY <1>3 DEF ChatInv, ResultsFollowCalls
<1>6. rounds < MaxToolIterations /\ rounds \in Nat /\ Cardinality(AnswersWithCalls) = rounds + 1
  BY <1>1, ChatBounds DEF ChatInv, RoundsAreCounted, ChatTypes
<1> QED BY <1>1, <1>2, <1>3, <1>4, <1>5, <1>6, LenProperties

LEMMA ToolAnswersInv == ChatInv /\ ToolAnswers => ChatInv'
<1> SUFFICES ASSUME ChatInv, turnStep = "tools", Len(results) < Len(AskedCalls),
                    NEW came \in Outcomes(NextTool),
                    results' = Append(results,
                      [id |-> Len(results) + 1, outcome |-> came, owner |-> NextTool.owner]),
                    UNCHANGED <<visitor, turnStep, rounds, messages, reply>>
             PROVE  ChatInv'
  BY DEF ToolAnswers
<1> DEFINE r == [id |-> Len(results) + 1, outcome |-> came, owner |-> NextTool.owner]
<1>1. NextTool \in Calls /\ Len(results) + 1 \in 1..MaxCalls
  BY OpenAnswer, ChatBounds DEF NextTool
<1>2. /\ NextTool.owner \in Visitors \cup {Guest}
      /\ NextTool.tool \in {"look_up", "search", "unknown", "booking_status"}
      /\ NextTool.tool # "booking_status" => NextTool.owner = Guest
  BY <1>1, CallFields
<1>3. came \in {"found", "notFound", "error"}
  BY <1>2 DEF Outcomes
<1>4. came = "found" /\ NextTool.owner # Guest => NextTool.owner = visitor
  BY <1>2 DEF Outcomes, FindsBooking
<1>5. r \in ToolResults /\ r.id = Len(results) + 1 /\ r.outcome = came /\ r.owner = NextTool.owner
  BY <1>1, <1>2, <1>3 DEF ToolResults
<1>6. results' = Append(results, r)
  OBVIOUS
<1> HIDE DEF r
<1>7. /\ results' \in Seq(ToolResults) /\ Len(results') = Len(results) + 1
      /\ \A k \in 1..Len(results) : results'[k] = results[k]
      /\ results'[Len(results) + 1] = r /\ Len(results) \in Nat
  BY <1>5, <1>6, OpenAnswer, AppendProperties
<1>8. \A k \in 1..Len(results') : k \in 1..Len(results) \/ k = Len(results) + 1
  BY <1>7
<1>9. ChatTypes'
  BY <1>7 DEF ChatInv, ChatTypes
<1>10. (CallsOpen' <=> CallsOpen) /\ AnswersWithCalls' = AnswersWithCalls
  BY DEF CallsOpen, AnswersWithCalls
<1>11. CallsAreAnswered'
  BY <1>10 DEF ChatInv, CallsAreAnswered
<1>12. ResultsFollowCalls'
  <2>1. \A k \in 1..Len(results') : results'[k].id = k
    BY <1>5, <1>7, <1>8, OpenAnswer
  <2>2. Len(results') <= Len(messages[Len(messages)].calls)
    BY <1>7, OpenAnswer
  <2> QED BY <2>1, <2>2, <1>10, OpenAnswer DEF ResultsFollowCalls
<1>13. RoundsAreCounted'
  BY <1>10 DEF ChatInv, RoundsAreCounted
<1>14. OwnInMessages'
  <2>1. OwnOnly(results)'
    BY <1>4, <1>5, <1>7, <1>8 DEF ChatInv, OwnInMessages, OwnOnly
  <2> QED BY <2>1 DEF ChatInv, OwnInMessages, OwnOnly
<1> QED BY <1>9, <1>11, <1>12, <1>13, <1>14 DEF ChatInv

LEMMA SendResultsInv == ChatInv /\ SendResults => ChatInv'
<1> SUFFICES ASSUME ChatInv, SendResults PROVE ChatInv'
  OBVIOUS
<1> DEFINE m == [role |-> "user", results |-> results]
<1>1. m \in Message /\ m.role = "user" /\ m.results = results
  BY DEF Message, ChatInv, ChatTypes
<1>2. /\ turnStep = "tools" /\ Len(results) = Len(AskedCalls) /\ turnStep' = "model"
      /\ messages' = Append(messages, m) /\ rounds' = rounds + 1 /\ results' = <<>>
      /\ UNCHANGED <<visitor, reply>>
  BY DEF SendResults, HandedBack
<1> HIDE DEF m
<1>3. /\ Len(messages') = Len(messages) + 1 /\ Len(messages) \in Nat
      /\ messages' \in Seq(Message)
      /\ \A i \in 1..Len(messages) : messages'[i] = messages[i]
      /\ messages'[Len(messages) + 1] = m
      /\ ~CallsOpen'
      /\ Cardinality(AnswersWithCalls') = Cardinality(AnswersWithCalls)
  BY <1>1, <1>2, AnswersCounted DEF ChatInv
<1>4. /\ AskedCalls = messages[Len(messages)].calls /\ CallsOpen /\ Len(messages) > 0
      /\ \A k \in 1..Len(results) : results[k].id = k
      /\ rounds < MaxToolIterations /\ rounds \in Nat
      /\ Cardinality(AnswersWithCalls) = rounds + 1
  BY <1>2, OpenAnswer
<1>5. \A i \in 1..Len(messages') : i \in 1..Len(messages) \/ i = Len(messages) + 1
  BY <1>3
<1>6. ChatTypes'
  <2>1. \A i \in 1..Len(messages') : messages'[i].role = "assistant" => Len(messages'[i].calls) <= MaxCalls
    BY <1>1, <1>3, <1>5 DEF ChatInv, ChatTypes
  <2> QED BY <1>2, <1>3, <1>4, <2>1, ChatBounds DEF ChatInv, ChatTypes
<1>7. CallsAreAnswered'
  <2> SUFFICES ASSUME NEW i \in 1..Len(messages'), messages'[i].role = "assistant"
               PROVE  /\ i < Len(messages') /\ messages'[i + 1].role = "user"
                      /\ AnswersCalls(messages'[i + 1].results, messages'[i].calls)
    BY DEF CallsAreAnswered, AnswersCalls
  <2>1. i \in 1..Len(messages) /\ messages'[i] = messages[i]
    BY <1>1, <1>3, <1>5
  <2>2. CASE i < Len(messages)
    <3>1. /\ messages[i + 1].role = "user" /\ AnswersCalls(messages[i + 1].results, messages[i].calls)
      BY <2>1, <2>2 DEF ChatInv, CallsAreAnswered
    <3>2. messages'[i + 1] = messages[i + 1]
      BY <2>1, <2>2, <1>3
    <3> QED BY <2>1, <2>2, <3>1, <3>2, <1>3
  <2>3. CASE i = Len(messages)
    <3>1. messages'[i + 1] = m /\ messages[i].calls = AskedCalls
      BY <2>3, <1>3, <1>4
    <3>2. AnswersCalls(results, AskedCalls)
      BY <1>2, <1>4 DEF AnswersCalls
    <3> QED BY <2>1, <2>3, <3>1, <3>2, <1>1, <1>3
  <2> QED BY <2>1, <2>2, <2>3, <1>3
<1>8. ResultsFollowCalls'
  BY <1>2, <1>3 DEF ResultsFollowCalls
<1>9. RoundsAreCounted'
  <2>1. reply # "unfinished"
    BY <1>2 DEF ChatInv, RoundsAreCounted
  <2> QED BY <2>1, <1>2, <1>3, <1>4 DEF RoundsAreCounted
<1>10. OwnInMessages'
  <2>1. OwnOnly(results)'
    BY <1>2 DEF OwnOnly
  <2>2. ASSUME NEW i \in 1..Len(messages'), messages'[i].role = "user"
        PROVE  OwnOnly(messages[i].results)' 
    <3>1. CASE i \in 1..Len(messages)
      BY <2>2, <3>1, <1>2, <1>3 DEF ChatInv, OwnInMessages, OwnOnly
    <3>2. CASE i = Len(messages) + 1
      BY <3>2, <1>1, <1>2, <1>3 DEF ChatInv, OwnInMessages, OwnOnly
    <3> QED BY <3>1, <3>2, <1>5
  <2> QED BY <2>1, <2>2 DEF OwnInMessages, OwnOnly
<1> QED BY <1>6, <1>7, <1>8, <1>9, <1>10 DEF ChatInv

LEMMA ChatStepInv == ChatInv /\ [ChatNext]_chatVars => ChatInv'
<1> SUFFICES ASSUME ChatInv, [ChatNext]_chatVars PROVE ChatInv'
  OBVIOUS
<1>1. CASE ModelReplies
  BY <1>1, SameMessages DEF ModelReplies, EndTurn
<1>2. CASE ModelFails
  BY <1>2, SameMessages DEF ModelFails, EndTurn
<1>3. CASE GiveUp
  <2>1. rounds = MaxToolIterations
    BY <1>3, ChatBounds DEF GiveUp, MayAsk, ChatInv, ChatTypes
  <2> QED BY <1>3, <2>1, SameMessages DEF GiveUp, EndTurn
<1>4. CASE \E calls \in BoundedSeq(Calls, MaxCalls) \ {<<>>} : ModelAsks(calls)
  BY <1>4, ModelAsksInv
<1>5. CASE ToolThrows
  BY <1>5, SameMessages DEF ToolThrows, EndTurn
<1>6. CASE UNCHANGED chatVars
  BY <1>6 DEF chatVars, ChatInv, ChatTypes, CallsAreAnswered, AnswersCalls, ResultsFollowCalls,
              RoundsAreCounted, OwnInMessages, OwnOnly, CallsOpen, AnswersWithCalls
<1> QED BY <1>1, <1>2, <1>3, <1>4, <1>5, <1>6, ToolAnswersInv, SendResultsInv
           DEF ChatNext, ModelStep, ToolStep

LEMMA ChatInvSound == ChatInv => ChatTypeOK /\ ChatsSound
<1> SUFFICES ASSUME ChatInv PROVE ChatTypeOK /\ ChatsSound
  OBVIOUS
<1>0. \A i \in 1..Len(messages) : messages[i] \in Message
  BY DEF ChatInv, ChatTypes
<1>1. ChatTypeOK
  <2>1. \A i \in 1..Len(messages) :
          \/ messages[i].role = "assistant" /\ Len(messages[i].calls) <= MaxCalls
          \/ messages[i].role = "user" /\ Range(messages[i].results) \subseteq ToolResults
    BY <1>0, MessageFields DEF ChatInv, ChatTypes, Range
  <2> QED BY <2>1 DEF ChatInv, ChatTypes, ChatTypeOK, Range
<1>2. EveryCallHasItsResult
  BY DEF ChatInv, EveryCallHasItsResult, CallsAreAnswered, ResultsFollowCalls, AnswersCalls
<1>3. TurnsAreBounded
  BY ChatBounds DEF ChatInv, TurnsAreBounded, RoundsAreCounted, ChatTypes
<1>4. OwnBookingsOnly
  BY <1>0, MessageFields DEF ChatInv, OwnBookingsOnly, OwnInMessages, OwnOnly, Range
<1> QED BY <1>1, <1>2, <1>3, <1>4 DEF ChatsSound

\* Without the fairness of ChatSpec.
LEMMA ChatsKeepSound ==
  ChatInit /\ [][ChatNext]_chatVars => [](ChatTypeOK /\ ChatsSound)
<1>1. ChatInit /\ [][ChatNext]_chatVars => []ChatInv
  BY ChatInitInv, ChatStepInv, PTL
<1> QED BY <1>1, ChatInvSound, PTL

\* ChatTypeOK and ChatsSound: whatever the model asks for and whichever tool
\* fails, each answer's calls are given their results before it is asked again,
\* it is asked a bounded number of times, and whoever is signed in is shown no
\* booking of somebody else.
THEOREM ChatsAlwaysSound == ChatSpec => [](ChatTypeOK /\ ChatsSound)
BY ChatsKeepSound, PTL DEF ChatSpec
-----------------------------------------------------------------------------
(* Where the segments of each leg are in an offer of n legs that have len[i] *)
(* segments each.                                                            *)

Sizes(n) == [1..n -> {1, 2}]

\* Off(len, i) segments belong to the first i legs.
Off(len, i) == Total(len, 1..i)

LEMMA OffNext ==
  ASSUME NEW n \in Nat, NEW len \in Sizes(n), NEW i \in 0..n
  PROVE  /\ Off(len, i) \in Nat
         /\ i < n => Off(len, i + 1) = Off(len, i) + len[i + 1]
<1>1. \A j \in 1..i : len[j] \in Nat
  BY DEF Sizes
<1>2. IsFiniteSet(1..i)
  BY FS_Interval
<1>3. Off(len, i) \in Nat
  BY <1>1, <1>2, TotalNat DEF Off, Summable
<1>4. CASE i < n
  <2>1. len[i + 1] \in Nat /\ i \in Nat
    BY <1>4 DEF Sizes
  <2>2. Total(len, 1..(i + 1)) = Total(len, 1..i) + len[i + 1]
    BY <1>1, <2>1, TotalOfOneMore
  <2> QED BY <1>3, <2>2 DEF Off
<1> QED BY <1>3, <1>4

\* The offsets begin at 0 and grow with every leg.
LEMMA Offsets ==
  ASSUME NEW n \in Nat, NEW len \in Sizes(n)
  PROVE  /\ Off(len, 0) = 0
         /\ \A i \in 0..n : Off(len, i) \in Nat /\ Off(len, i) >= i
         /\ \A i \in 1..n : len[i] \in {1, 2} /\ Off(len, i) = Off(len, i - 1) + len[i]
         /\ \A i, j \in 0..n : i <= j => Off(len, i) <= Off(len, j)
<1>1. Off(len, 0) = 0
  <2>1. 1..0 = {}
    OBVIOUS
  <2> QED BY <2>1, TotalEmpty DEF Off
<1>2. \A i \in 0..n : Off(len, i) \in Nat
  BY OffNext
<1>3. \A i \in 1..n : len[i] \in {1, 2} /\ Off(len, i) = Off(len, i - 1) + len[i]
  <2> SUFFICES ASSUME NEW i \in 1..n
               PROVE  len[i] \in {1, 2} /\ Off(len, i) = Off(len, i - 1) + len[i]
    OBVIOUS
  <2>1. PICK j \in 0..n : j = i - 1 /\ j < n /\ j + 1 = i
    OBVIOUS
  <2>2. Off(len, j + 1) = Off(len, j) + len[j + 1]
    BY <2>1, OffNext
  <2> QED BY <2>1, <2>2 DEF Sizes
<1>4. \A i \in 0..n : Off(len, i) >= i
  <2> DEFINE T == {i \in 0..n : Off(len, i) >= i}
  <2>1. 0 \in T
    BY <1>1
  <2>2. \A i \in 0..n : i \in T /\ i < n => i + 1 \in T
    <3> SUFFICES ASSUME NEW i \in 0..n, i \in T, i < n PROVE i + 1 \in T
      OBVIOUS
    <3>1. i + 1 \in 1..n /\ (i + 1) - 1 = i
      OBVIOUS
    <3>2. Off(len, i + 1) = Off(len, i) + len[i + 1] /\ len[i + 1] \in {1, 2}
      BY <1>3, <3>1
    <3> QED BY <1>2, <3>1, <3>2
  <2> HIDE DEF T
  <2>3. 0..n \subseteq T
    BY <2>1, <2>2, InductionUpTo
  <2> QED BY <2>3 DEF T
<1>5. ASSUME NEW i \in 0..n, NEW j \in 0..n, i <= j PROVE Off(len, i) <= Off(len, j)
  <2> DEFINE T == {k \in 0..n : i <= k => Off(len, i) <= Off(len, k)}
  <2>1. 0 \in T
    BY <1>2
  <2>2. \A k \in 0..n : k \in T /\ k < n => k + 1 \in T
    <3> SUFFICES ASSUME NEW k \in 0..n, k \in T, k < n, i <= k + 1
                 PROVE  Off(len, i) <= Off(len, k + 1)
      OBVIOUS
    <3>1. k + 1 \in 1..n /\ (k + 1) - 1 = k
      OBVIOUS
    <3>2. Off(len, k + 1) = Off(len, k) + len[k + 1] /\ len[k + 1] \in {1, 2}
      BY <1>3, <3>1
    <3>3. CASE i = k + 1
      BY <1>2, <3>1, <3>3
    <3>4. CASE i <= k
      BY <1>2, <3>2, <3>4
    <3> QED BY <3>3, <3>4
  <2> HIDE DEF T
  <2>3. 0..n \subseteq T
    BY <2>1, <2>2, InductionUpTo
  <2> QED BY <1>5, <2>3 DEF T
<1> QED BY <1>1, <1>2, <1>3, <1>4, <1>5

\* Every position is a place in one leg.
LEMMA PlaceOf ==
  ASSUME NEW n \in Nat, NEW len \in Sizes(n), NEW p \in 1..Off(len, n)
  PROVE  \E i \in 1..n : \E k \in 1..len[i] : p = Off(len, i - 1) + k
<1> DEFINE T == {i \in 1..n : Off(len, i) >= p}
<1>1. /\ Off(len, 0) = 0
      /\ \A i \in 0..n : Off(len, i) \in Nat
      /\ \A i \in 1..n : len[i] \in {1, 2} /\ Off(len, i) = Off(len, i - 1) + len[i]
  BY Offsets
<1>2. n # 0
  BY <1>1
<1>3. T # {} /\ T \in SUBSET Nat
  BY <1>1, <1>2
<1>4. PICK i \in T : \A y \in T : i <= y
  BY <1>3, LeastNatural
<1>5. i \in 1..n /\ Off(len, i) >= p /\ i - 1 \in 0..n
  BY <1>4
<1>6. Off(len, i - 1) < p
  <2>1. CASE i = 1
    BY <1>1, <2>1
  <2>2. CASE i # 1
    <3>1. i - 1 \in 1..n /\ i - 1 \notin T
      BY <1>4, <1>5, <2>2
    <3> QED BY <1>1, <3>1
  <2> QED BY <2>1, <2>2
<1>7. PICK k \in Int : k = p - Off(len, i - 1)
  BY <1>1, <1>5
<1>8. k \in 1..len[i] /\ p = Off(len, i - 1) + k
  BY <1>1, <1>5, <1>6, <1>7
<1> QED BY <1>5, <1>8

\* The positions follow the legs, and the segments within one.
LEMMA PlacesOrdered ==
  ASSUME NEW n \in Nat, NEW len \in Sizes(n),
         NEW i \in 1..n, NEW j \in 1..n, NEW k \in 1..len[i], NEW l \in 1..len[j]
  PROVE  /\ Off(len, i - 1) + k \in 1..Off(len, n)
         /\ Off(len, i - 1) + k < Off(len, j - 1) + l <=> i < j \/ (i = j /\ k < l)
<1>1. /\ \A m \in 0..n : Off(len, m) \in Nat
      /\ \A m \in 1..n : len[m] \in {1, 2} /\ Off(len, m) = Off(len, m - 1) + len[m]
      /\ \A m, o \in 0..n : m <= o => Off(len, m) <= Off(len, o)
  BY Offsets
<1>2. /\ i - 1 \in 0..n /\ j - 1 \in 0..n /\ i \in 0..n /\ j \in 0..n /\ n \in 0..n
      /\ k \in Nat /\ l \in Nat
  BY <1>1
<1>3. Off(len, i - 1) + k \in 1..Off(len, n)
  <2>1. Off(len, i) <= Off(len, n)
    BY <1>1, <1>2
  <2> QED BY <1>1, <1>2, <2>1
<1>4. ASSUME Off(len, i - 1) + k < Off(len, j - 1) + l, i > j PROVE FALSE
  <2>1. Off(len, j) <= Off(len, i - 1)
    BY <1>1, <1>2, <1>4
  <2> QED BY <1>1, <1>2, <1>4, <2>1
<1>5. ASSUME i < j PROVE Off(len, i - 1) + k < Off(len, j - 1) + l
  <2>1. Off(len, i) <= Off(len, j - 1)
    BY <1>1, <1>2, <1>5
  <2> QED BY <1>1, <1>2, <2>1
<1>6. Off(len, i - 1) \in Nat
  BY <1>1, <1>2
<1> QED BY <1>2, <1>3, <1>4, <1>5, <1>6

-----------------------------------------------------------------------------
(* Sorting, and where a leg ends.                                            *)

\* Rows whose numbers rise are sorted already.
LEMMA SortedIs ==
  ASSUME NEW m \in Nat, NEW row, row = [p \in 1..m |-> row[p]],
         \A p \in 1..m : row[p].sequence \in Int,
         \A p, q \in 1..m : p < q => row[p].sequence < row[q].sequence
  PROVE  Sorted({row[p] : p \in 1..m}) = row
<1> DEFINE S == {row[p] : p \in 1..m}
           Upto(k) == {row[p] : p \in 1..k}
<1>1. ASSUME NEW k \in 0..m
      PROVE  Cardinality(Upto(k)) = k
  <2>1. PICK f : f = [p \in 1..k |-> row[p]]
    OBVIOUS
  <2>2. f \in Surjection(1..k, Upto(k))
    BY <2>1 DEF Surjection
  <2>3. \A p, q \in 1..k : p # q => f[p] # f[q]
    <3> SUFFICES ASSUME NEW p \in 1..k, NEW q \in 1..k, p < q PROVE f[p] # f[q]
      OBVIOUS
    <3>1. row[p].sequence < row[q].sequence /\ row[p].sequence \in Int
      OBVIOUS
    <3> QED BY <2>1, <3>1
  <2>4. f \in Injection(1..k, Upto(k))
    BY <2>2, <2>3 DEF Injection, Surjection, IsInjective
  <2>5. IsFiniteSet(1..k) /\ Cardinality(1..k) = k
    BY FS_Interval
  <2> HIDE DEF Upto
  <2> QED BY <2>2, <2>4, <2>5, FS_Surjection
<1>2. Cardinality(S) = m
  BY <1>1
<1>3. ASSUME NEW p \in 1..m
      PROVE  /\ Cardinality({r \in S : r.sequence < row[p].sequence}) = p - 1
             /\ Cardinality({r \in S : r.sequence <= row[p].sequence}) = p
  <2>1. \A q \in 1..m : /\ row[q].sequence < row[p].sequence <=> q < p
                        /\ row[q].sequence <= row[p].sequence <=> q <= p
    <3> SUFFICES ASSUME NEW q \in 1..m
                 PROVE  /\ row[q].sequence < row[p].sequence <=> q < p
                        /\ row[q].sequence <= row[p].sequence <=> q <= p
      OBVIOUS
    <3>1. row[p].sequence \in Int /\ row[q].sequence \in Int
      OBVIOUS
    <3>2. CASE q < p
      BY <3>1, <3>2
    <3>3. CASE q = p
      BY <3>1, <3>3
    <3>4. CASE q > p
      BY <3>1, <3>4
    <3> QED BY <3>2, <3>3, <3>4
  <2>2. {r \in S : r.sequence < row[p].sequence} = Upto(p - 1)
    BY <2>1
  <2>3. {r \in S : r.sequence <= row[p].sequence} = Upto(p)
    BY <2>1
  <2>4. p - 1 \in 0..m /\ p \in 0..m
    OBVIOUS
  <2> HIDE DEF S, Upto
  <2> QED BY <1>1, <2>2, <2>3, <2>4
<1>4. ASSUME NEW k \in 1..m
      PROVE  (CHOOSE r \in S :
                /\ Cardinality({q \in S : q.sequence < r.sequence}) < k
                /\ Cardinality({q \in S : q.sequence <= r.sequence}) >= k) = row[k]
  <2> DEFINE Kth(r) == /\ Cardinality({q \in S : q.sequence < r.sequence}) < k
                       /\ Cardinality({q \in S : q.sequence <= r.sequence}) >= k
  <2>1. row[k] \in S /\ Kth(row[k])
    <3>1. row[k] \in S
      OBVIOUS
    <3>2. k - 1 < k /\ k >= k
      OBVIOUS
    <3> HIDE DEF S
    <3> QED BY <1>3, <3>1, <3>2
  <2>2. ASSUME NEW r \in S, Kth(r) PROVE r = row[k]
    <3>1. PICK p \in 1..m : r = row[p]
      OBVIOUS
    <3>2. p - 1 < k /\ p >= k
      <4> HIDE DEF S
      <4>1. /\ Cardinality({q \in S : q.sequence < r.sequence}) = p - 1
            /\ Cardinality({q \in S : q.sequence <= r.sequence}) = p
        BY <1>3, <3>1
      <4> QED BY <2>2, <4>1
    <3>3. p = k
      BY <3>2
    <3> QED BY <3>1, <3>3
  <2> HIDE DEF S, Kth
  <2>3. (CHOOSE r \in S : Kth(r)) = row[k]
    BY <2>1, <2>2
  <2> QED BY <2>3 DEF Kth
<1>5. Sorted(S) = [k \in 1..m |-> row[k]]
  <2> HIDE DEF S
  <2> QED BY <1>2, <1>4 DEF Sorted
<1> QED BY <1>5

\* A leg ends at its own last segment: no flight before it arrives where the
\* leg does.
LEMMA LegEndIs ==
  ASSUME NEW flights, NEW from \in Nat, NEW size \in {1, 2}, NEW leg,
         Len(flights) \in Nat, from + size - 1 <= Len(flights),
         flights[from + size - 1].destination = leg.destination,
         size = 2 => flights[from].destination # leg.destination
  PROVE  LegEnd(flights, from, leg) = from + size - 1
<1> DEFINE ends == EndsAtDestination(flights, from, leg) \cup {Len(flights)}
           last == from + size - 1
<1>1. last \in ends
  BY DEF EndsAtDestination
<1>2. ends \subseteq Nat
  BY DEF EndsAtDestination
<1>3. \A j \in ends : last <= j
  BY DEF EndsAtDestination
<1>4. \A k \in ends : (\A j \in ends : k <= j) => k = last
  BY <1>1, <1>2, <1>3
<1>5. (CHOOSE k \in ends : \A j \in ends : k <= j) = last
  <2> HIDE DEF ends, last
  <2> QED BY <1>1, <1>3, <1>4
<1> QED BY <1>5 DEF LegEnd

\* The cursor before leg i is behind the segments of the legs before.
LEMMA CursorsAre ==
  ASSUME NEW n \in Nat, NEW len \in Sizes(n), NEW flights, NEW legs,
         Len(legs) = n, Len(flights) = Off(len, n),
         \A i \in 1..n : LegEnd(flights, Off(len, i - 1) + 1, legs[i]) = Off(len, i)
  PROVE  \A i \in 1..n + 1 : Cursors(flights, legs)[i] = Off(len, i - 1) + 1
<1> DEFINE Next1(c, i) ==
      IF i = 1 THEN 1
      ELSE IF c[i - 1] > Len(flights) THEN c[i - 1]
      ELSE LegEnd(flights, c[i - 1], legs[i - 1]) + 1
           Good(c) == c = [i \in 1..n + 1 |-> Next1(c, i)]
<1>1. /\ Off(len, 0) = 0
      /\ \A i \in 0..n : Off(len, i) \in Nat
      /\ \A i \in 1..n : len[i] \in {1, 2} /\ Off(len, i) = Off(len, i - 1) + len[i]
      /\ \A i, j \in 0..n : i <= j => Off(len, i) <= Off(len, j)
  BY Offsets
<1>2. ASSUME NEW c, NEW i \in 1..n, c[i] = Off(len, i - 1) + 1
      PROVE  Next1(c, i + 1) = Off(len, i) + 1
  <2>1. /\ i + 1 # 1 /\ (i + 1) - 1 = i
        /\ i - 1 \in 0..n /\ i \in 0..n /\ n \in 0..n
    OBVIOUS
  <2>2. c[i] <= Len(flights)
    <3>1. Off(len, i) = Off(len, i - 1) + len[i] /\ len[i] \in {1, 2}
      BY <1>1
    <3>2. Off(len, i) <= Off(len, n) /\ Off(len, i - 1) \in Nat /\ Off(len, n) \in Nat
      BY <1>1, <2>1
    <3> QED BY <1>2, <3>1, <3>2
  <2>3. c[i] \in Int /\ Len(flights) \in Int
    BY <1>1, <1>2, <2>1
  <2>4. LegEnd(flights, c[i], legs[i]) = Off(len, i)
    BY <1>2
  <2> HIDE DEF LegEnd
  <2> QED BY <2>1, <2>2, <2>3, <2>4
<1>3. PICK g : g = [i \in 1..n + 1 |-> Off(len, i - 1) + 1]
  OBVIOUS
<1>4. Good(g)
  <2>1. ASSUME NEW i \in 1..n + 1 PROVE Next1(g, i) = g[i]
    <3>1. CASE i = 1
      BY <1>1, <1>3, <3>1
    <3>2. CASE i # 1
      <4>1. PICK j \in 1..n : j = i - 1 /\ i = j + 1 /\ j \in 1..n + 1
        BY <3>2
      <4>2. g[j] = Off(len, j - 1) + 1
        BY <1>3, <4>1
      <4>3. Next1(g, j + 1) = Off(len, j) + 1
        BY <1>2, <4>2
      <4>4. g[i] = Off(len, j) + 1
        BY <1>3, <4>1
      <4> QED BY <4>1, <4>3, <4>4
    <3> QED BY <3>1, <3>2
  <2> HIDE DEF Next1
  <2> QED BY <1>3, <2>1
<1>5. PICK c : c = Cursors(flights, legs)
  OBVIOUS
<1>6. Good(c)
  <2>1. c = CHOOSE x : Good(x)
    BY <1>5 DEF Cursors
  <2> HIDE DEF Good
  <2> QED BY <1>4, <2>1
<1>7. \A i \in 1..n + 1 : c[i] = Next1(c, i)
  <2> HIDE DEF Next1
  <2> QED BY <1>6
<1> DEFINE T == {i \in 0..n : c[i + 1] = Off(len, i) + 1}
<1>8. 0 \in T
  <2>1. 1 \in 1..n + 1
    OBVIOUS
  <2>2. c[1] = 1
    BY <1>7, <2>1
  <2> QED BY <1>1, <2>2
<1>9. \A i \in 0..n : i \in T /\ i < n => i + 1 \in T
  <2> SUFFICES ASSUME NEW i \in 0..n, i \in T, i < n PROVE i + 1 \in T
    OBVIOUS
  <2>1. PICK j \in 1..n : j = i + 1 /\ j - 1 = i /\ j + 1 \in 1..n + 1
    OBVIOUS
  <2>2. c[j] = Off(len, j - 1) + 1
    BY <2>1
  <2>3. Next1(c, j + 1) = Off(len, j) + 1
    BY <1>2, <2>2
  <2>4. c[j + 1] = Off(len, j) + 1
    <3> HIDE DEF Next1
    <3> QED BY <1>7, <2>1, <2>3
  <2> QED BY <2>1, <2>4
<1>10. 0..n \subseteq T
  <2> HIDE DEF T
  <2> QED BY <1>8, <1>9, InductionUpTo
<1>11. ASSUME NEW i \in 1..n + 1 PROVE c[i] = Off(len, i - 1) + 1
  <2>1. PICK j \in 0..n : j = i - 1 /\ j + 1 = i
    OBVIOUS
  <2>2. j \in T
    BY <1>10
  <2> QED BY <2>1, <2>2
<1> QED BY <1>5, <1>11
-----------------------------------------------------------------------------
(* Grouping gives back what was flattened.                                   *)

Places(n, len) == {q \in (1..n) \X (1..2) : q[2] <= len[q[1]]}

\* The segments end where the legs do, and none before the last does.
EndWith(n, len, sold, legs) ==
  \A i \in 1..n : /\ sold[i] = [k \in 1..len[i] |-> sold[i][k]]
                  /\ sold[i][len[i]].destination = legs[i].destination
                  /\ len[i] = 2 => sold[i][1].destination # legs[i].destination

\* The numbers rise with the legs and the segments in each.
Rising(n, len, num) ==
  /\ \A q \in Places(n, len) : num[q] \in Int
  /\ \A q, r \in Places(n, len) :
       q[1] < r[1] \/ (q[1] = r[1] /\ q[2] < r[2]) => num[q] < num[r]

RowsOf(n, len, num, sold) ==
  {[sequence |-> num[q], flight |-> sold[q[1]][q[2]]] : q \in Places(n, len)}

\* Rows made of the segments of n legs, with such numbers, are grouped into
\* those legs.
LEMMA GroupingIs ==
  ASSUME NEW n \in Nat, NEW len \in Sizes(n), NEW legs, Len(legs) = n, NEW sold, NEW num,
         EndWith(n, len, sold, legs), Rising(n, len, num),
         NEW segments, segments = RowsOf(n, len, num, sold)
  PROVE  GroupSegmentsByLeg(legs, segments) = [i \in 1..n |-> ShowLeg(sold[i], legs[i])]
<1>a. \A i \in 1..n : sold[i] = [k \in 1..len[i] |-> sold[i][k]]
  BY DEF EndWith
<1>b. \A i \in 1..n : sold[i][len[i]].destination = legs[i].destination
  BY DEF EndWith
<1>c. \A i \in 1..n : len[i] = 2 => sold[i][1].destination # legs[i].destination
  BY DEF EndWith
<1> USE DEF Rising, RowsOf
<1> DEFINE N == Off(len, n)
           At(q) == Off(len, q[1] - 1) + q[2]
           RowOf(q) == [sequence |-> num[q], flight |-> sold[q[1]][q[2]]]
<1>1. /\ Off(len, 0) = 0
      /\ \A i \in 0..n : Off(len, i) \in Nat
      /\ \A i \in 1..n : len[i] \in {1, 2} /\ Off(len, i) = Off(len, i - 1) + len[i]
      /\ \A i, j \in 0..n : i <= j => Off(len, i) <= Off(len, j)
  BY Offsets
<1>2. N \in Nat
  BY <1>1
<1>3. \A q \in Places(n, len) : q[1] \in 1..n /\ q[2] \in 1..len[q[1]] /\ q = <<q[1], q[2]>>
  <2> SUFFICES ASSUME NEW q \in Places(n, len)
               PROVE  q[1] \in 1..n /\ q[2] \in 1..len[q[1]] /\ q = <<q[1], q[2]>>
    OBVIOUS
  <2>1. q \in (1..n) \X (1..2) /\ q[2] <= len[q[1]]
    BY DEF Places
  <2>2. q[1] \in 1..n /\ q[2] \in 1..2 /\ q = <<q[1], q[2]>>
    BY <2>1
  <2>3. len[q[1]] \in {1, 2}
    BY <1>1, <2>2
  <2> QED BY <2>1, <2>2, <2>3
<1>4. \A i \in 1..n : \A k \in 1..len[i] : <<i, k>> \in Places(n, len)
  <2> SUFFICES ASSUME NEW i \in 1..n, NEW k \in 1..len[i] PROVE <<i, k>> \in Places(n, len)
    OBVIOUS
  <2>1. PICK size \in {1, 2} : size = len[i]
    BY <1>1
  <2>2. k \in 1..2 /\ k <= len[i]
    BY <2>1
  <2> QED BY <2>2 DEF Places
<1>5. ASSUME NEW q \in Places(n, len), NEW r \in Places(n, len)
      PROVE  /\ At(q) \in 1..N
             /\ At(q) < At(r) <=> q[1] < r[1] \/ (q[1] = r[1] /\ q[2] < r[2])
             /\ At(q) = At(r) => q = r
  <2>1. /\ q[1] \in 1..n /\ q[2] \in 1..len[q[1]] /\ q = <<q[1], q[2]>>
        /\ r[1] \in 1..n /\ r[2] \in 1..len[r[1]] /\ r = <<r[1], r[2]>>
    BY <1>3
  <2>2. /\ At(q) \in 1..N /\ At(r) \in 1..N
        /\ At(q) < At(r) <=> q[1] < r[1] \/ (q[1] = r[1] /\ q[2] < r[2])
        /\ At(r) < At(q) <=> r[1] < q[1] \/ (r[1] = q[1] /\ r[2] < q[2])
    BY <2>1, PlacesOrdered
  <2>3. q[2] \in Nat /\ r[2] \in Nat
    BY <1>1, <2>1
  <2> HIDE DEF At
  <2>4. At(q) = At(r) => q[1] = r[1] /\ q[2] = r[2]
    BY <2>1, <2>2, <2>3
  <2> QED BY <2>1, <2>2, <2>4
<1>6. \A p \in 1..N : \E q \in Places(n, len) : p = At(q)
  <2> SUFFICES ASSUME NEW p \in 1..N PROVE \E q \in Places(n, len) : p = At(q)
    OBVIOUS
  <2>1. PICK i \in 1..n : \E k \in 1..len[i] : p = Off(len, i - 1) + k
    BY PlaceOf
  <2>3. PICK k \in 1..len[i] : p = Off(len, i - 1) + k
    BY <2>1
  <2>2. <<i, k>> \in Places(n, len) /\ At(<<i, k>>) = p
    BY <1>4, <2>3
  <2> QED BY <2>2
<1> HIDE DEF At
<1>7. PICK place : place = [p \in 1..N |-> CHOOSE q \in Places(n, len) : p = At(q)]
  OBVIOUS
<1>8. /\ \A p \in 1..N : place[p] \in Places(n, len) /\ At(place[p]) = p
      /\ \A q \in Places(n, len) : At(q) \in 1..N /\ place[At(q)] = q
  <2>1. \A p \in 1..N : place[p] \in Places(n, len) /\ At(place[p]) = p
    BY <1>6, <1>7
  <2>2. ASSUME NEW q \in Places(n, len) PROVE At(q) \in 1..N /\ place[At(q)] = q
    <3>1. At(q) \in 1..N
      BY <1>5
    <3>2. place[At(q)] \in Places(n, len) /\ At(place[At(q)]) = At(q)
      BY <2>1, <3>1
    <3> QED BY <1>5, <3>1, <3>2
  <2> QED BY <2>1, <2>2
<1>9. PICK row : row = [p \in 1..N |-> RowOf(place[p])]
  OBVIOUS
<1>10. Sorted(segments) = row
  <2>1. segments = {row[p] : p \in 1..N}
    <3>1. ASSUME NEW s \in segments PROVE s \in {row[p] : p \in 1..N}
      <4>1. PICK q \in Places(n, len) : s = RowOf(q)
        OBVIOUS
      <4>2. At(q) \in 1..N /\ row[At(q)] = RowOf(q)
        BY <1>8, <1>9
      <4> QED BY <4>1, <4>2
    <3>2. ASSUME NEW p \in 1..N PROVE row[p] \in segments
      <4>1. place[p] \in Places(n, len) /\ row[p] = RowOf(place[p])
        BY <1>8, <1>9
      <4> QED BY <4>1
    <3> QED BY <3>1, <3>2
  <2>2. \A p \in 1..N : row[p].sequence = num[place[p]] /\ row[p].sequence \in Int
    BY <1>8, <1>9
  <2>3. ASSUME NEW p \in 1..N, NEW q \in 1..N, p < q
        PROVE  row[p].sequence < row[q].sequence
    <3>1. /\ place[p] \in Places(n, len) /\ place[q] \in Places(n, len)
          /\ At(place[p]) < At(place[q])
      BY <1>8, <2>3
    <3>2. \/ place[p][1] < place[q][1]
          \/ place[p][1] = place[q][1] /\ place[p][2] < place[q][2]
      BY <1>5, <3>1
    <3>3. num[place[p]] < num[place[q]]
      BY <3>1, <3>2
    <3> QED BY <2>2, <3>3
  <2>4. row = [p \in 1..N |-> row[p]]
    BY <1>9
  <2> HIDE DEF RowOf, N
  <2>5. Sorted({row[p] : p \in 1..N}) = row
    BY <1>2, <2>2, <2>3, <2>4, SortedIs
  <2> QED BY <2>1, <2>5
<1>11. PICK flights : flights = [k \in 1..Len(row) |-> row[k].flight]
  OBVIOUS
<1>12. /\ Len(row) = N
       /\ flights = [p \in 1..N |-> sold[place[p][1]][place[p][2]]]
       /\ Len(flights) = N
  <2> HIDE DEF N
  <2>1. Len(row) = N
    BY <1>2, <1>9
  <2>2. flights = [p \in 1..N |-> sold[place[p][1]][place[p][2]]]
    BY <1>9, <1>11, <2>1
  <2>3. Len(flights) = N
    BY <1>2, <2>2
  <2> QED BY <2>1, <2>2, <2>3
<1>13. ASSUME NEW i \in 1..n, NEW k \in 1..len[i]
       PROVE  /\ Off(len, i - 1) + k \in 1..N
              /\ flights[Off(len, i - 1) + k] = sold[i][k]
  <2>1. <<i, k>> \in Places(n, len)
    BY <1>4
  <2>2. At(<<i, k>>) = Off(len, i - 1) + k
    BY DEF At
  <2>3. PICK p : p = At(<<i, k>>)
    OBVIOUS
  <2>4. p \in 1..N /\ place[p] = <<i, k>>
    BY <1>8, <2>1, <2>3
  <2> HIDE DEF N
  <2>5. flights[p] = sold[place[p][1]][place[p][2]]
    BY <1>12, <2>4
  <2>6. place[p][1] = i /\ place[p][2] = k
    BY <2>4
  <2>7. flights[p] = sold[i][k]
    BY <2>5, <2>6
  <2> QED BY <2>2, <2>3, <2>4, <2>7
<1>14. ASSUME NEW i \in 1..n
       PROVE  LegEnd(flights, Off(len, i - 1) + 1, legs[i]) = Off(len, i)
  <2>1. /\ i - 1 \in 0..n /\ i \in 0..n /\ n \in 0..n
        /\ 1 \in 1..len[i] /\ len[i] \in 1..len[i] /\ len[i] \in {1, 2}
        /\ Off(len, i) = Off(len, i - 1) + len[i]
    BY <1>1
  <2>2. /\ Off(len, i) <= N /\ Off(len, i - 1) \in Nat
    BY <1>1, <2>1
  <2>3. PICK from \in Nat : from = Off(len, i - 1) + 1
    BY <2>2
  <2>4. from + len[i] - 1 = Off(len, i)
    BY <2>1, <2>2, <2>3
  <2>5. flights[Off(len, i)] = sold[i][len[i]] /\ flights[from] = sold[i][1]
    BY <1>13, <2>1, <2>3
  <2>6. LegEnd(flights, from, legs[i]) = from + len[i] - 1
    <3>1. /\ Len(flights) \in Nat
          /\ from + len[i] - 1 <= Len(flights)
      BY <1>2, <1>12, <2>2, <2>4
    <3>2. flights[from + len[i] - 1].destination = legs[i].destination
      <4>1. sold[i][len[i]].destination = legs[i].destination
        BY <1>b
      <4>2. flights[from + len[i] - 1] = sold[i][len[i]]
        <5> HIDE DEF N
        <5> QED BY <2>4, <2>5
      <4> QED BY <4>1, <4>2
    <3>3. len[i] = 2 => flights[from].destination # legs[i].destination
      BY <1>c, <2>5
    <3>4. PICK size \in {1, 2} : size = len[i]
      BY <2>1
    <3>5. PICK leg : leg = legs[i]
      OBVIOUS
    <3> HIDE DEF N, LegEnd
    <3>6. LegEnd(flights, from, leg) = from + size - 1
      BY <3>1, <3>2, <3>3, <3>4, <3>5, LegEndIs
    <3> QED BY <3>4, <3>5, <3>6
  <2> QED BY <2>3, <2>4, <2>6
<1>15. PICK cursor : cursor = Cursors(flights, legs)
  OBVIOUS
<1>16. \A i \in 1..n + 1 : cursor[i] = Off(len, i - 1) + 1
  <2> HIDE DEF Cursors, LegEnd
  <2> QED BY <1>12, <1>14, <1>15, CursorsAre
<1>17. {i \in 1..Len(legs) : cursor[i] <= Len(flights)} = 1..n
  <2> SUFFICES ASSUME NEW i \in 1..n PROVE cursor[i] <= Len(flights)
    OBVIOUS
  <2>1. i \in 1..n + 1 /\ i - 1 \in 0..n /\ i \in 0..n /\ n \in 0..n
    OBVIOUS
  <2>2. /\ Off(len, i) = Off(len, i - 1) + len[i] /\ len[i] \in {1, 2}
        /\ Off(len, i) <= N /\ Off(len, i - 1) \in Nat
    BY <1>1, <2>1
  <2> QED BY <1>2, <1>12, <1>16, <2>1, <2>2
<1>18. Cardinality(1..n) = n
  BY FS_Interval
<1>19. ASSUME NEW i \in 1..n
       PROVE  SubSeq(flights, cursor[i], cursor[i + 1] - 1) = sold[i]
  <2>1. /\ i - 1 \in 0..n /\ i \in 0..n /\ n \in 0..n /\ i \in 1..n + 1 /\ i + 1 \in 1..n + 1
        /\ (i + 1) - 1 = i
    OBVIOUS
  <2>2. PICK off \in Nat : off = Off(len, i - 1)
    BY <1>1, <2>1
  <2>3. PICK size \in {1, 2} : size = len[i]
    BY <1>1
  <2>4. /\ cursor[i] = off + 1 /\ cursor[i + 1] - 1 = off + size
        /\ off + size <= N
    <3>1. Off(len, i) = off + size /\ Off(len, i) <= N
      BY <1>1, <2>1, <2>2, <2>3
    <3>2. cursor[i] = off + 1 /\ cursor[i + 1] = Off(len, i) + 1
      BY <1>16, <2>1, <2>2
    <3> QED BY <3>1, <3>2
  <2>5. SubSeq(flights, off + 1, off + size) = [k \in 1..size |-> flights[off + k]]
    <3>1. PICK sub : sub = SubSeq(flights, off + 1, off + size)
      OBVIOUS
    <3>2. \A p \in off + 1..off + size : flights[p] \in {flights[r] : r \in off + 1..off + size}
      OBVIOUS
    <3>3. PICK S : S = {flights[r] : r \in off + 1..off + size}
      OBVIOUS
    <3>4. off + 1 \in Int /\ off + size \in Int
      OBVIOUS
    <3>5. /\ sub \in Seq(S)
          /\ Len(sub) = IF off + 1 <= off + size THEN (off + size) - (off + 1) + 1 ELSE 0
          /\ \A k \in 1..(off + size) - (off + 1) + 1 : sub[k] = flights[(off + 1) + k - 1]
      BY <3>1, <3>2, <3>3, <3>4, SubSeqProperties
    <3>6. (off + size) - (off + 1) + 1 = size /\ off + 1 <= off + size
      OBVIOUS
    <3>7. \A k \in 1..size : (off + 1) + k - 1 = off + k
      OBVIOUS
    <3>8. sub \in Seq(S) /\ Len(sub) = size /\ \A k \in 1..size : sub[k] = flights[off + k]
      BY <3>5, <3>6, <3>7
    <3>9. sub = [k \in 1..size |-> sub[k]]
      BY <3>8
    <3> QED BY <3>1, <3>8, <3>9
  <2>6. \A k \in 1..size : flights[off + k] = sold[i][k]
    BY <1>13, <2>2, <2>3
  <2>7. sold[i] = [k \in 1..size |-> sold[i][k]]
    BY <1>a, <2>3
  <2> QED BY <2>4, <2>5, <2>6, <2>7
<1>20. GroupSegmentsByLeg(legs, segments) =
         [i \in 1..Cardinality({i \in 1..Len(legs) : cursor[i] <= Len(flights)}) |->
            ShowLeg(SubSeq(flights, cursor[i], cursor[i + 1] - 1), legs[i])]
  <2> HIDE DEF Sorted, Cursors, ShowLeg
  <2> QED BY <1>10, <1>11, <1>15 DEF GroupSegmentsByLeg
<1>21. GroupSegmentsByLeg(legs, segments) =
         [i \in 1..n |-> ShowLeg(SubSeq(flights, cursor[i], cursor[i + 1] - 1), legs[i])]
  <2> HIDE DEF ShowLeg
  <2> QED BY <1>17, <1>18, <1>20
<1> HIDE DEF ShowLeg
<1> QED BY <1>19, <1>21, Zenon
-----------------------------------------------------------------------------
(* The offers of what a supplier sells.                                      *)

Lens(sells) == [i \in 1..Len(sells) |-> Len(sells[i])]

\* The flights of the legs of a trip.
SellsFor(journey, sells) ==
  /\ sells = [i \in 1..Len(journey) |-> sells[i]]
  /\ \A i \in 1..Len(journey) : sells[i] \in LegFlights(journey[i], i * LegGap)

PlacesOf(sells) == {p \in (1..Len(sells)) \X (1..2) : p[2] <= Len(sells[p[1]])}

OfferAs(supplier, rows, sells) ==
  [supplier |-> supplier, segments |-> rows,
   stops |-> TotalOf(Len, sells) - Len(sells), minutes |-> TotalOf(Minutes, sells)]

\* The rows of the mock suppliers, and those of Amadeus.
MockRowsOf(sells) ==
  {[sequence |-> TotalOf(Len, SubSeq(sells, 1, p[1] - 1)) + p[2] - 1,
    flight |-> sells[p[1]][p[2]]] : p \in PlacesOf(sells)}
AmadeusRowsOf(sells) ==
  {[sequence |-> (p[1] - 1) * 100 + p[2] - 1,
    flight |-> Local(sells[p[1]][p[2]])] : p \in PlacesOf(sells)}

MockOfferOf(sells) == OfferAs("mock", MockRowsOf(sells), sells)
AmadeusOfferOf(sells) == OfferAs("amadeus", AmadeusRowsOf(sells), sells)
Offers(sells) == {MockOfferOf(sells), AmadeusOfferOf(sells)}

\* The flights as the offer of a supplier has them.
Sold(supplier, sells) ==
  IF supplier = "mock" THEN sells
  ELSE [i \in 1..Len(sells) |-> [k \in 1..Len(sells[i]) |-> Local(sells[i][k])]]

\* What is flown belongs to the search; what is stored is one of the two
\* offers of it; and what is shown is that offer, grouped.
LegInv ==
  /\ searchedTrip \in SearchedTrips /\ SellsFor(searchedTrip, flown)
  /\ offerRow = NoOffer \/ offerRow \in Offers(flown)
  /\ legsShown = <<>> \/
       /\ offerRow \in Offers(flown)
       /\ legsShown = GroupSegmentsByLeg(searchedTrip, offerRow.segments)

\* A leg is one flight, or two that meet at a hub.
LEMMA FlightsOfLeg ==
  ASSUME NEW leg, leg.origin # leg.destination, NEW starts \in Nat,
         NEW f \in LegFlights(leg, starts)
  PROVE  \/ \E m \in FlightMinutes :
              f = <<Flight(leg.origin, leg.destination, starts, starts + m)>>
         \/ \E hub \in Hubs : \E m, n \in FlightMinutes : \E wait \in LayoverMinutes :
              /\ hub # leg.origin /\ hub # leg.destination
              /\ f = << Flight(leg.origin, hub, starts, starts + m),
                        Flight(hub, leg.destination, starts + m + wait, starts + m + wait + n) >>
<1>1. CASE f \in DirectFlights(leg, starts)
  <2> QED BY <1>1 DEF DirectFlights
<1>2. CASE f \in ConnectingFlights(leg, starts)
  <2>1. PICK hub \in Hubs \ {leg.origin, leg.destination}, m \in FlightMinutes,
             wait \in LayoverMinutes, n \in FlightMinutes :
          f = << Flight(leg.origin, hub, starts, starts + m),
                 Flight(hub, leg.destination, starts + m + wait, starts + m + wait + n) >>
    BY <1>2 DEF ConnectingFlights
  <2> QED BY <2>1
<1> QED BY <1>1, <1>2 DEF LegFlights

\* Local time changes only the hours.
LEMMA LocalIs ==
  ASSUME NEW a, NEW b, NEW d, NEW e
  PROVE  Local(Flight(a, b, d, e)) = Flight(a, b, d + Zone[a], e + Zone[b])
<1>1. PICK f : f = Flight(a, b, d, e)
  OBVIOUS
<1>2. f = [origin |-> a, destination |-> b, departureAt |-> d, arrivalAt |-> e]
  BY <1>1 DEF Flight
<1>3. PICK x : x = d + Zone[a]
  OBVIOUS
<1>4. PICK y : y = e + Zone[b]
  OBVIOUS
<1>5. [f EXCEPT !.departureAt = x, !.arrivalAt = y]
        = [origin |-> a, destination |-> b, departureAt |-> x, arrivalAt |-> y]
  <2>1. PICK g : g = [f EXCEPT !.departureAt = x]
    OBVIOUS
  <2>2. g = [origin |-> a, destination |-> b, departureAt |-> x, arrivalAt |-> e]
    BY <1>2, <2>1
  <2>3. [g EXCEPT !.arrivalAt = y]
          = [origin |-> a, destination |-> b, departureAt |-> x, arrivalAt |-> y]
    BY <2>2
  <2> QED BY <2>1, <2>3
<1>6. Local(f) = [f EXCEPT !.departureAt = f.departureAt + Zone[f.origin],
                          !.arrivalAt = f.arrivalAt + Zone[f.destination]]
  BY <1>2 DEF Local
<1>7. f.departureAt + Zone[f.origin] = x /\ f.arrivalAt + Zone[f.destination] = y
  BY <1>2, <1>3, <1>4
<1>8. Local(f) = [f EXCEPT !.departureAt = x, !.arrivalAt = y]
  BY <1>6, <1>7
<1> QED BY <1>1, <1>3, <1>4, <1>5, <1>8 DEF Flight

\* A sequence is the function of its elements.
LEMMA OneIs ==
  ASSUME NEW a, NEW f, f = <<a>>
  PROVE  Len(f) = 1 /\ f[1] = a /\ f = [k \in 1..1 |-> f[k]] /\ Head(f) = a /\ Last(f) = a
<1>1. f \in Seq({a}) /\ Len(f) = 1 /\ f[1] = a
  OBVIOUS
<1> QED BY <1>1 DEF Last
LEMMA TwoIs ==
  ASSUME NEW a, NEW b, NEW f, f = <<a, b>>
  PROVE  /\ Len(f) = 2 /\ f[1] = a /\ f[2] = b /\ f = [k \in 1..2 |-> f[k]]
         /\ Head(f) = a /\ Last(f) = b
<1>1. f \in Seq({a, b}) /\ Len(f) = 2 /\ f[1] = a /\ f[2] = b
  OBVIOUS
<1> QED BY <1>1 DEF Last

\* What the proofs use of the flights of a leg.
LEMMA FlownFacts ==
  ASSUME NEW leg, leg.origin # leg.destination, NEW starts \in Nat,
         NEW f \in LegFlights(leg, starts)
  PROVE  /\ Len(f) \in {1, 2} /\ f = [k \in 1..Len(f) |-> f[k]]
         /\ Head(f) = f[1] /\ Last(f) = f[Len(f)]
         /\ f[1].origin = leg.origin /\ f[Len(f)].destination = leg.destination
         /\ Minutes(f) \in Nat
         /\ Len(f) = 2 => /\ f[1].destination \in Hubs
                          /\ f[1].destination # leg.destination
                          /\ f[2].origin = f[1].destination
                          /\ f[1].arrivalAt \in Nat /\ f[2].departureAt \in Nat
         /\ \A k \in 1..Len(f) :
              /\ Local(f[k]).origin = f[k].origin
              /\ Local(f[k]).destination = f[k].destination
              /\ Local(f[k]).departureAt = f[k].departureAt + Zone[f[k].origin]
              /\ Local(f[k]).arrivalAt = f[k].arrivalAt + Zone[f[k].destination]
<1>1. FlightMinutes \subseteq Nat \ {0} /\ LayoverMinutes \subseteq Nat
  BY ItineraryAssumption
<1>2. CASE \E m \in FlightMinutes :
             f = <<Flight(leg.origin, leg.destination, starts, starts + m)>>
  <2>1. PICK m \in FlightMinutes :
          f = <<Flight(leg.origin, leg.destination, starts, starts + m)>>
    BY <1>2
  <2>2. PICK a : a = Flight(leg.origin, leg.destination, starts, starts + m)
    OBVIOUS
  <2>3. Len(f) = 1 /\ f[1] = a /\ f = [k \in 1..1 |-> f[k]] /\ Head(f) = a /\ Last(f) = a
    BY <2>1, <2>2, OneIs
  <2>4. /\ a.origin = leg.origin /\ a.destination = leg.destination
        /\ a.departureAt = starts /\ a.arrivalAt = starts + m
    BY <2>2 DEF Flight
  <2>5. /\ Local(a).origin = a.origin /\ Local(a).destination = a.destination
        /\ Local(a).departureAt = a.departureAt + Zone[a.origin]
        /\ Local(a).arrivalAt = a.arrivalAt + Zone[a.destination]
    <3>1. Local(a) = Flight(leg.origin, leg.destination, starts + Zone[leg.origin],
                            starts + m + Zone[leg.destination])
      BY <2>2, LocalIs
    <3> QED BY <2>4, <3>1 DEF Flight
  <2>6. Minutes(f) \in Nat
    BY <1>1, <2>3, <2>4 DEF Minutes
  <2> QED BY <2>3, <2>4, <2>5, <2>6
<1>3. CASE \E hub \in Hubs : \E m, n \in FlightMinutes : \E wait \in LayoverMinutes :
             /\ hub # leg.origin /\ hub # leg.destination
             /\ f = << Flight(leg.origin, hub, starts, starts + m),
                       Flight(hub, leg.destination, starts + m + wait, starts + m + wait + n) >>
  <2>1. PICK hub \in Hubs, m \in FlightMinutes, n \in FlightMinutes, wait \in LayoverMinutes :
             /\ hub # leg.origin /\ hub # leg.destination
             /\ f = << Flight(leg.origin, hub, starts, starts + m),
                       Flight(hub, leg.destination, starts + m + wait, starts + m + wait + n) >>
    BY <1>3
  <2>2. PICK a : a = Flight(leg.origin, hub, starts, starts + m)
    OBVIOUS
  <2>3. PICK b : b = Flight(hub, leg.destination, starts + m + wait, starts + m + wait + n)
    OBVIOUS
  <2>4. /\ Len(f) = 2 /\ f[1] = a /\ f[2] = b /\ f = [k \in 1..2 |-> f[k]]
        /\ Head(f) = a /\ Last(f) = b
    BY <2>1, <2>2, <2>3, TwoIs
  <2>5. /\ a.origin = leg.origin /\ a.destination = hub
        /\ a.departureAt = starts /\ a.arrivalAt = starts + m
        /\ b.origin = hub /\ b.destination = leg.destination
        /\ b.departureAt = starts + m + wait /\ b.arrivalAt = starts + m + wait + n
    BY <2>2, <2>3 DEF Flight
  <2>6. /\ Local(a).origin = a.origin /\ Local(a).destination = a.destination
        /\ Local(a).departureAt = a.departureAt + Zone[a.origin]
        /\ Local(a).arrivalAt = a.arrivalAt + Zone[a.destination]
    <3>1. Local(a) = Flight(leg.origin, hub, starts + Zone[leg.origin],
                            starts + m + Zone[hub])
      BY <2>2, LocalIs
    <3> QED BY <2>5, <3>1 DEF Flight
  <2>7. /\ Local(b).origin = b.origin /\ Local(b).destination = b.destination
        /\ Local(b).departureAt = b.departureAt + Zone[b.origin]
        /\ Local(b).arrivalAt = b.arrivalAt + Zone[b.destination]
    <3>1. Local(b) = Flight(hub, leg.destination, starts + m + wait + Zone[hub],
                            starts + m + wait + n + Zone[leg.destination])
      BY <2>3, LocalIs
    <3> QED BY <2>5, <3>1 DEF Flight
  <2>8. Minutes(f) \in Nat /\ a.arrivalAt \in Nat /\ b.departureAt \in Nat
    BY <1>1, <2>4, <2>5 DEF Minutes
  <2>9. \A k \in 1..Len(f) : f[k] = a \/ f[k] = b
    BY <2>4
  <2> QED BY <2>1, <2>4, <2>5, <2>6, <2>7, <2>8, <2>9
<1> QED BY <1>2, <1>3, FlightsOfLeg

-----------------------------------------------------------------------------
(* Every offer, grouped, shows the legs that are sold.                       *)

LEMMA TripFacts ==
  ASSUME NEW journey \in SearchedTrips, NEW sells, SellsFor(journey, sells)
  PROVE  /\ Len(journey) \in Nat \ {0} /\ Len(sells) = Len(journey)
         /\ DOMAIN sells = 1..Len(journey)
         /\ Lens(sells) \in Sizes(Len(journey))
         /\ \A i \in 1..Len(journey) :
              /\ Lens(sells)[i] = Len(sells[i])
              /\ journey[i].origin # journey[i].destination /\ i * LegGap \in Nat
              /\ sells[i] \in LegFlights(journey[i], i * LegGap)
<1>1. /\ Len(journey) \in Nat \ {0} /\ LegGap \in Nat
      /\ \A i \in 1..Len(journey) : journey[i].origin # journey[i].destination
  BY ItineraryAssumption
<1>2. /\ sells = [i \in 1..Len(journey) |-> sells[i]]
      /\ \A i \in 1..Len(journey) : sells[i] \in LegFlights(journey[i], i * LegGap)
  BY DEF SellsFor
<1>3. DOMAIN sells = 1..Len(journey) /\ Len(sells) = Len(journey)
  BY <1>1, <1>2
<1>4. \A i \in 1..Len(journey) : i * LegGap \in Nat
  BY <1>1
<1>5. \A i \in 1..Len(journey) : Len(sells[i]) \in {1, 2}
  BY <1>1, <1>2, <1>4, FlownFacts
<1> QED BY <1>1, <1>2, <1>3, <1>4, <1>5 DEF Lens, Sizes

\* The segments of the first legs.
LEMMA LensUpTo ==
  ASSUME NEW n \in Nat, NEW sells, DOMAIN sells = 1..n, Len(sells) = n, Lens(sells) \in Sizes(n)
  PROVE  /\ TotalOf(Len, sells) = Off(Lens(sells), n)
         /\ \A i \in 1..n :
              TotalOf(Len, SubSeq(sells, 1, i - 1)) = Off(Lens(sells), i - 1)
<1>1. TotalOf(Len, sells) = Off(Lens(sells), n)
  <2>1. [i \in DOMAIN sells |-> Len(sells[i])] = Lens(sells)
    BY DEF Lens
  <2> QED BY <2>1 DEF TotalOf, Off
<1>2. ASSUME NEW i \in 1..n
      PROVE  TotalOf(Len, SubSeq(sells, 1, i - 1)) = Off(Lens(sells), i - 1)
  <2>1. PICK m \in Nat : m = i - 1 /\ m <= n
    OBVIOUS
  <2>2. PICK sub : sub = SubSeq(sells, 1, m)
    OBVIOUS
  <2>3. /\ sub \in Seq({sells[k] : k \in 1..m}) /\ Len(sub) = m
        /\ \A k \in 1..m : sub[k] = sells[k]
    <3>1. \A k \in 1..m : sells[k] \in {sells[j] : j \in 1..m}
      OBVIOUS
    <3>2. /\ sub \in Seq({sells[j] : j \in 1..m})
          /\ Len(sub) = IF 1 <= m THEN m - 1 + 1 ELSE 0
          /\ \A k \in 1..m - 1 + 1 : sub[k] = sells[1 + k - 1]
      BY <2>2, <3>1, SubSeqProperties
    <3>3. \A k \in 1..m : k \in 1..m - 1 + 1 /\ 1 + k - 1 = k
      OBVIOUS
    <3>4. Len(sub) = m
      BY <3>2
    <3> QED BY <3>2, <3>3, <3>4
  <2>4. DOMAIN sub = 1..m
    BY <2>3
  <2>5. PICK f : f = [k \in 1..m |-> Len(sub[k])]
    OBVIOUS
  <2>6. \A k \in 1..m : f[k] = Lens(sells)[k]
    BY <2>1, <2>3, <2>5 DEF Lens
  <2>7. Total(f, 1..m) = Total(Lens(sells), 1..m)
    BY <2>6, TotalSame
  <2>8. TotalOf(Len, sub) = Total(f, 1..m)
    BY <2>4, <2>5 DEF TotalOf
  <2> QED BY <2>1, <2>2, <2>7, <2>8 DEF Off
<1> QED BY <1>1, <1>2

\* What is shown of an offer.
LEMMA ShownAre ==
  ASSUME NEW journey \in SearchedTrips, NEW sells, SellsFor(journey, sells),
         NEW offer \in Offers(sells)
  PROVE  GroupSegmentsByLeg(journey, offer.segments) =
           [i \in 1..Len(journey) |-> ShowLeg(Sold(offer.supplier, sells)[i], journey[i])]
<1>1. PICK n \in Nat : n = Len(journey)
  BY TripFacts
<1>2. PICK len \in Sizes(n) : len = Lens(sells)
  BY <1>1, TripFacts
<1>3. /\ Len(sells) = n /\ DOMAIN sells = 1..n
      /\ \A i \in 1..n : /\ len[i] = Len(sells[i]) /\ len[i] \in {1, 2}
                         /\ journey[i].origin # journey[i].destination /\ i * LegGap \in Nat
                         /\ sells[i] \in LegFlights(journey[i], i * LegGap)
  BY <1>1, <1>2, TripFacts DEF Sizes
<1>4. \A i \in 1..n :
        /\ sells[i] = [k \in 1..len[i] |-> sells[i][k]]
        /\ sells[i][len[i]].destination = journey[i].destination
        /\ len[i] = 2 => sells[i][1].destination # journey[i].destination
        /\ \A k \in 1..len[i] : Local(sells[i][k]).destination = sells[i][k].destination
  BY <1>3, FlownFacts
<1>5. PlacesOf(sells) = Places(n, len)
  BY <1>3 DEF PlacesOf, Places
<1>6. \A q \in Places(n, len) : q[1] \in 1..n /\ q[2] \in 1..2 /\ q[2] \in 1..len[q[1]]
  <2> SUFFICES ASSUME NEW q \in Places(n, len)
               PROVE  q[1] \in 1..n /\ q[2] \in 1..2 /\ q[2] \in 1..len[q[1]]
    OBVIOUS
  <2>1. q \in (1..n) \X (1..2) /\ q[2] <= len[q[1]]
    BY DEF Places
  <2>2. q[1] \in 1..n /\ q[2] \in 1..2
    BY <2>1
  <2>3. len[q[1]] \in {1, 2}
    BY <1>3, <2>2
  <2> QED BY <2>1, <2>2, <2>3
<1>7. CASE offer = MockOfferOf(sells)
  <2>1. PICK num : num = [q \in Places(n, len) |-> Off(len, q[1] - 1) + q[2] - 1]
    OBVIOUS
  <2>2. \A q \in Places(n, len) : num[q] \in Int
    <3> SUFFICES ASSUME NEW q \in Places(n, len) PROVE num[q] \in Int
      OBVIOUS
    <3>1. q[1] - 1 \in 0..n /\ q[2] \in Int
      BY <1>6
    <3>2. Off(len, q[1] - 1) \in Nat
      BY <3>1, Offsets
    <3> QED BY <2>1, <3>1, <3>2
  <2>3. ASSUME NEW q \in Places(n, len), NEW r \in Places(n, len),
               q[1] < r[1] \/ (q[1] = r[1] /\ q[2] < r[2])
        PROVE  num[q] < num[r]
    <3>1. /\ q[1] \in 1..n /\ q[2] \in 1..len[q[1]] /\ r[1] \in 1..n /\ r[2] \in 1..len[r[1]]
      BY <1>6
    <3>2. Off(len, q[1] - 1) + q[2] < Off(len, r[1] - 1) + r[2]
      BY <2>3, <3>1, PlacesOrdered
    <3>3. /\ Off(len, q[1] - 1) \in Nat /\ Off(len, r[1] - 1) \in Nat
          /\ q[2] \in Int /\ r[2] \in Int
      <4>1. q[1] - 1 \in 0..n /\ r[1] - 1 \in 0..n /\ q[2] \in Int /\ r[2] \in Int
        BY <1>6
      <4> QED BY <4>1, Offsets
    <3>4. num[q] = Off(len, q[1] - 1) + q[2] - 1 /\ num[r] = Off(len, r[1] - 1) + r[2] - 1
      BY <2>1
    <3> QED BY <3>2, <3>3, <3>4
  <2>4. \A q \in Places(n, len) :
          TotalOf(Len, SubSeq(sells, 1, q[1] - 1)) + q[2] - 1 = num[q]
    <3>1. \A i \in 1..n : TotalOf(Len, SubSeq(sells, 1, i - 1)) = Off(len, i - 1)
      BY <1>2, <1>3, LensUpTo
    <3> QED BY <1>6, <2>1, <3>1
  <2>5. offer.segments = {[sequence |-> num[q], flight |-> sells[q[1]][q[2]]] : q \in Places(n, len)}
    <3>1. offer.segments =
            {[sequence |-> TotalOf(Len, SubSeq(sells, 1, q[1] - 1)) + q[2] - 1,
              flight |-> sells[q[1]][q[2]]] : q \in Places(n, len)}
      BY <1>5, <1>7 DEF MockOfferOf, OfferAs, MockRowsOf
    <3> HIDE DEF TotalOf
    <3> QED BY <2>4, <3>1
  <2>6. Sold(offer.supplier, sells) = sells
    BY <1>7 DEF Sold, MockOfferOf, OfferAs
  <2>7. GroupSegmentsByLeg(journey, offer.segments) = [i \in 1..n |-> ShowLeg(sells[i], journey[i])]
    <3>1. EndWith(n, len, sells, journey)
      BY <1>4 DEF EndWith
    <3>2. Rising(n, len, num)
      BY <2>2, <2>3 DEF Rising
    <3>3. offer.segments = RowsOf(n, len, num, sells)
      BY <2>5 DEF RowsOf
    <3>4. Len(journey) = n
      BY <1>1
    <3> QED BY <3>1, <3>2, <3>3, <3>4, GroupingIs
  <2> QED BY <1>1, <2>6, <2>7
<1>8. CASE offer = AmadeusOfferOf(sells)
  <2>1. PICK num : num = [q \in Places(n, len) |-> (q[1] - 1) * 100 + q[2] - 1]
    OBVIOUS
  <2>2. \A q \in Places(n, len) : num[q] \in Int
    BY <1>6, <2>1
  <2>3. \A q, r \in Places(n, len) :
          q[1] < r[1] \/ (q[1] = r[1] /\ q[2] < r[2]) => num[q] < num[r]
    BY <1>6, <2>1
  <2>4. PICK sold : sold = Sold(offer.supplier, sells)
    OBVIOUS
  <2>5. sold = [i \in 1..n |-> [k \in 1..len[i] |-> Local(sells[i][k])]]
    <3>1. offer.supplier # "mock"
      BY <1>8 DEF AmadeusOfferOf, OfferAs
    <3>2. sold = [i \in 1..n |-> [k \in 1..Len(sells[i]) |-> Local(sells[i][k])]]
      BY <1>3, <2>4, <3>1 DEF Sold
    <3> HIDE DEF Local
    <3> QED BY <1>3, <3>2
  <2>6. \A i \in 1..n :
          /\ sold[i] = [k \in 1..len[i] |-> sold[i][k]]
          /\ sold[i][len[i]].destination = journey[i].destination
          /\ len[i] = 2 => sold[i][1].destination # journey[i].destination
    <3> SUFFICES ASSUME NEW i \in 1..n
                 PROVE  /\ sold[i] = [k \in 1..len[i] |-> sold[i][k]]
                        /\ sold[i][len[i]].destination = journey[i].destination
                        /\ len[i] = 2 => sold[i][1].destination # journey[i].destination
      OBVIOUS
    <3> HIDE DEF Local
    <3>1. sold[i] = [k \in 1..len[i] |-> Local(sells[i][k])]
      BY <2>5
    <3>2. 1 \in 1..len[i] /\ len[i] \in 1..len[i]
      BY <1>3
    <3>3. \A k \in 1..len[i] : sold[i][k] = Local(sells[i][k])
      BY <3>1
    <3>4. /\ sold[i][len[i]] = Local(sells[i][len[i]])
          /\ len[i] = 2 => sold[i][1] = Local(sells[i][1])
      BY <3>2, <3>3
    <3>5. sold[i] = [k \in 1..len[i] |-> sold[i][k]]
      BY <3>1, <3>3
    <3>6. /\ Local(sells[i][len[i]]).destination = journey[i].destination
          /\ len[i] = 2 => Local(sells[i][1]).destination # journey[i].destination
      <4>1. /\ sells[i][len[i]].destination = journey[i].destination
            /\ len[i] = 2 => sells[i][1].destination # journey[i].destination
            /\ \A k \in 1..len[i] : Local(sells[i][k]).destination = sells[i][k].destination
        BY <1>4
      <4> QED BY <3>2, <4>1
    <3> QED BY <3>4, <3>5, <3>6
  <2>7. offer.segments = {[sequence |-> num[q], flight |-> sold[q[1]][q[2]]] : q \in Places(n, len)}
    <3>1. offer.segments =
            {[sequence |-> (q[1] - 1) * 100 + q[2] - 1,
              flight |-> Local(sells[q[1]][q[2]])] : q \in Places(n, len)}
      BY <1>5, <1>8 DEF AmadeusOfferOf, OfferAs, AmadeusRowsOf
    <3>2. \A q \in Places(n, len) :
            num[q] = (q[1] - 1) * 100 + q[2] - 1 /\ sold[q[1]][q[2]] = Local(sells[q[1]][q[2]])
      <4> HIDE DEF Local
      <4> QED BY <1>6, <2>1, <2>5
    <3> HIDE DEF Local
    <3> QED BY <3>1, <3>2
  <2>8. GroupSegmentsByLeg(journey, offer.segments) = [i \in 1..n |-> ShowLeg(sold[i], journey[i])]
    <3>1. EndWith(n, len, sold, journey)
      BY <2>6 DEF EndWith
    <3>2. Rising(n, len, num)
      BY <2>2, <2>3 DEF Rising
    <3>3. offer.segments = RowsOf(n, len, num, sold)
      BY <2>7 DEF RowsOf
    <3>4. Len(journey) = n
      BY <1>1
    <3> QED BY <3>1, <3>2, <3>3, <3>4, GroupingIs
  <2> QED BY <1>1, <2>4, <2>8
<1> QED BY <1>7, <1>8 DEF Offers

-----------------------------------------------------------------------------
(* The sums, and LegsSound.                                                  *)

\* One segment less than a leg has, in every leg.
LEMMA StopsOf ==
  ASSUME NEW n \in Nat, NEW len \in Sizes(n), NEW stop, \A i \in 1..n : stop[i] = len[i] - 1
  PROVE  Total(stop, 1..n) = Off(len, n) - n
<1> DEFINE T == {i \in 0..n : Total(stop, 1..i) = Off(len, i) - i}
<1>1. /\ Off(len, 0) = 0
      /\ \A i \in 0..n : Off(len, i) \in Nat
      /\ \A i \in 1..n : len[i] \in {1, 2} /\ Off(len, i) = Off(len, i - 1) + len[i]
  BY Offsets
<1>2. \A i \in 1..n : stop[i] \in Nat
  BY <1>1
<1>3. 0 \in T
  <2>1. 1..0 = {}
    OBVIOUS
  <2> QED BY <1>1, <2>1, TotalEmpty
<1>4. \A i \in 0..n : i \in T /\ i < n => i + 1 \in T
  <2> SUFFICES ASSUME NEW i \in 0..n, i \in T, i < n PROVE i + 1 \in T
    OBVIOUS
  <2>1. i \in Nat /\ i + 1 \in 1..n /\ (i + 1) - 1 = i
    OBVIOUS
  <2>2. Total(stop, 1..(i + 1)) = Total(stop, 1..i) + stop[i + 1]
    <3>1. stop[i + 1] \in Nat /\ \A j \in 1..i : stop[j] \in Nat
      BY <1>2, <2>1
    <3> QED BY <2>1, <3>1, TotalOfOneMore
  <2>3. Off(len, i + 1) = Off(len, i) + len[i + 1] /\ len[i + 1] \in {1, 2} /\ Off(len, i) \in Nat
    BY <1>1, <2>1
  <2>4. Total(stop, 1..i) = Off(len, i) - i /\ stop[i + 1] = len[i + 1] - 1
    BY <2>1
  <2>5. Total(stop, 1..(i + 1)) = Off(len, i + 1) - (i + 1)
    BY <2>2, <2>3, <2>4
  <2> QED BY <2>1, <2>5
<1>5. 0..n \subseteq T
  <2> HIDE DEF T
  <2> QED BY <1>3, <1>4, InductionUpTo
<1> QED BY <1>5

\* Stops and minutes of what is sold.
LEMMA OfferedAre ==
  ASSUME NEW journey \in SearchedTrips, NEW sells, SellsFor(journey, sells),
         NEW offer \in Offers(sells)
  PROVE  /\ offer.stops = Off(Lens(sells), Len(journey)) - Len(journey)
         /\ offer.minutes = Total([i \in 1..Len(journey) |-> Minutes(sells[i])], 1..Len(journey))
         /\ offer.stops \in Nat /\ offer.minutes \in Nat
<1>1. PICK n \in Nat : n = Len(journey)
  BY TripFacts
<1>2. /\ Len(sells) = n /\ DOMAIN sells = 1..n /\ Lens(sells) \in Sizes(n)
      /\ \A i \in 1..n : /\ journey[i].origin # journey[i].destination /\ i * LegGap \in Nat
                         /\ sells[i] \in LegFlights(journey[i], i * LegGap)
  BY <1>1, TripFacts
<1>3. PICK stops, minutes : stops = TotalOf(Len, sells) - Len(sells) /\ minutes = TotalOf(Minutes, sells)
  OBVIOUS
<1>9. offer.stops = stops /\ offer.minutes = minutes
  <2>1. \A supplier, rows :
          OfferAs(supplier, rows, sells)
            = [supplier |-> supplier, segments |-> rows, stops |-> stops, minutes |-> minutes]
    BY <1>3 DEF OfferAs
  <2>2. CASE offer = MockOfferOf(sells)
    BY <2>1, <2>2 DEF MockOfferOf
  <2>3. CASE offer = AmadeusOfferOf(sells)
    BY <2>1, <2>3 DEF AmadeusOfferOf
  <2> QED BY <2>2, <2>3 DEF Offers
<1>4. offer.stops = Off(Lens(sells), n) - n
  BY <1>2, <1>3, <1>9, LensUpTo
<1>5. offer.stops \in Nat
  <2>1. Off(Lens(sells), n) \in Nat /\ Off(Lens(sells), n) >= n
    BY <1>2, Offsets
  <2> QED BY <1>4, <2>1
<1>6. PICK f : f = [i \in 1..n |-> Minutes(sells[i])]
  OBVIOUS
<1>7. offer.minutes = Total(f, 1..n)
  BY <1>2, <1>3, <1>6, <1>9 DEF TotalOf
<1>8. offer.minutes \in Nat
  <2>1. \A i \in 1..n : f[i] \in Nat
    BY <1>2, <1>6, FlownFacts
  <2>2. Summable(f, 1..n)
    BY <2>1, FS_Interval DEF Summable
  <2> QED BY <1>7, <2>2, TotalNat
<1> QED BY <1>1, <1>4, <1>5, <1>6, <1>7, <1>8

\* What a shown leg has of the flights of the leg that is sold.
ShowsFlights(display, f, supplier) ==
  /\ Len(f) \in {1, 2} /\ Len(display.flights) = Len(f)
  /\ \A k \in 1..Len(f) : display.flights[k] \in {f[k], Local(f[k])}
  /\ display.origin = f[1].origin
  /\ display.destination = Last(f).destination
  /\ display.stops = Len(f) - 1
  /\ supplier = "mock" => display.minutes = Minutes(f)
  /\ display.layovers = [k \in 1..Len(f) - 1 |-> display.layovers[k]]
  /\ Len(f) = 2 => display.layovers[1].minutes = f[2].departureAt - f[1].arrivalAt

LEMMA ShownLeg ==
  ASSUME NEW journey \in SearchedTrips, NEW sells, SellsFor(journey, sells),
         NEW offer \in Offers(sells), NEW display,
         display = GroupSegmentsByLeg(journey, offer.segments),
         NEW i \in 1..Len(journey)
  PROVE  ShowsFlights(display[i], sells[i], offer.supplier)
<1>1. /\ Len(sells) = Len(journey) /\ journey[i].origin # journey[i].destination
      /\ i * LegGap \in Nat /\ sells[i] \in LegFlights(journey[i], i * LegGap)
  BY TripFacts
<1>2. PICK f : f = sells[i]
  OBVIOUS
<1>3. PICK size \in {1, 2} : size = Len(f)
  BY <1>1, <1>2, FlownFacts
<1>4. /\ f = [k \in 1..size |-> f[k]]
      /\ Last(f) = f[size]
      /\ f[1].origin = journey[i].origin /\ f[size].destination = journey[i].destination
      /\ size = 2 => /\ f[1].destination \in Hubs
                     /\ f[2].origin = f[1].destination
                     /\ f[1].arrivalAt \in Nat /\ f[2].departureAt \in Nat
      /\ \A k \in 1..size :
           /\ Local(f[k]).departureAt = f[k].departureAt + Zone[f[k].origin]
           /\ Local(f[k]).arrivalAt = f[k].arrivalAt + Zone[f[k].destination]
  <2>1. PICK leg : leg = journey[i]
    OBVIOUS
  <2>3. PICK starts \in Nat : starts = i * LegGap
    BY <1>1
  <2>2. f \in LegFlights(leg, starts) /\ leg.origin # leg.destination
    BY <1>1, <1>2, <2>1, <2>3
  <2> QED BY <1>3, <2>1, <2>2, FlownFacts
<1>5. PICK own : own = Sold(offer.supplier, sells)[i]
  OBVIOUS
<1>6. /\ offer.supplier = "mock" => own = f
      /\ offer.supplier # "mock" => own = [k \in 1..size |-> Local(f[k])]
  <2>1. /\ offer.supplier = "mock" => Sold(offer.supplier, sells) = sells
        /\ offer.supplier # "mock" =>
             Sold(offer.supplier, sells)
               = [j \in 1..Len(sells) |-> [k \in 1..Len(sells[j]) |-> Local(sells[j][k])]]
    BY DEF Sold
  <2> QED BY <1>1, <1>2, <1>3, <1>5, <2>1
<1>7. Len(own) = size /\ \A k \in 1..size : own[k] \in {f[k], Local(f[k])}
  <2>1. CASE offer.supplier = "mock"
    BY <1>3, <1>6, <2>1
  <2>2. CASE offer.supplier # "mock"
    BY <1>3, <1>6, <2>2
  <2> QED BY <2>1, <2>2
<1>8. display[i] = ShowLeg(own, journey[i])
  <2>1. display = [j \in 1..Len(journey) |-> ShowLeg(Sold(offer.supplier, sells)[j], journey[j])]
    BY ShownAre
  <2> QED BY <1>5, <2>1
<1>9. /\ display[i].flights = own /\ display[i].stops = size - 1
      /\ display[i].origin = journey[i].origin /\ display[i].destination = journey[i].destination
      /\ display[i].minutes = Minutes(own)
      /\ display[i].layovers = [k \in 1..size - 1 |->
           [airport |-> own[k].destination, minutes |-> own[k + 1].departureAt - own[k].arrivalAt]]
  BY <1>7, <1>8 DEF ShowLeg
<1>10. size = 2 => display[i].layovers[1].minutes = f[2].departureAt - f[1].arrivalAt
  <2> SUFFICES ASSUME size = 2
               PROVE  display[i].layovers[1].minutes = f[2].departureAt - f[1].arrivalAt
    OBVIOUS
  <2>1. display[i].layovers[1].minutes = own[2].departureAt - own[1].arrivalAt
    BY <1>9
  <2>2. CASE offer.supplier = "mock"
    BY <1>6, <2>1, <2>2
  <2>3. CASE offer.supplier # "mock"
    <3>1. own[2] = Local(f[2]) /\ own[1] = Local(f[1])
      BY <1>6, <2>3
    <3>2. PICK hub \in Hubs : hub = f[1].destination /\ hub = f[2].origin
      BY <1>4
    <3>3. Zone[hub] \in Int
      BY <3>2, ItineraryAssumption
    <3>4. /\ Local(f[2]).departureAt = f[2].departureAt + Zone[hub]
          /\ Local(f[1]).arrivalAt = f[1].arrivalAt + Zone[hub]
      BY <1>4, <3>2
    <3>5. f[1].arrivalAt \in Nat /\ f[2].departureAt \in Nat
      BY <1>4
    <3> QED BY <2>1, <3>1, <3>3, <3>4, <3>5
  <2> QED BY <2>2, <2>3
<1>11. display[i].layovers = [k \in 1..size - 1 |-> display[i].layovers[k]]
  BY <1>9
<1>12. offer.supplier = "mock" => display[i].minutes = Minutes(f)
  BY <1>6, <1>9
<1> QED BY <1>2, <1>3, <1>4, <1>7, <1>9, <1>10, <1>11, <1>12 DEF ShowsFlights

\* The whole display.
LEMMA ShownIsSound ==
  ASSUME NEW journey \in SearchedTrips, NEW sells, SellsFor(journey, sells),
         NEW offer \in Offers(sells), NEW display,
         display = GroupSegmentsByLeg(journey, offer.segments)
  PROVE  /\ DOMAIN display = 1..Len(sells) /\ Len(display) = Len(sells) /\ Len(sells) = Len(journey)
         /\ TotalOf(LAMBDA leg : leg.stops, display) = offer.stops
         /\ offer.supplier = "mock" => TotalOf(LAMBDA leg : leg.minutes, display) = offer.minutes
         /\ \A i \in 1..Len(display) : \A k \in 1..Len(display[i].layovers) :
              display[i].layovers[k].minutes = sells[i][k + 1].departureAt - sells[i][k].arrivalAt
<1>1. PICK n \in Nat : n = Len(journey)
  BY TripFacts
<1>2. Len(sells) = n /\ Lens(sells) \in Sizes(n) /\ \A i \in 1..n : Lens(sells)[i] = Len(sells[i])
  BY <1>1, TripFacts
<1>3. DOMAIN display = 1..n /\ Len(display) = n
  <2>1. display = [i \in 1..n |-> ShowLeg(Sold(offer.supplier, sells)[i], journey[i])]
    BY <1>1, ShownAre
  <2> QED BY <2>1
<1>4. PICK stop : stop = [i \in 1..n |-> display[i].stops]
  OBVIOUS
<1>5. TotalOf(LAMBDA leg : leg.stops, display) = Total(stop, 1..n)
  BY <1>3, <1>4 DEF TotalOf
<1>6. \A i \in 1..n : display[i].stops = Len(sells[i]) - 1
  <2> SUFFICES ASSUME NEW i \in 1..Len(journey) PROVE display[i].stops = Len(sells[i]) - 1
    BY <1>1
  <2>s. ShowsFlights(display[i], sells[i], offer.supplier)
    BY ShownLeg
  <2> QED BY <2>s DEF ShowsFlights
<1>7. \A i \in 1..n : stop[i] = Lens(sells)[i] - 1
  BY <1>2, <1>4, <1>6
<1>8. Total(stop, 1..n) = Off(Lens(sells), n) - n
  BY <1>2, <1>7, StopsOf
<1>9. TotalOf(LAMBDA leg : leg.stops, display) = offer.stops
  BY <1>1, <1>5, <1>8, OfferedAre
<1>10. ASSUME offer.supplier = "mock"
       PROVE  TotalOf(LAMBDA leg : leg.minutes, display) = offer.minutes
  <2>1. PICK f : f = [i \in 1..n |-> display[i].minutes]
    OBVIOUS
  <2>2. PICK g : g = [i \in 1..n |-> Minutes(sells[i])]
    OBVIOUS
  <2>3. \A i \in 1..n : display[i].minutes = Minutes(sells[i])
    <3> SUFFICES ASSUME NEW i \in 1..Len(journey) PROVE display[i].minutes = Minutes(sells[i])
      BY <1>1
    <3>s. ShowsFlights(display[i], sells[i], offer.supplier)
      BY ShownLeg
    <3> QED BY <1>10, <3>s DEF ShowsFlights
  <2>4. \A i \in 1..n : f[i] = g[i]
    BY <2>1, <2>2, <2>3
  <2>5. Total(f, 1..n) = Total(g, 1..n)
    BY <2>4, TotalSame
  <2>6. TotalOf(LAMBDA leg : leg.minutes, display) = Total(f, 1..n)
    BY <1>3, <2>1 DEF TotalOf
  <2>7. offer.minutes = Total(g, 1..n)
    BY <1>1, <2>2, OfferedAre
  <2> QED BY <2>5, <2>6, <2>7
<1>11. ASSUME NEW i \in 1..n, NEW k \in 1..Len(display[i].layovers)
       PROVE  display[i].layovers[k].minutes = sells[i][k + 1].departureAt - sells[i][k].arrivalAt
  <2>1. PICK size \in {1, 2} : size = Len(sells[i])
    BY <1>1, ShownLeg DEF ShowsFlights
  <2>2. PICK stay : stay = display[i].layovers
    OBVIOUS
  <2>3. stay = [j \in 1..size - 1 |-> stay[j]]
    BY <1>1, <2>1, <2>2, ShownLeg DEF ShowsFlights
  <2>4. Len(stay) = size - 1
    BY <2>3
  <2>5. size = 2 /\ k = 1
    <3>1. k \in 1..size - 1
      BY <2>2, <2>4
    <3> QED BY <3>1
  <2>6. stay[1].minutes = sells[i][2].departureAt - sells[i][1].arrivalAt
    <3>1. Len(sells[i]) = 2 =>
            display[i].layovers[1].minutes = sells[i][2].departureAt - sells[i][1].arrivalAt
      <4>1. i \in 1..Len(journey)
        BY <1>1
      <4>s. ShowsFlights(display[i], sells[i], offer.supplier)
        BY <4>1, ShownLeg
      <4> QED BY <4>1, <4>s DEF ShowsFlights
    <3> QED BY <2>1, <2>2, <2>5, <3>1
  <2> QED BY <2>2, <2>5, <2>6
<1> QED BY <1>1, <1>2, <1>3, <1>9, <1>10, <1>11

LEMMA LegsSoundOfInv == LegInv => LegsSound
<1> SUFFICES ASSUME LegInv PROVE LegsSound
  OBVIOUS
<1>1. searchedTrip \in SearchedTrips /\ SellsFor(searchedTrip, flown)
  BY DEF LegInv
<1>2. PICK n \in Nat : n = Len(searchedTrip) /\ n = Len(flown)
  BY <1>1, TripFacts
<1>3. offerRow.stops \in Nat /\ offerRow.minutes \in Nat
  <2>1. CASE offerRow = NoOffer
    BY <2>1 DEF NoOffer
  <2>2. CASE offerRow \in Offers(flown)
    BY <1>1, <2>2, OfferedAre
  <2> QED BY <2>1, <2>2 DEF LegInv
<1>4. CASE legsShown = <<>>
  <2>1. Len(legsShown) = 0
    BY <1>4
  <2> QED BY <1>1, <1>2, <1>3, <1>4, <2>1
      DEF LegsSound, ItineraryTypeOK, LegsAreTheFlownOnes, TotalsAgree
<1>5. CASE /\ offerRow \in Offers(flown)
           /\ legsShown = GroupSegmentsByLeg(searchedTrip, offerRow.segments)
  <2>1. Len(legsShown) = n
    BY <1>1, <1>2, <1>5, ShownIsSound
  <2>2. ItineraryTypeOK
    BY <1>1, <1>2, <1>3, <2>1 DEF ItineraryTypeOK
  <2>3. TotalsAgree
    BY <1>1, <1>5, ShownIsSound DEF TotalsAgree
  <2>4. LegsAreTheFlownOnes
    <3>1. ASSUME NEW i \in 1..Len(flown)
          PROVE  /\ Len(legsShown[i].flights) = Len(flown[i])
                 /\ \A k \in 1..Len(flown[i]) :
                      legsShown[i].flights[k] \in {flown[i][k], Local(flown[i][k])}
                 /\ legsShown[i].origin = flown[i][1].origin
                 /\ legsShown[i].destination = Last(flown[i]).destination
      <4>1. i \in 1..Len(searchedTrip)
        BY <1>2
      <4>2. ShowsFlights(legsShown[i], flown[i], offerRow.supplier)
        BY <1>1, <1>5, <4>1, ShownLeg
      <4> QED BY <4>2 DEF ShowsFlights
    <3> QED BY <1>2, <2>1, <3>1 DEF LegsAreTheFlownOnes
  <2> QED BY <2>2, <2>3, <2>4 DEF LegsSound
<1> QED BY <1>4, <1>5 DEF LegInv

LEMMA NoOfferIsNone == ASSUME NEW sells PROVE NoOffer \notin Offers(sells)
<1>1. NoOffer.supplier = "none"
  BY DEF NoOffer
<1>2. \A supplier, rows : OfferAs(supplier, rows, sells).supplier = supplier
  BY DEF OfferAs
<1>3. MockOfferOf(sells).supplier = "mock"
  BY <1>2 DEF MockOfferOf
<1>4. AmadeusOfferOf(sells).supplier = "amadeus"
  BY <1>2 DEF AmadeusOfferOf
<1> QED BY <1>1, <1>3, <1>4 DEF Offers

\* What the adapters store.
LEMMA StoresOffer ==
  ASSUME MockOffer \/ AmadeusOffer
  PROVE  /\ offerRow = NoOffer /\ UNCHANGED <<searchedTrip, flown, legsShown>>
         /\ offerRow' \in Offers(flown)
<1>1. Positions = PlacesOf(flown)
  BY DEF Positions, PlacesOf
<1>2. CASE MockOffer
  BY <1>1, <1>2 DEF Offers, MockOffer, Store, MockOfferOf, OfferAs, MockRowsOf, NumberedThrough
<1>3. CASE AmadeusOffer
  BY <1>1, <1>3 DEF Offers, AmadeusOffer, Store, AmadeusOfferOf, OfferAs, AmadeusRowsOf
<1> QED BY <1>2, <1>3

LEMMA LegInvInit == ItineraryInit => LegInv
<1> SUFFICES ASSUME ItineraryInit PROVE LegInv
  OBVIOUS
<1>1. /\ searchedTrip \in SearchedTrips /\ offerRow = NoOffer /\ legsShown = <<>>
      /\ \E S : flown \in [1..Len(searchedTrip) -> S]
      /\ \A i \in 1..Len(searchedTrip) : flown[i] \in LegFlights(searchedTrip[i], i * LegGap)
  BY DEF ItineraryInit
<1>2. flown = [i \in 1..Len(searchedTrip) |-> flown[i]]
  BY <1>1
<1> QED BY <1>1, <1>2 DEF LegInv, SellsFor

LEMMA LegInvNext == LegInv /\ [ItineraryNext]_itineraryVars => LegInv'
<1> SUFFICES ASSUME LegInv, [ItineraryNext]_itineraryVars PROVE LegInv'
  OBVIOUS
<1>1. CASE MockOffer \/ AmadeusOffer
  <2>1. /\ offerRow = NoOffer /\ UNCHANGED <<searchedTrip, flown, legsShown>>
        /\ offerRow' \in Offers(flown)
    BY <1>1, StoresOffer
  <2>2. legsShown = <<>>
    BY <2>1, NoOfferIsNone DEF LegInv
  <2> QED BY <2>1, <2>2 DEF LegInv
<1>2. CASE SerializeOffer
  BY <1>2 DEF LegInv, SerializeOffer
<1>3. CASE UNCHANGED itineraryVars
  BY <1>3 DEF LegInv, itineraryVars
<1> QED BY <1>1, <1>2, <1>3 DEF ItineraryNext

\* Whatever trip was searched, whatever flights are sold for its legs and
\* whichever adapter stores them, the legs that are shown are the legs that are
\* sold, segment for segment, and the stops, minutes and layovers that are shown
\* are the ones that were added up.
THEOREM LegsAlwaysSound == ItinerarySpec => []LegsSound
<1>1. ItinerarySpec => []LegInv
  BY LegInvInit, LegInvNext, PTL DEF ItinerarySpec
<1> QED BY <1>1, LegsSoundOfInv, PTL
-----------------------------------------------------------------------------
(* The run of MC_Search, as in Pricing_proofs.                               *)

LEMMA SearchingInit ==
  MCInit => FormInit /\ FlightSearchInit /\ HotelSearchInit /\ ChatInit /\ ItineraryInit
BY DEF MCInit

LEMMA SearchingStep ==
  [MCNext]_searchVars =>
    /\ [FormNext]_formVars /\ [FlightSearchNext]_flightSearchVars
    /\ [HotelSearchNext]_hotelSearchVars /\ [ChatNext]_chatVars
    /\ [ItineraryNext]_itineraryVars
<1> SUFFICES ASSUME [MCNext]_searchVars
             PROVE  /\ [FormNext]_formVars /\ [FlightSearchNext]_flightSearchVars
                    /\ [HotelSearchNext]_hotelSearchVars /\ [ChatNext]_chatVars
                    /\ [ItineraryNext]_itineraryVars
  OBVIOUS
<1> USE DEF searchingVars, pricingVars, askingVars
<1>1. CASE Searching /\ UNCHANGED <<pricingVars, askingVars>>
  BY <1>1 DEF Searching
<1>2. CASE Pricing /\ UNCHANGED <<searchingVars, askingVars>>
  BY <1>2 DEF Pricing
<1>3. CASE Asking /\ UNCHANGED <<searchingVars, pricingVars>>
  BY <1>3 DEF Asking
<1>4. CASE UNCHANGED searchVars
  BY <1>4 DEF searchVars
<1> QED BY <1>1, <1>2, <1>3, <1>4 DEF MCNext

\* ChatSpec itself asks for another fairness than the run.
LEMMA SearchingServices ==
  MCSpec => /\ FormSpec /\ FlightSearchSpec /\ HotelSearchSpec /\ ItinerarySpec
            /\ ChatInit /\ [][ChatNext]_chatVars
BY SearchingInit, SearchingStep, PTL
   DEF MCSpec, FormSpec, FlightSearchSpec, HotelSearchSpec, ItinerarySpec

\* SearchTypeOK: the forms, rows, caches and requests of every service stay
\* well-formed, for any values of the constants.
THEOREM SearchTypeCorrect == MCSpec => []SearchTypeOK
BY SearchingServices, PricingTypeCorrect, FormsAlwaysPass, SearchesAlwaysSound,
   HotelSearchesAlwaysSound, ChatsKeepSound, PTL DEF SearchTypeOK

\* OffersSound: the form asks for what it shows, and the offers that come back
\* are those of the suppliers that answered, however the others fail.
THEOREM OffersAlwaysSound == MCSpec => []OffersSound
BY SearchingServices, FormsAlwaysPass, SearchesAlwaysSound, HotelSearchesAlwaysSound, PTL
   DEF OffersSound

\* LegsSound, in the run.
THEOREM LegsInRunSound == MCSpec => []LegsSound
BY SearchingServices, LegsAlwaysSound, PTL

\* ChatsSound, in the run.
THEOREM AssistantAlwaysSound == MCSpec => []ChatsSound
BY SearchingServices, ChatsKeepSound, PTL
=============================================================================
