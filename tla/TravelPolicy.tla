----------------------------- MODULE TravelPolicy -----------------------------
(***************************************************************************)
(* Corporate travel policies: TravelPolicyService (evaluate, resolvePolicy,*)
(* upsertPolicy, upsertDepartmentPolicy, deleteDepartmentPolicy) with the  *)
(* conversion of FxRatesService it asks for.  A department's override, if  *)
(* there is one, replaces the corporate policy as a whole; the two are     *)
(* read one after the other while administrators change them.              *)
(***************************************************************************)
EXTENDS Integers

CONSTANTS
  Evaluations,      \* bookings being evaluated, one each
  Trips,            \* what is booked: [cabin, fare]
  PolicyAdmins,     \* upserts and deletions, each done once
  PolicyDtos,       \* the policies they may send
  FxRate            \* units of the policy's currency per unit of the fare's; 0: not known

VARIABLES
  policies,     \* policies["corporate"], policies["department"]: the rows
  trip,         \* trip[e]: what evaluation e is about
  evalPc,       \* the evaluations
  verdict,      \* verdict[e]: its result, or NoVerdict
  adminPc, adminAsk,   \* the administrators' requests: what each sends
  \* History.
  followed,     \* followed[e]: the policy evaluation e used
  inForce,      \* inForce[e]: the policies in force while it read
  overrideMade  \* overrideMade[e]: an override was created meanwhile

policyVars ==
  <<policies, trip, evalPc, verdict, adminPc, adminAsk, followed, inForce, overrideMade>>

CabinRank == [ECONOMY |-> 0, PREMIUM_ECONOMY |-> 1, BUSINESS |-> 2, FIRST |-> 3]
Cabins == DOMAIN CabinRank
NoCap == -1
Caps == Nat \cup {NoCap}
Owners == {"corporate", "department"}

\* `foreign`: the policy's currency is not the fare's.
Policy == [maxCabin : Cabins, blockOverMaxCabin : BOOLEAN, soft : Caps, hard : Caps,
           foreign : BOOLEAN]
NoPolicy == [maxCabin |-> "none", blockOverMaxCabin |-> FALSE, soft |-> NoCap, hard |-> NoCap,
             foreign |-> FALSE]

Blocked == [blocked |-> TRUE, requiresApproval |-> FALSE]
NeedsApproval == [blocked |-> FALSE, requiresApproval |-> TRUE]
InPolicy == [blocked |-> FALSE, requiresApproval |-> FALSE]
NoVerdict == [blocked |-> TRUE, requiresApproval |-> TRUE]

ASSUME PolicyAssumption ==
  /\ FxRate \in Nat
  /\ \A t \in Trips : t \in [cabin : Cabins, fare : Nat]
  /\ \A dto \in PolicyDtos : dto \in Policy

-----------------------------------------------------------------------------
(* evaluate                                                                *)

Exceeds(amount, cap) == cap # NoCap /\ amount > cap

\* FxRatesService.convert: a null result skips the caps.
Comparable(policy) == policy.foreign => FxRate > 0
FareIn(policy, fare) == IF policy.foreign THEN fare * FxRate ELSE fare

\* The cabin decides alone when it exceeds the maximum: the caps are not
\* looked at any more.
Evaluate(policy, t) ==
  IF policy = NoPolicy THEN NeedsApproval
  ELSE IF CabinRank[t.cabin] > CabinRank[policy.maxCabin]
  THEN IF policy.blockOverMaxCabin THEN Blocked ELSE NeedsApproval
  ELSE IF Comparable(policy) /\ Exceeds(FareIn(policy, t.fare), policy.hard) THEN Blocked
  ELSE IF Comparable(policy) /\ Exceeds(FareIn(policy, t.fare), policy.soft) THEN NeedsApproval
  ELSE InPolicy

-----------------------------------------------------------------------------
Effective ==
  IF policies["department"] # NoPolicy THEN policies["department"] ELSE policies["corporate"]

PolicyInit ==
  /\ policies = [owner \in Owners |-> NoPolicy]
  /\ trip \in [Evaluations -> Trips]
  /\ evalPc = [e \in Evaluations |-> "start"]
  /\ verdict = [e \in Evaluations |-> NoVerdict]
  /\ adminPc = [a \in PolicyAdmins |-> "start"]
  /\ adminAsk = [a \in PolicyAdmins |-> [owner |-> "corporate", dto |-> NoPolicy, creates |-> FALSE]]
  /\ followed = [e \in Evaluations |-> NoPolicy]
  /\ inForce = [e \in Evaluations |-> {}]
  /\ overrideMade = [e \in Evaluations |-> FALSE]

Decide(e, policy) ==
  /\ verdict' = [verdict EXCEPT ![e] = Evaluate(policy, trip[e])]
  /\ followed' = [followed EXCEPT ![e] = policy]
  /\ evalPc' = [evalPc EXCEPT ![e] = "done"]

\* Mutant: the corporate policy is read first, the override only without one.
ReadOverrideLast(e) ==
  /\ evalPc[e] = "start"
  /\ inForce' = [inForce EXCEPT ![e] = {Effective}]
  /\ IF policies["corporate"] # NoPolicy
     THEN Decide(e, policies["corporate"])
     ELSE /\ evalPc' = [evalPc EXCEPT ![e] = "corporate"]
          /\ UNCHANGED <<verdict, followed>>
  /\ UNCHANGED <<policies, trip, adminPc, adminAsk, overrideMade>>

\* resolvePolicy: the department's override decides, if there is one.
ReadOverride(e) ==
  /\ evalPc[e] = "start"
  /\ inForce' = [inForce EXCEPT ![e] = {Effective}]
  /\ IF policies["department"] # NoPolicy
     THEN Decide(e, policies["department"])
     ELSE /\ evalPc' = [evalPc EXCEPT ![e] = "corporate"]
          /\ UNCHANGED <<verdict, followed>>
  /\ UNCHANGED <<policies, trip, adminPc, adminAsk, overrideMade>>

ReadCorporate(e) ==
  /\ evalPc[e] = "corporate"
  /\ Decide(e, policies["corporate"])
  /\ UNCHANGED <<policies, trip, adminPc, adminAsk, inForce, overrideMade>>

-----------------------------------------------------------------------------
(* Administration                                                          *)

\* A hard cap below the soft cap is refused.
AcceptsPolicy(dto) == dto.hard = NoCap \/ dto.soft = NoCap \/ dto.hard >= dto.soft

\* An upsert: whether the row exists decides if it will be updated or created.
ReadForUpsert(a) ==
  /\ adminPc[a] = "start"
  /\ \E owner \in Owners, dto \in PolicyDtos :
       /\ AcceptsPolicy(dto)
       /\ adminAsk' = [adminAsk EXCEPT ![a] =
            [owner |-> owner, dto |-> dto, creates |-> policies[owner] = NoPolicy]]
  /\ adminPc' = [adminPc EXCEPT ![a] = "upsert"]
  /\ UNCHANGED <<policies, trip, evalPc, verdict, followed, inForce, overrideMade>>

ReadForDelete(a) ==
  /\ adminPc[a] = "start"
  /\ adminPc' = [adminPc EXCEPT ![a] = IF policies["department"] = NoPolicy THEN "done" ELSE "delete"]
  /\ UNCHANGED <<policies, trip, evalPc, verdict, adminAsk, followed, inForce, overrideMade>>

\* The policies change; evaluations under way notice in their history.
Put(owner, policy) ==
  /\ policies' = [policies EXCEPT ![owner] = policy]
  /\ inForce' = [e \in Evaluations |->
       IF evalPc[e] = "corporate" THEN inForce[e] \cup {Effective'} ELSE inForce[e]]
  /\ overrideMade' = [e \in Evaluations |->
       overrideMade[e] \/ (evalPc[e] = "corporate" /\ policies'["department"] # NoPolicy)]

\* create conflicts with a row created meanwhile, update with a deletion.
Upsert(a) ==
  /\ adminPc[a] = "upsert"
  /\ adminAsk[a].creates = (policies[adminAsk[a].owner] = NoPolicy)
  /\ Put(adminAsk[a].owner, adminAsk[a].dto)
  /\ adminPc' = [adminPc EXCEPT ![a] = "done"]
  /\ UNCHANGED <<trip, evalPc, verdict, adminAsk, followed>>

DeleteOverride(a) ==
  /\ adminPc[a] = "delete"
  /\ policies["department"] # NoPolicy
  /\ Put("department", NoPolicy)
  /\ adminPc' = [adminPc EXCEPT ![a] = "done"]
  /\ UNCHANGED <<trip, evalPc, verdict, adminAsk, followed>>

PolicyWriteConflicts(a) ==
  /\ \/ adminPc[a] = "delete" /\ policies["department"] = NoPolicy
     \/ adminPc[a] = "upsert" /\ adminAsk[a].creates # (policies[adminAsk[a].owner] = NoPolicy)
  /\ adminPc' = [adminPc EXCEPT ![a] = "done"]
  /\ UNCHANGED <<policies, trip, evalPc, verdict, adminAsk, followed, inForce, overrideMade>>

PolicyNext ==
  \/ \E e \in Evaluations : ReadOverride(e) \/ ReadCorporate(e)
  \/ \E a \in PolicyAdmins :
       \/ ReadForUpsert(a) \/ Upsert(a) \/ PolicyWriteConflicts(a)
       \/ ReadForDelete(a) \/ DeleteOverride(a)

PolicySpec == PolicyInit /\ [][PolicyNext]_policyVars
-----------------------------------------------------------------------------
(* Properties.                                                             *)

PolicyTypeOK ==
  /\ \A owner \in Owners : policies[owner] \in Policy \cup {NoPolicy}
  /\ trip \in [Evaluations -> Trips]
  /\ evalPc \in [Evaluations -> {"start", "corporate", "done"}]
  /\ verdict \in [Evaluations -> {Blocked, NeedsApproval, InPolicy, NoVerdict}]
  /\ adminPc \in [PolicyAdmins -> {"start", "upsert", "delete", "done"}]
  /\ \A a \in PolicyAdmins :
       /\ adminAsk[a].owner \in Owners /\ adminAsk[a].creates \in BOOLEAN
       /\ adminAsk[a].dto \in PolicyDtos \cup {NoPolicy}
  /\ \A e \in Evaluations : followed[e] \in Policy \cup {NoPolicy}
  /\ \A e \in Evaluations : \A p \in inForce[e] : p \in Policy \cup {NoPolicy}
  /\ overrideMade \in [Evaluations -> BOOLEAN]

\* resolvePolicy's "never both, never merged": an evaluation follows a policy
\* that was in force as a whole at some moment of it, unless an override was
\* created between its two reads.
FollowsAPolicyInForce ==
  \A e \in Evaluations :
    evalPc[e] = "done" /\ ~overrideMade[e] => followed[e] \in inForce[e]

\* "Must be >= softFareCapAmount when both are set (checked in
\* TravelPolicyService)": also when upserts and deletions race.
CapsAreOrdered ==
  \A owner \in Owners :
    LET p == policies[owner] IN p.hard = NoCap \/ p.soft = NoCap \/ p.hard >= p.soft

OverHardCap(e) ==
  /\ followed[e] # NoPolicy /\ ~followed[e].foreign
  /\ Exceeds(trip[e].fare, followed[e].hard)

\* "Fare above this amount is rejected outright, before the booking row is
\* created" (hardFareCapAmount in schema.prisma).  The code does not keep
\* this, since the cabin is judged first and ends the evaluation: no run
\* checks it, and README.md says so.
HardCapRejects ==
  \A e \in Evaluations : evalPc[e] = "done" /\ OverHardCap(e) => verdict[e].blocked

\* It is kept within the policy's cabins.  Above them, and above the hard cap,
\* a booking is never made without an approver.
HardCapNeverPasses ==
  \A e \in Evaluations : evalPc[e] = "done" /\ OverHardCap(e) =>
    /\ verdict[e] # InPolicy
    /\ CabinRank[trip[e].cabin] <= CabinRank[followed[e].maxCabin] => verdict[e].blocked

\* Evaluations follow whole policies that were in force, whose caps are in
\* order and whose hard cap never passes unnoticed.
PoliciesSound == FollowsAPolicyInForce /\ CapsAreOrdered /\ HardCapNeverPasses
=============================================================================
