----------------------------- MODULE MarkupRules -----------------------------
(***************************************************************************)
(* Markup rules and what they add to a fare: PricingAdminService (create,  *)
(* update) and PricingService.computeMarkup, which asks the database once  *)
(* per scope, most specific first, while an administrator may be changing  *)
(* the rules.                                                              *)
(***************************************************************************)
EXTENDS Integers, Sequences, FiniteSets

CONSTANTS
  RuleIds,
  Quotes,          \* markup computations, one fare each
  BaseFare,
  QuoteHasAgency,  \* whether there is an agency in the fare's context
  DefaultMarkup,   \* the supplier's default, already computed; 0 for none
  RuleDtos,        \* the rules an administrator may send to create
  RulePatches,     \* and the changes to update
  PatchLimit       \* bound on the updates

VARIABLES
  rules,       \* rules[i]: the MarkupRule row, or NoRule
  scopeAt,     \* scopeAt[q]: the index of the scope computation q looks in next
  markup,      \* markup[q]: its result, or NoMarkup
  patches,     \* how many updates there were
  patched,     \* history: the rules that have been updated
  rulesMoved   \* history: rulesMoved[q]: the rules made or changed since q began

markupVars == <<rules, scopeAt, markup, patches, patched, rulesMoved>>

ScopeOrder ==
  <<"AGENCY", "FARE_FAMILY", "ROUTE", "CABIN", "AIRLINE", "SUPPLIER", "GLOBAL">>

NoBound == -1
NoMarkup == [rule |-> "none", amount |-> 0]
NoRule == [scope |-> "none", type |-> "FIXED", value |-> 0, min |-> NoBound, max |-> NoBound,
           priority |-> 0, active |-> FALSE, fits |-> FALSE]

Bounds == Nat \cup {NoBound}

\* `fits` says whether the rule's agency, route, cabin... is the fare's.  The
\* dtos ask for bounds of at least 0, and set no limit to value and priority.
RuleRow ==
  [scope : {ScopeOrder[i] : i \in 1..Len(ScopeOrder)}, type : {"FIXED", "PERCENTAGE"},
   value : Int, min : Bounds, max : Bounds, priority : Int, active : BOOLEAN, fits : BOOLEAN]

\* The fields an update sets, and what it sets them to.
RulePatch ==
  [sets : SUBSET {"value", "min", "max", "priority", "active"},
   value : Int, min : Nat, max : Nat, priority : Int, active : BOOLEAN]

ASSUME MarkupAssumption ==
  /\ BaseFare \in Nat /\ DefaultMarkup \in Int /\ PatchLimit \in Nat
  /\ QuoteHasAgency \in BOOLEAN /\ "default" \notin RuleIds
  /\ \A dto \in RuleDtos : dto \in RuleRow
  /\ \A patch \in RulePatches : patch \in RulePatch

MarkupInit ==
  /\ rules = [i \in RuleIds |-> NoRule]
  /\ scopeAt = [q \in Quotes |-> 0]
  /\ markup = [q \in Quotes |-> NoMarkup]
  /\ patches = 0
  /\ patched = {}
  /\ rulesMoved = [q \in Quotes |-> {}]

-----------------------------------------------------------------------------
(* PricingAdminService                                                     *)

BoundsAreOrdered(rule) == rule.min = NoBound \/ rule.max = NoBound \/ rule.min <= rule.max
PercentageIsOne(rule) == rule.type = "PERCENTAGE" => rule.value \in 0..100

RuleMoves(i) ==
  rulesMoved' = [q \in Quotes |-> IF scopeAt[q] > 0 THEN rulesMoved[q] \cup {i} ELSE rulesMoved[q]]

AcceptsRule(dto) == BoundsAreOrdered(dto) /\ PercentageIsOne(dto)

CreateRule(i) ==
  /\ rules[i] = NoRule
  /\ \E dto \in RuleDtos :
       /\ AcceptsRule(dto)
       /\ rules' = [rules EXCEPT ![i] = dto]
  /\ RuleMoves(i)
  /\ UNCHANGED <<scopeAt, markup, patches, patched>>

\* The row with the fields of the patch, and its own where the patch has none.
Patched(rule, patch) ==
  [rule EXCEPT !.value = IF "value" \in patch.sets THEN patch.value ELSE @,
               !.min = IF "min" \in patch.sets THEN patch.min ELSE @,
               !.max = IF "max" \in patch.sets THEN patch.max ELSE @,
               !.priority = IF "priority" \in patch.sets THEN patch.priority ELSE @,
               !.active = IF "active" \in patch.sets THEN patch.active ELSE @]

\* update compares the two bounds of the request, not those of the row it
\* makes, and does not look at the type.
UpdateRule(i) ==
  /\ rules[i] # NoRule
  /\ patches < PatchLimit
  /\ \E patch \in RulePatches :
       /\ {"min", "max"} \subseteq patch.sets => patch.min <= patch.max
       /\ rules' = [rules EXCEPT ![i] = Patched(@, patch)]
  /\ patches' = patches + 1
  /\ patched' = patched \cup {i}
  /\ RuleMoves(i)
  /\ UNCHANGED <<scopeAt, markup>>

-----------------------------------------------------------------------------
(* PricingService                                                          *)

Larger(a, b) == IF a > b THEN a ELSE b
Smaller(a, b) == IF a < b THEN a ELSE b

\* round2 of a percentage, half up; amounts are in the smallest unit.
ApplyValue(type, value) ==
  IF type = "PERCENTAGE" THEN (BaseFare * value + 50) \div 100 ELSE value

\* applyRule: at least the minimum, and then at most the maximum.
ApplyRule(rule) ==
  LET amount == ApplyValue(rule.type, rule.value)
      raised == IF rule.min = NoBound THEN amount ELSE Larger(amount, rule.min)
  IN IF rule.max = NoBound THEN raised ELSE Smaller(raised, rule.max)

StartQuote(q) ==
  /\ scopeAt[q] = 0
  /\ markup[q] = NoMarkup
  /\ scopeAt' = [scopeAt EXCEPT ![q] = IF QuoteHasAgency THEN 1 ELSE 2]
  /\ UNCHANGED <<rules, markup, patches, patched, rulesMoved>>

\* The active rules of a scope that match the fare, and the first of them.
Matching(scope) ==
  {i \in RuleIds : rules[i].scope = scope /\ rules[i].active /\ rules[i].fits}

\* Mutant: the rule with the highest number comes first.
FirstOfLast(ids) == {i \in ids : \A j \in ids : rules[i].priority >= rules[j].priority}

FirstOf(ids) == {i \in ids : \A j \in ids : rules[i].priority <= rules[j].priority}

Answered(q, result) ==
  /\ markup' = [markup EXCEPT ![q] = result]
  /\ scopeAt' = [scopeAt EXCEPT ![q] = 0]

\* One query: the first matching rule of the scope ends the computation.
LookInScope(q) ==
  /\ scopeAt[q] \in 1..Len(ScopeOrder)
  /\ LET found == Matching(ScopeOrder[scopeAt[q]])
     IN IF found = {}
        THEN scopeAt' = [scopeAt EXCEPT ![q] = @ + 1] /\ UNCHANGED markup
        ELSE \E i \in FirstOf(found) :
               Answered(q, [rule |-> i, amount |-> ApplyRule(rules[i])])
  /\ UNCHANGED <<rules, patches, patched, rulesMoved>>

\* No rule at all: the supplier's default, or nothing.
UseDefault(q) ==
  /\ scopeAt[q] = Len(ScopeOrder) + 1
  /\ Answered(q, [rule |-> "default", amount |-> DefaultMarkup])
  /\ UNCHANGED <<rules, patches, patched, rulesMoved>>

MarkupNext ==
  \/ \E i \in RuleIds : CreateRule(i) \/ UpdateRule(i)
  \/ \E q \in Quotes : StartQuote(q) \/ LookInScope(q) \/ UseDefault(q)

MarkupSpec == MarkupInit /\ [][MarkupNext]_markupVars
-----------------------------------------------------------------------------
(* Properties.                                                             *)

MarkupTypeOK ==
  /\ \A i \in RuleIds : rules[i] \in RuleRow \cup {NoRule}
  /\ scopeAt \in [Quotes -> 0..(Len(ScopeOrder) + 1)]
  /\ markup \in [Quotes -> [rule : RuleIds \cup {"default"}, amount : Int] \cup {NoMarkup}]
  /\ patches \in 0..PatchLimit /\ patched \subseteq RuleIds
  /\ rulesMoved \in [Quotes -> SUBSET RuleIds]

Ends(q) == markup[q] = NoMarkup /\ markup'[q] # NoMarkup
Candidates ==
  {i \in RuleIds : rules[i].active /\ rules[i].fits /\ (rules[i].scope = "AGENCY" => QuoteHasAgency)}
ScopeRank(i) == CHOOSE n \in 1..Len(ScopeOrder) : ScopeOrder[n] = rules[i].scope

Precedes(i, j) ==
  \/ ScopeRank(i) < ScopeRank(j)
  \/ ScopeRank(i) = ScopeRank(j) /\ rules[i].priority <= rules[j].priority

\* "Most specific first - the FIRST scope with any active matching rule wins":
\* whatever administrators create, update or reorder between its queries, a
\* markup comes from a rule that matches when it is used and that precedes
\* every matching rule nobody has touched since the computation began; and
\* from the default only if every rule that matches has been touched.
MarkupFollowsRules ==
  [][\A q \in Quotes : Ends(q) =>
       IF markup'[q].rule = "default" THEN Candidates \subseteq rulesMoved[q]
       ELSE /\ markup'[q].rule \in Candidates
            /\ \A i \in Candidates \ rulesMoved[q] : Precedes(markup'[q].rule, i)]_markupVars

\* A markup never exceeds the maximum of the rule it comes from, not even if
\* updates have raised the rule's minimum above it.
MarkupBelowMaximum ==
  [][\A q \in Quotes : Ends(q) /\ markup'[q].rule \in RuleIds =>
       \/ rules[markup'[q].rule].max = NoBound
       \/ markup'[q].amount <= rules[markup'[q].rule].max]_markupVars

\* A rule that was created and never patched has its bounds in order, and a
\* percentage within 100: the validation of the dto lets no other one in.
RulesAreSound ==
  \A i \in RuleIds \ patched :
    BoundsAreOrdered(rules[i]) /\ PercentageIsOne(rules[i])

\* The rules are sound, a quote follows them and stays below their maximum.
MarkupSound == []RulesAreSound /\ MarkupFollowsRules /\ MarkupBelowMaximum
=============================================================================
