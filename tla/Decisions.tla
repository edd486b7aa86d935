----------------------------- MODULE Decisions -----------------------------
(***************************************************************************)
(* decision_engine (src/app/tools/decision_engine.py) and what it rests    *)
(* on: remembered preferences against the current request                  *)
(* (src/app/memory/injector.py), the relaxation of hard constraints        *)
(* (src/app/agent/main_agent.py), and the semantic scores of item_picker.  *)
(*                                                                         *)
(* A costed offer is a record of Costs with `offer`, whose facts are those *)
(* of Identity.  Numbers are in thousandths where a unit can be converted. *)
(* A hard constraint is [id, field, op, value, unit]; contains means that  *)
(* the words sought are among the words of the value.                      *)
(***************************************************************************)
EXTENDS Identity

-----------------------------------------------------------------------------
(* One constraint of one offer: satisfied, violated or unknown *)

\* _numeric
Numeric(v, unit) ==
    IF v.num = NoNumber THEN NoNumber
    ELSE IF unit = "kg" /\ v.unit = "g"  THEN v.num \div 1000
    ELSE IF unit = "gb" /\ v.unit = "tb" THEN v.num * 1024
    ELSE v.num

\* _facts_for_constraint: the landed cost, or what the attributes state of the field.
Evidence(c, k) ==
    IF k.field = "budget_cny" THEN {[text |-> {}, num |-> c.landed, unit |-> "none"]}
    ELSE {f[2] : f \in {g \in c.offer.variant \cup c.offer.attributes : g[1] = k.field}}

Verdict(known, satisfied) ==
    IF ~known THEN "unknown" ELSE IF satisfied THEN "satisfied" ELSE "violated"

EvaluateNumeric(evidence, k) ==
    LET expected == Numeric(k.value, k.unit)
        actuals  == {Numeric(v, k.unit) : v \in evidence} \ {NoNumber}
    IN  Verdict(expected # NoNumber /\ actuals # {} /\ k.op \in {"lte", "gte", "equals", "not_equals"},
                CASE k.op = "lte"      -> \E a \in actuals : a <= expected
                  [] k.op = "gte"      -> \E a \in actuals : a >= expected
                  [] k.op = "equals"   -> expected \in actuals
                  [] OTHER             -> expected \notin actuals)

\* A title may only confirm what it contains: its silence proves nothing.
TitleFields == {"material", "color", "style", "specification"}
TitleSpeaks(offer, k) ==
    /\ k.field \in TitleFields /\ k.op \in {"contains", "not_contains"}
    /\ k.value.text \subseteq offer.title

EvaluateText(offer, evidence, k) ==
    LET texts == IF evidence = {} /\ TitleSpeaks(offer, k) THEN {offer.title}
                                                           ELSE {v.text : v \in evidence}
        contains == \E t \in texts : k.value.text \subseteq t
    IN  Verdict(texts # {},
                CASE k.op = "contains"       -> contains
                  [] k.op = "not_contains"   -> ~contains
                  [] k.op = "equals"         -> k.value.text \in texts
                  [] OTHER                   -> k.value.text \notin texts)

EvaluateConstraint(c, k) ==
    LET evidence == Evidence(c, k)
        numeric  == \/ k.field = "budget_cny" \/ k.op \in {"lte", "gte"}
                    \/ /\ k.op \in {"equals", "not_equals"}
                       /\ \E v \in evidence : Numeric(v, k.unit) # NoNumber
    IN  IF numeric THEN EvaluateNumeric(evidence, k)
                   ELSE EvaluateText(c.offer, evidence, k)

WithVerdict(c, constraints, verdict) ==
    {k \in constraints : EvaluateConstraint(c, k) = verdict}

\* What decision_engine does with an offer: any unknown constraint keeps it unverified, whatever
\* it violates.
ClassViolatedFirst(c, constraints) ==
    IF WithVerdict(c, constraints, "violated") # {} THEN "excluded"
    ELSE IF WithVerdict(c, constraints, "unknown") # {} THEN "unverified" ELSE "eligible"
Class(c, constraints) ==
    IF WithVerdict(c, constraints, "unknown") # {} THEN "unverified"
    ELSE IF WithVerdict(c, constraints, "violated") # {} THEN "excluded" ELSE "eligible"

-----------------------------------------------------------------------------
(* _apply_constraint_relaxations: a change removes a constraint or replaces it *)

\* changes is a set of [id, replacement], replacement a set of at most one constraint.
KnownChanges(constraints, changes) ==
    /\ {ch.id : ch \in changes} \subseteq {k.id : k \in constraints}
    /\ \A ch \in changes : \A k \in ch.replacement : k.id = ch.id
Relaxed(constraints, changes) ==
    {k \in constraints : \A ch \in changes : ch.id # k.id}
        \cup UNION {ch.replacement : ch \in changes}

-----------------------------------------------------------------------------
(* resolve_preferences: preferences are [field, text, wanted], text the words of the WHOLE *)
(* value; values are compared as a whole, so "wool" and "pure wool" are two values         *)

Contradicts(p, q) == p.text = q.text /\ p.wanted # q.wanted

\* _current_preferences: the plan's own ones and its material constraints.
CurrentPreferences(plan) ==
    plan.preferences \cup
    {[field |-> IF k.op = "contains" THEN "material" ELSE "avoid", text |-> k.value.text,
      wanted |-> k.op = "contains"] :
        k \in {c \in plan.constraints :
                  c.field = "material" /\ c.op \in {"contains", "not_contains"}}}

\* The values of the current request about materials, which override the same values among the
\* remembered materials and the remembered things to avoid.
CurrentMaterial(plan) ==
    {p.text : p \in {q \in CurrentPreferences(plan) : q.field \in {"material", "avoid"}}}

\* Only values of the same field are compared.
PreferenceStatusPerField(plan, p) ==
    LET same == {q \in CurrentPreferences(plan) : q.field = p.field}
    IN  IF p.text \in {q.text : q \in same} THEN "ignored"
        ELSE IF same # {} THEN "overridden" ELSE "applied"
PreferenceStatus(plan, p) ==
    LET same == {q \in CurrentPreferences(plan) : q.field = p.field}
    IN  IF p.text \in {q.text : q \in same} THEN "ignored"
        ELSE IF \/ same # {}
                \/ p.field \in {"material", "avoid"} /\ p.text \in CurrentMaterial(plan)
             THEN "overridden" ELSE "applied"

EffectiveRemembered(plan, remembered) ==
    {p \in remembered : PreferenceStatus(plan, p) = "applied"}

\* _preference_terms: the request's own materials are constraints, or are left out.
Terms(plan, remembered) ==
    {[text |-> p.text, wanted |-> p.wanted] :
        p \in {q \in plan.preferences : q.field \in {"style", "soft"}}
                \cup EffectiveRemembered(plan, remembered)}

\* _preference_match_score, as matched terms of all terms.
EvidenceTexts(o) == {o.title} \cup {f[2].text : f \in o.attributes \cup o.variant}
MatchedTerms(c, plan, remembered) ==
    Cardinality({p \in Terms(plan, remembered) :
                    p.wanted <=> \E t \in EvidenceTexts(c.offer) : p.text \subseteq t})

-----------------------------------------------------------------------------
(* Ranking *)

Quality(o) == IF o.live THEN 1 ELSE 0       \* the checks of _evidence_quality_score that vary

\* sort_key; semantic is the reranker's score of an item_id, in percent.
Dimension(c, plan, remembered, d) ==
    CASE d = "landed_cost"        -> c.landed
      [] d = "delivery_time"      -> c.eta
      [] d = "preference_match"   -> -MatchedTerms(c, plan, remembered)
      [] OTHER                    -> -Quality(c.offer)
RankKey(c, plan, remembered, semantic) ==
    <<-semantic[c.offer.id]>>
      \o [i \in DOMAIN plan.priority |-> Dimension(c, plan, remembered, plan.priority[i])]
      \o <<c.landed, c.eta, c.offer.platform, c.offer.id>>

Limit(maxItems) == IF maxItems < 1 THEN 1 ELSE IF maxItems < 3 THEN maxItems ELSE 3

=============================================================================
