------------------------------ MODULE OfferFlow ------------------------------
(***************************************************************************)
(* What the pipeline does with the offers that recall selected             *)
(* (src/app/agent/main_agent.py, from the customs evidence to the          *)
(* summary), step by step as the tool calls of ResearchPipeline: customs   *)
(* evidence, exchange rates and price_compare, shipping_calc and the       *)
(* offers without full costs, item_picker, shopping_summary.               *)
(*                                                                         *)
(* Ids of offers are distinct here; the services that add evidence answer, *)
(* have nothing, or fail.                                                  *)
(***************************************************************************)
EXTENDS Costs, Decisions, Functions
LOCAL INSTANCE ImportTax

CONSTANTS
    OfferInputs,        \* sequences of recalled offers
    Plans,              \* resolved intents: mode, constraints, preferences, priority
    RememberedChoices,  \* sets of remembered preferences
    OfficialRates,      \* the customs service's evidence for an offer it can classify
    CustomsLimit,       \* enrich_candidates looks at so many offers
    CompareLimit        \* price_compare keeps so many

\* Rates are whole percent; a consumption tax is below 100 (schemas.py).
CustomsEvidence ==
    [regime : STRING, valued : BOOLEAN, value : Nat, insurance : Nat, tariff : Nat, vat : Nat,
     consumption : 0 .. 99, postal : Nat, threshold : Nat, collected : Nat]
Stated == [text : SUBSET STRING, num : Int, unit : STRING]
Offers ==
    [id : Nat, platform : Nat, live : BOOLEAN, currency : STRING, amount : Nat \cup {Invalid},
     fx : {"none", "good", "expired", "openEnded", "other"},
     ship : {"none", "good", "expired", "openEnded", "staleFx", "openFx"},
     shipForeign : BOOLEAN, freight : Nat, eta : Nat, classified : BOOLEAN,
     customs : CustomsEvidence \cup {NoCustoms}, title : SUBSET STRING, brand : Stated,
     model : Stated, gtin : Stated, mpn : Stated, variant : SUBSET (STRING \X Stated),
     attributes : SUBSET (STRING \X Stated)]

\* Research without any candidate ends before the customs evidence.
ASSUME OfferAssumption ==
    /\ CustomsLimit \in Nat /\ CompareLimit \in Nat \ {0}
    /\ OfficialRates \subseteq CustomsEvidence
    /\ \A offers \in OfferInputs :
          /\ offers \in Seq(Offers) /\ offers # <<>>
          /\ \A i, j \in DOMAIN offers : offers[i].id = offers[j].id => i = j
          /\ \A i \in DOMAIN offers :
                IsFiniteSet(offers[i].variant) /\ IsFiniteSet(offers[i].attributes)
    /\ \A plan \in Plans : plan.priority \in Seq(STRING) /\ IsFiniteSet(plan.preferences)
    /\ \A remembered \in RememberedChoices : IsFiniteSet(remembered)

VARIABLES
    step,       \* the call that comes next, "done" or "failed"
    task,       \* [offers, plan, remembered]
    evidence,   \* the offers with the evidence added to them
    costs,      \* shipping.items: complete costs, then product prices
    picks,      \* the output of item_picker
    answer      \* what shopping_summary says

offerVars == <<step, task, evidence, costs, picks, answer>>

-----------------------------------------------------------------------------
(* item_picker *)

Exact(plan) == plan.mode = "exact_offer_comparison"

MatchingPositions(items, plan) ==
    IF Exact(plan) THEN MatchingGroup([i \in DOMAIN items |-> items[i].offer])
                   ELSE DOMAIN items

Recommended(matching, plan, remembered, semantic) ==
    Take(SortBy(Keep(matching, LAMBDA c : Class(c, plan.constraints) = "eligible"),
                LAMBDA c : RankKey(c, plan, remembered, semantic)),
         Limit(3))

Decision(items, plan, remembered, semantic) ==
    LET group    == MatchingPositions(items, plan)
        matching == AtPositions(items, group)
        of(class) == {c \in Elements(matching) : Class(c, plan.constraints) = class}
    IN  [recommendations |-> Recommended(matching, plan, remembered, semantic),
         matching        |-> matching,
         alternatives    |-> AtPositions(items, DOMAIN items \ group),
         unverified      |-> of("unverified"),
         exclusions      |-> of("excluded"),
         relaxations     |-> UNION {WithVerdict(c, plan.constraints, "violated") :
                                        c \in of("excluded")},
         effective       |-> EffectiveRemembered(plan, remembered)]

\* _rerank_offers: scores in percent by item_id, or none at all.
NoScores(items) == [id \in {c.offer.id : c \in Elements(items)} |-> 0]
ScoreChoices(items) ==
    {NoScores(items)} \cup {[NoScores(items) EXCEPT ![c.offer.id] = 100] : c \in Elements(items)}

\* The answer of shopping_summary.
Answer(p, excluded) ==
    IF p.recommendations # <<>>                            THEN "recommendations"
    ELSE IF p.unverified # {}                              THEN "unverified"
    ELSE IF p.alternatives # <<>> /\ p.matching = <<>>     THEN "alternatives"
    ELSE IF p.exclusions # {} \/ p.matching # <<>>         THEN "excluded"
    ELSE IF excluded                                       THEN "no_price"
    ELSE "no_candidates"

-----------------------------------------------------------------------------
(* The steps *)

NoPicks == Decision(<<>>, [mode |-> "none", constraints |-> {}, preferences |-> {},
                           priority |-> <<>>], {}, <<>>)

Fails == step' = "failed" /\ UNCHANGED <<task, evidence, costs, picks, answer>>

\* What the customs service cannot answer leaves an offer as it is, but only its
\* CustomsEvidenceError is caught: a service that cannot be reached ends the research.
AddCustoms ==
    /\ step = "customs"
    /\ \/ \E official \in OfficialRates \cup {NoCustoms} :
              /\ evidence' = [i \in DOMAIN task.offers |->
                                 IF i <= CustomsLimit THEN EnrichCustoms(task.offers[i], official)
                                                      ELSE task.offers[i]]
              /\ step' = "price_compare"
              /\ UNCHANGED <<task, costs, picks, answer>>
       \/ (\E o \in Elements(task.offers) : AsksCustoms(o)) /\ Fails

\* Today's rates are looked up or not; without any usable rate the comparison raises.
ComparePrices ==
    /\ step = "price_compare"
    /\ \E available \in BOOLEAN :
          LET offers == [i \in DOMAIN evidence |-> EnrichConversion(evidence[i], available)]
          IN  \/ /\ ~NoExchangeRates(offers)
                 /\ evidence' = offers /\ step' = "shipping_calc"
                 /\ UNCHANGED <<task, costs, picks, answer>>
              \/ NoExchangeRates(offers) /\ Fails

CalculateCosts ==
    /\ step = "shipping_calc"
    /\ costs' = CostedOffers(evidence, CompareLimit) /\ step' = "item_picker"
    /\ UNCHANGED <<task, evidence, picks, answer>>

PickItems ==
    /\ step = "item_picker"
    /\ \E semantic \in ScoreChoices(costs) :
          picks' = Decision(costs, task.plan, task.remembered, semantic)
    /\ step' = "shopping_summary"
    /\ UNCHANGED <<task, evidence, costs, answer>>

Summarize ==
    /\ step = "shopping_summary"
    /\ answer' = Answer(picks, PriceExclusions(evidence) # <<>>)
    /\ step' = "done"
    /\ UNCHANGED <<task, evidence, costs, picks>>

OfferInit ==
    /\ step = "customs"
    /\ task \in [offers : OfferInputs, plan : Plans, remembered : RememberedChoices]
    /\ evidence = <<>> /\ costs = <<>> /\ picks = NoPicks /\ answer = "none"

OfferNext == AddCustoms \/ ComparePrices \/ CalculateCosts \/ PickItems \/ Summarize

OfferSpec == OfferInit /\ [][OfferNext]_offerVars

-----------------------------------------------------------------------------
(* Properties *)

Ids(s) == {c.offer.id : c \in Elements(s)}
Done == step = "done"

OfferTypeOK ==
    /\ step \in {"customs", "price_compare", "shipping_calc", "item_picker",
                "shopping_summary", "done", "failed"}
    /\ task.offers \in OfferInputs /\ Len(evidence) \in {0, Len(task.offers)}
    /\ Len(costs) <= CompareLimit /\ Len(picks.recommendations) <= 3

\* No offer is lost between the tools: what recall selected and price_compare neither excludes
\* nor cuts reaches the result, as a matching offer or an alternative, and a matching offer
\* is recommended, unverified or excluded unless better ones fill the recommendations.  The
\* answer says that nothing could be priced only if nothing could.
NothingVanishes ==
    Done => LET picked   == Ids(picks.recommendations)
                judged   == {c.offer.id : c \in picks.unverified \cup picks.exclusions}
                matching == Ids(picks.matching)
            IN  /\ matching \cup Ids(picks.alternatives) = {o.id : o \in Elements(Compared(evidence, CompareLimit))}
                /\ matching \cap Ids(picks.alternatives) = {}
                /\ picked \cup judged \subseteq matching
                /\ matching # picked \cup judged => Len(picks.recommendations) = Limit(3)
                /\ answer = "no_price" <=> costs = <<>>
                /\ answer # "no_candidates"

\* The order in which marketplaces and recall deliver the offers does not change the result,
\* as long as all of them are looked at for customs evidence.
OrderIndependent ==
    step = "item_picker" =>
        \A p \in Bijection(DOMAIN evidence, DOMAIN evidence) :
            CostedOffers([i \in DOMAIN evidence |-> evidence[p[i]]], CompareLimit) = costs

\* The relaxations offered are sufficient: a shopper who confirms all of them makes every
\* excluded offer eligible.
RelaxationsSuffice ==
    Done => LET changes == {[id |-> k.id, replacement |-> {}] : k \in picks.relaxations}
            IN  /\ KnownChanges(task.plan.constraints, changes)
                /\ \A c \in picks.exclusions :
                      Class(c, Relaxed(task.plan.constraints, changes)) = "eligible"

AboutMaterials(p, q) == {p.field, q.field} \subseteq {"material", "avoid"}

\* Whatever is remembered, a preference in effect never contradicts a material of the same
\* value that the current request asks for or rules out, in whichever field either stands.
\* Values are the same as wholes: "avoid wool" stays in effect against a demand for "pure wool".
CurrentRequestWins ==
    Done => \A p \in picks.effective, q \in CurrentPreferences(task.plan) :
                AboutMaterials(p, q) => ~Contradicts(p, q)

\* Offers presented as the same product agree with each other, not only with one of them.
MatchingOffersAgree ==
    Done /\ Exact(task.plan) =>
        \A c, d \in Elements(picks.matching) : Conflicting(c.offer, d.offer) = {}

=============================================================================
