----------------------------- MODULE MCOfferFlow -----------------------------
(* Instances of OfferFlow for TLC: offers that differ where the tools look, in every *)
(* selection of up to four of them, and intents of both modes. *)
EXTENDS OfferFlow

Words(ws) == [text |-> ws, num |-> NoNumber, unit |-> "none"]
Word(w) == Words({w})
Measure(n, u) == [text |-> {}, num |-> n, unit |-> u]

GeneralTradeRates ==
    [regime |-> "general_trade", valued |-> TRUE, value |-> 10010, insurance |-> 0, tariff |-> 7,
     vat |-> 13, consumption |-> 15, postal |-> 0, threshold |-> 0, collected |-> 0]
CrossBorderRates ==
    [GeneralTradeRates EXCEPT !.regime = "cross_border_ecommerce", !.value = 3333]
PostalRates ==
    [GeneralTradeRates EXCEPT !.regime = "personal_postal", !.postal = 20, !.threshold = 5000]

Plain ==
    [id |-> 1, platform |-> 1, live |-> TRUE, currency |-> "CNY", amount |-> 10007,
     fx |-> "none", ship |-> "good", shipForeign |-> FALSE, freight |-> 303, eta |-> 5,
     classified |-> FALSE, customs |-> GeneralTradeRates, title |-> {"bag"},
     brand |-> Word("acme"), model |-> Word("x"), gtin |-> Unstated, mpn |-> Unstated,
     variant |-> {}, attributes |-> {<<"material", Word("wool")>>}]

OfferKinds == <<
    Plain,
    [Plain EXCEPT !.id = 2, !.platform = 2, !.customs = NoCustoms, !.classified = TRUE,
                  !.gtin = Word("g"), !.attributes = {}],
    [Plain EXCEPT !.id = 3, !.currency = "USD", !.amount = 1501, !.customs = CrossBorderRates,
                  !.gtin = Word("g"), !.variant = {<<"capacity", Measure(256000, "gb")>>},
                  !.attributes = {}, !.title = {"bag", "wool"}],
    [Plain EXCEPT !.id = 4, !.platform = 2, !.ship = "none", !.gtin = Word("g"),
                  !.variant = {<<"capacity", Measure(512000, "gb")>>},
                  !.attributes = {<<"material", Word("cotton")>>}],
    [Plain EXCEPT !.id = 5, !.live = FALSE, !.currency = "USD", !.fx = "expired",
                  !.amount = 1400, !.customs = NoCustoms],
    [Plain EXCEPT !.id = 6, !.amount = Invalid],
    [Plain EXCEPT !.id = 7, !.amount = 9000, !.customs = PostalRates,
                  !.variant = {<<"capacity", Measure(512, "tb")>>},
                  !.attributes = {<<"weight_kg", Measure(1500000, "g")>>,
                                  <<"material", Word("cotton")>>}],
    [Plain EXCEPT !.id = 8, !.ship = "expired", !.customs = NoCustoms, !.mpn = Word("m"),
                  !.attributes = {<<"material", Words({"pure", "wool"})>>}]>>

Choices(n) == {s \in [1 .. n -> DOMAIN OfferKinds] : \A i \in 1 .. n - 1 : s[i] < s[i + 1]}
Selections == {[i \in DOMAIN s |-> OfferKinds[s[i]]] : s \in UNION {Choices(n) : n \in 1 .. 4}}

\* Three offers with one GTIN; the first states no capacity, the others state different ones.
GtinChain == {<<OfferKinds[2], OfferKinds[3], OfferKinds[4]>>}

Limits(id, field, op, value) ==
    [id |-> id, field |-> field, op |-> op, value |-> value, unit |-> value.unit]
NoWool == Limits("m", "material", "not_contains", Word("wool"))
Wool == Limits("w", "material", "contains", Word("wool"))
PureWool == Limits("p", "material", "contains", Words({"pure", "wool"}))
Budget == Limits("b", "budget_cny", "lte", Measure(10100, "none"))
LargeCapacity == Limits("c", "capacity", "gte", Measure(300000, "gb"))

Prefers(field, word, wanted) == [field |-> field, text |-> {word}, wanted |-> wanted]
NotWool == Prefers("material", "wool", FALSE)

CostFirst == <<"landed_cost", "preference_match", "evidence_quality", "delivery_time">>
PreferenceFirst == <<"preference_match", "delivery_time", "evidence_quality", "landed_cost">>

Research(constraints, preferences, priority) ==
    [mode |-> "product_research", constraints |-> constraints, preferences |-> preferences,
     priority |-> priority]
Comparison(constraints, preferences) ==
    [mode |-> "exact_offer_comparison", constraints |-> constraints,
     preferences |-> preferences, priority |-> CostFirst]

\* As the planner makes them: what is ruled out is a constraint and a material preference.
Intents ==
    {Research({NoWool, Budget}, {NotWool}, CostFirst),
     Research({NoWool, LargeCapacity}, {NotWool, Prefers("style", "bag", TRUE)}, PreferenceFirst),
     Research({PureWool}, {}, PreferenceFirst),
     Comparison({}, {}),
     Comparison({Budget, Wool}, {})}

RememberedSets ==
    {{}, {Prefers("material", "wool", TRUE), Prefers("avoid", "wool", FALSE),
          Prefers("style", "plain", TRUE)}}

ServiceRates == {GeneralTradeRates}
=============================================================================
