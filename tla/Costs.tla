-------------------------------- MODULE Costs --------------------------------
(***************************************************************************)
(* From a recalled offer to its cost: customs and exchange-rate evidence   *)
(* (src/app/tools/customs_provider.py, fx_reference.py), price_compare.py, *)
(* shipping_calc.py, and the costs the pipeline keeps for offers without   *)
(* them (src/app/agent/main_agent.py).                                     *)
(*                                                                         *)
(* An offer is a record.  Its amount is in fen of its currency or Invalid; *)
(* fx, the price conversion it came with, and ship, its shipping quote,    *)
(* say what makes them usable or not: "none", "good", "expired",           *)
(* "openEnded" (no expiry), "other" (a conversion of another currency) and *)
(* "staleFx", "openFx" (the conversion of the quote itself).               *)
(***************************************************************************)
EXTENDS Ordering
LOCAL INSTANCE ImportTax

Invalid == -1
RateToCny == 7          \* every conversion carries the same rate

-----------------------------------------------------------------------------
(* Evidence added on the way *)

NoCustoms == [regime |-> "none"]

\* enrich_candidates: with CUSTOMS_AUTO_LOOKUP an offer without customs evidence, but with
\* HS code, origin and a CNY shipping quote, gets the official general-trade rates.  An offer
\* whose evidence is incomplete stays as it is; official is what the service returned.
AsksCustoms(o) ==
    /\ o.customs = NoCustoms /\ o.classified
    /\ o.ship # "none" /\ ~o.shipForeign /\ o.amount # Invalid
EnrichCustoms(o, official) ==
    IF AsksCustoms(o) /\ official # NoCustoms
    THEN LET goods == IF o.currency = "CNY" THEN o.amount ELSE o.amount * RateToCny
         IN  [o EXCEPT !.customs = [official EXCEPT !.value = goods + o.freight]]
    ELSE o

\* enrich_price_conversions: which conversion is replaced by today's reference rate.
NeedsReferenceRate(o) ==
    /\ o.currency # "CNY"
    /\ o.fx \in {"none", "other"} \cup (IF o.live THEN {"openEnded", "expired"} ELSE {})
EnrichConversion(o, available) ==
    IF available /\ NeedsReferenceRate(o) THEN [o EXCEPT !.fx = "good"] ELSE o

-----------------------------------------------------------------------------
(* price_compare *)

\* Why an offer is left out of the comparison, or "ok".
PriceVerdict(o) ==
    IF o.amount = Invalid                                   THEN "invalid_amount"
    ELSE IF o.currency = "CNY"                              THEN "ok"
    ELSE IF o.fx = "none"                                   THEN "missing_fx_evidence"
    ELSE IF \/ o.fx \in {"other", "expired"}
            \/ o.fx = "openEnded" /\ o.live                 THEN "invalid_fx_evidence"
    ELSE "ok"

PriceCny(o) == IF o.currency = "CNY" THEN o.amount ELSE o.amount * RateToCny

PriceKeyUnstable(o) == <<PriceCny(o)>>
PriceKey(o) == <<PriceCny(o), o.platform, o.id>>

Priced(offers) == SortBy(Keep(offers, LAMBDA o : PriceVerdict(o) = "ok"), PriceKey)
PriceExclusions(offers) == Keep(offers, LAMBDA o : PriceVerdict(o) # "ok")

\* MissingExchangeRatesError: there are valid amounts, and each lacks its exchange rate.
NoExchangeRates(offers) ==
    /\ Priced(offers) = <<>>
    /\ \E o \in Elements(offers) : PriceVerdict(o) # "invalid_amount"

-----------------------------------------------------------------------------
(* shipping_calc *)

ShippingVerdict(o) ==
    CASE o.ship = "none"                              -> "missing_shipping_quote"
      [] o.ship = "openEnded" /\ o.live               -> "invalid_shipping_quote"
      [] o.ship = "expired"                           -> "expired_shipping_quote"
      [] o.ship = "openFx" /\ o.live                  -> "invalid_shipping_quote"
      [] o.ship = "staleFx"                           -> "invalid_shipping_quote"
      [] OTHER                                        -> "ok"

TaxVerdict(o) ==
    IF o.customs = NoCustoms THEN "missing_customs_evidence"
    ELSE IF /\ o.customs.regime \in {"general_trade", "cross_border_ecommerce"}
            /\ ~o.customs.valued
         THEN "missing_customs_valuation" ELSE "ok"

Freight(o) == IF o.shipForeign THEN o.freight * RateToCny ELSE o.freight

\* The evidence an offer lacks; shipping is looked at first, and alone.
Gap(o) ==
    IF ShippingVerdict(o) # "ok"                          THEN "shipping_quote"
    ELSE IF TaxVerdict(o) = "missing_customs_evidence"    THEN "customs_evidence"
    ELSE IF TaxVerdict(o) = "missing_customs_valuation"   THEN "customs_valuation"
    ELSE "none"

LandedCost(o) ==
    [offer |-> o, complete |-> TRUE, gaps |-> {}, eta |-> o.eta,
     landed |-> PriceCny(o) + Freight(o) + o.customs.insurance
                  + ImportTax(o.customs, PriceCny(o), Freight(o))]

\* product_price_only_cost
PriceOnly(o, gaps) ==
    [offer |-> o, complete |-> FALSE, gaps |-> gaps, eta |-> 999, landed |-> PriceCny(o)]

LandedKey(c) == <<c.landed, c.offer.platform, c.offer.id>>

Compared(offers, limit) == Take(Priced(offers), limit)
LandedCosts(ranked) ==
    LET complete == Keep(ranked, LAMBDA o : Gap(o) = "none")
    IN  SortBy([i \in DOMAIN complete |-> LandedCost(complete[i])], LandedKey)

\* The pipeline adds the offers with gaps again, at their product price.  It knows offers by
\* their item_id: gaps and complete costs of two offers with one id are taken for one.
GapsOfId(ranked, id) == {Gap(o) : o \in {p \in Elements(ranked) : p.id = id}} \ {"none"}
\* Only the shipping exclusions are turned into gaps.
ProvisionalShippingOnly(ranked) ==
    LET kept == Keep(ranked, LAMBDA o : Gap(o) = "shipping_quote")
    IN  [i \in DOMAIN kept |-> PriceOnly(kept[i], {"shipping_quote"})]
Provisional(ranked) ==
    LET complete == {o.id : o \in {p \in Elements(ranked) : Gap(p) = "none"}}
        kept     == Keep(ranked, LAMBDA o : o.id \notin complete /\ GapsOfId(ranked, o.id) # {})
    IN  [i \in DOMAIN kept |-> PriceOnly(kept[i], GapsOfId(ranked, kept[i].id))]


CostedOffers(offers, limit) ==
    LET ranked == Compared(offers, limit) IN LandedCosts(ranked) \o Provisional(ranked)

=============================================================================
