------------------------------ MODULE Identity ------------------------------
(***************************************************************************)
(* Which offers are proven to be the same product,                         *)
(* src/app/tools/identity_matcher.py.  Keys and values are normalised:     *)
(* a value is the set of words of its text with the number it may start    *)
(* with, and the facts of an offer are pairs of a key and a value.         *)
(***************************************************************************)
EXTENDS Integers, Sequences, FiniteSets

NoNumber == -1
Unstated == [text |-> {}, num |-> NoNumber, unit |-> "none"]

KnownAttributes == {"capacity", "condition", "bundle", "color", "material", "region"}

\* _variant_facts: variant attributes, then the known ones among the attributes.
VariantFacts(o) ==
    o.variant \cup {f \in o.attributes : /\ f[1] \in KnownAttributes
                                         /\ \A g \in o.variant : g[1] # f[1]}
IdentityFacts(o) ==
    VariantFacts(o) \cup {f \in {<<"brand", o.brand>>, <<"model", o.model>>} : f[2] # Unstated}

\* _authority_identifier: the GTIN, or else the MPN.
Authority(o) ==
    IF o.gtin # Unstated THEN <<"gtin", o.gtin>>
    ELSE IF o.mpn # Unstated THEN <<"mpn", o.mpn>> ELSE <<"none", Unstated>>
HasAuthority(o) == Authority(o)[1] # "none"

Keys(facts) == {f[1] : f \in facts}
Matched(a, b) == Keys(IdentityFacts(a) \cap IdentityFacts(b))
Missing(a, b) ==
    LET ka == Keys(IdentityFacts(a))  kb == Keys(IdentityFacts(b)) IN (ka \ kb) \cup (kb \ ka)
Conflicting(a, b) ==
    (Keys(IdentityFacts(a)) \cap Keys(IdentityFacts(b))) \ Matched(a, b)

\* match_offer_identity = "matching_offer": the same identifier on both sides and no conflict,
\* or no identifier on either side, brand and model, and no fact only one side states.
Matches(a, b) ==
    /\ Authority(a) = Authority(b)
    /\ Conflicting(a, b) = {}
    /\ HasAuthority(a) \/ (Missing(a, b) = {} /\ {"brand", "model"} \subseteq Matched(a, b))

\* _identity_strength
Strength(o) ==
    <<IF HasAuthority(o) THEN 1 ELSE 0,
      IF {"brand", "model"} \subseteq Keys(IdentityFacts(o)) THEN 1 ELSE 0,
      Cardinality(Keys(IdentityFacts(o)))>>

MatchesOf(offers, i) == {j \in DOMAIN offers \ {i} : Matches(offers[i], offers[j])}

\* The reference: most matches, then the strongest identity, then the earliest.
Exceeds(s, t) == \E i \in DOMAIN s : s[i] > t[i] /\ \A j \in 1 .. i - 1 : s[j] = t[j]
ReferenceKey(offers, i) == <<Cardinality(MatchesOf(offers, i))>> \o Strength(offers[i]) \o <<-i>>
Reference(offers) ==
    CHOOSE i \in DOMAIN offers :
        \A j \in DOMAIN offers \ {i} : Exceeds(ReferenceKey(offers, i), ReferenceKey(offers, j))

\* classify_exact_offers: the positions of the one group of matching offers; all other offers
\* are alternatives.
MatchingGroup(offers) ==
    IF Len(offers) < 2 THEN {}
    ELSE LET matches == MatchesOf(offers, Reference(offers))
         IN  IF matches = {} THEN {} ELSE matches \cup {Reference(offers)}

=============================================================================
