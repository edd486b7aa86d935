-------------------------------- MODULE Recall --------------------------------
(***************************************************************************)
(* Recall over the Product Evidence of a research                          *)
(* (src/app/recall/orchestrator.py), with the category knowledge it reads  *)
(* (src/app/tools/category_insight.py): which channels are configured, how *)
(* each answers, what orders the offers and what the provenance says of it.*)
(*                                                                         *)
(* Offers are the positions 1 .. size of the pool.  Scores are small       *)
(* numbers; NoScores stands for an answer that is absent or unusable.  The *)
(* reasons of a failed call (timeout, malformed, ...) are one: "failed".   *)
(***************************************************************************)
EXTENDS Settings, Ordering

CONSTANTS
    RecallSettings,     \* the configurations of the instance
    PoolSizes,          \* how many offers the searches found
    TopK,               \* how many offers recall is asked for
    HitChoices,         \* answers of the index: sequences of [score, at]
    ScorerAnswers       \* answers of a scorer, per position

\* Offers and their positions are numbers; what a scorer or the index answers is checked to
\* be a list of numbers before it is used, and at least one offer is asked for.
ASSUME RecallAssumption ==
    /\ PoolSizes \subseteq Nat /\ TopK \in Nat \ {0}
    /\ HitChoices \subseteq Seq([score : Int, at : Nat]) /\ ScorerAnswers \subseteq Seq(Int)
    /\ \A s \in RecallSettings :
          {s.opensearch, s.ann, s.index, s.queryTower, s.itemTower} \subseteq BOOLEAN

VARIABLES
    setup,      \* [conf, size, insight, product, wish]: what recall is called with
    stage,      \* "begin", "towers", "index", "scores", "select" or "done"
    pending,    \* the towers still asked
    channels,   \* the report of each channel
    persona,    \* the personalization report
    vectors,    \* [query, items, user]: what the towers returned
    scores,     \* [user, rerank, item, category], and the usable hits of the index
    outcome     \* [selected, mode, used]

recallVars == <<setup, stage, pending, channels, persona, vectors, scores, outcome>>

Pool == [i \in 1 .. setup.size |-> i]
Conf == setup.conf

-----------------------------------------------------------------------------
(* Configuration *)

Report(s) ==
    [c \in Channels |-> [configured |-> Configured(s, c), part |-> FALSE, reason |-> "initial",
                         state |-> IF Configured(s, c) THEN "configured" ELSE "unavailable"]]

\* The User Tower is asked only with preferences the shopper has saved (wish), in the
\* architecture of three towers, next to an Item Tower and an index; it counts as configured
\* too when nothing is known of the shopper.
Persona(s, wish) ==
    [part |-> FALSE,
     state |-> IF /\ s.architecture = "legacy_three" /\ s.userTower /\ s.ann
                  /\ wish # "empty" /\ s.itemTower
               THEN "configured" ELSE "unavailable"]

\* category_insight: live knowledge, with or without its semantic channel, or the built-in card.
Insights(s) ==
    {[live |-> FALSE, ok |-> FALSE]} \cup
    (IF s.opensearch THEN {[live |-> TRUE, ok |-> TRUE], [live |-> TRUE, ok |-> FALSE]} ELSE {})

\* Whether product search used its vectors: for no marketplace, some or all of them, or not
\* at all the product search path.
ProductChoices(s) ==
    IF s.backend = "opensearch" THEN {"unused", "partial", "complete"} ELSE {"legacy"}

-----------------------------------------------------------------------------
Set(f, c, state, reason, part) ==
    [f EXCEPT ![c] = [@ EXCEPT !.state = state, !.reason = reason, !.part = part]]

\* What the product search and the category knowledge say of OpenSearch.
OpenSearchReport(f) ==
    LET said(state, reason, part) == Set(f, "opensearch", state, reason, part)
    IN  IF ~f["opensearch"].configured THEN f
        ELSE IF setup.product = "complete"
        THEN IF setup.insight.ok THEN said("ready", "ready", TRUE)
                                 ELSE said("degraded", "category_fallback", TRUE)
        ELSE IF setup.product = "partial" THEN said("degraded", "product_ann_partial", TRUE)
        ELSE IF setup.product = "unused"  THEN said("degraded", "product_ann_unavailable", FALSE)
        ELSE IF setup.insight.live
        THEN IF setup.insight.ok THEN said("ready", "ready", FALSE)
                                 ELSE said("degraded", "semantic_fallback", FALSE)
        ELSE said("degraded", "request_failed", FALSE)

EmptyPool(f) ==
    [c \in Channels |-> IF c # "opensearch" /\ f[c].configured
                        THEN [f[c] EXCEPT !.state = "degraded", !.reason = "empty_candidate_set"]
                        ELSE f[c]]

BeginRecall ==
    /\ stage = "begin"
    /\ LET f == OpenSearchReport(channels)
       IN  IF setup.size = 0
           THEN channels' = EmptyPool(f) /\ stage' = "scores" /\ UNCHANGED pending
           ELSE channels' = f /\ IF Conf.ann
                THEN stage' = "towers" /\ pending' = {"query", "item", "user"}
                ELSE stage' = "scores" /\ UNCHANGED pending
    /\ persona' = IF (setup.size = 0 \/ ~Conf.ann) /\ persona.state = "configured"
                  THEN [persona EXCEPT !.state = "degraded"] ELSE persona
    /\ UNCHANGED <<setup, vectors, scores, outcome>>

\* The three towers are asked at once.
QueryTower ==
    /\ stage = "towers" /\ "query" \in pending
    /\ pending' = pending \ {"query"}
    /\ IF ~channels["query_tower"].configured THEN UNCHANGED <<channels, vectors>>
       ELSE \/ /\ channels' = Set(channels, "query_tower", "ready", "ready", FALSE)
               /\ vectors' = [vectors EXCEPT !.query = TRUE]
            \/ /\ channels' = Set(channels, "query_tower", "unavailable", "failed", FALSE)
               /\ UNCHANGED vectors
    /\ UNCHANGED <<setup, stage, persona, scores, outcome>>

ItemTower ==
    /\ stage = "towers" /\ "item" \in pending
    /\ pending' = pending \ {"item"}
    /\ IF ~channels["item_tower"].configured THEN UNCHANGED <<channels, vectors>>
       ELSE \E n \in 0 .. setup.size :
            /\ vectors' = [vectors EXCEPT !.items = n]
            /\ channels' = CASE n = setup.size ->
                                    Set(channels, "item_tower", "ready", "ready", FALSE)
                             [] n \in 1 .. setup.size - 1 ->
                                    Set(channels, "item_tower", "degraded", "partial", FALSE)
                             [] OTHER ->
                                    Set(channels, "item_tower", "unavailable", "failed", FALSE)
    /\ UNCHANGED <<setup, stage, persona, scores, outcome>>

UserTower ==
    /\ stage = "towers" /\ "user" \in pending
    /\ pending' = pending \ {"user"}
    /\ IF persona.state # "configured" \/ setup.wish # "saved" THEN UNCHANGED <<persona, vectors>>
       ELSE \/ /\ persona' = [persona EXCEPT !.state = "ready"]
               /\ vectors' = [vectors EXCEPT !.user = TRUE]
            \/ persona' = [persona EXCEPT !.state = "degraded"] /\ UNCHANGED vectors
    /\ UNCHANGED <<setup, stage, channels, scores, outcome>>

\* Faiss needs the query and a vector of every offer; what it answers are positions of its
\* index, usable or not.
IndexUsable == channels["faiss"].configured /\ vectors.query /\ vectors.items = setup.size
SearchIndex ==
    /\ stage = "towers" /\ pending = {}
    /\ stage' = "index"
    /\ IF ~IndexUsable
       THEN /\ channels' = IF ~channels["faiss"].configured THEN channels
                           ELSE Set(channels, "faiss", "unavailable",
                                    IF ~vectors.query THEN "query_tower_unavailable"
                                    ELSE "item_tower_unavailable", FALSE)
            /\ UNCHANGED scores
       ELSE \/ /\ channels' = Set(channels, "faiss", "unavailable", "failed", FALSE)
               /\ UNCHANGED scores
            \/ \E hits \in HitChoices :
               /\ scores' = [scores EXCEPT !.hits = hits]
               /\ channels' = IF hits = <<>>
                              THEN Set(channels, "faiss", "degraded", "empty_response", FALSE)
                              ELSE Set(channels, "faiss", "ready", "ready", FALSE)
    /\ UNCHANGED <<setup, pending, persona, vectors, outcome>>

\* Similarities to the user and the query, by the vectors the towers returned.
ScoreOffers ==
    /\ stage = "index" /\ stage' = "scores"
    /\ \E user, item \in ScorerAnswers, mismatch \in BOOLEAN :
        LET scored == vectors.user /\ vectors.items = setup.size /\ ~mismatch
        IN  /\ scores' = [scores EXCEPT
                              !.user = IF scored THEN user ELSE <<>>,
                              !.item = IF vectors.query /\ vectors.items > 0 THEN item ELSE <<>>]
            /\ persona' = IF ~vectors.user THEN persona
                          ELSE [persona EXCEPT !.part = scored,
                                               !.state = IF scored THEN @ ELSE "degraded"]
    /\ UNCHANGED <<setup, pending, channels, vectors, outcome>>

\* The reranker is asked next to the towers, or alone in the path without product search; what
\* it returns for another number of offers is dropped.
Rerank ==
    /\ stage = "scores" /\ stage' = "select"
    /\ \E rerank \in ScorerAnswers \cup {<<>>}, category \in ScorerAnswers :
        scores' = [scores EXCEPT
            !.rerank = IF /\ Conf.reranker /\ setup.size > 0
                          /\ Conf.ann \/ setup.product = "legacy"
                       THEN rerank ELSE <<>>,
            !.category = IF setup.insight.live THEN category ELSE <<>>]
    /\ UNCHANGED <<setup, pending, channels, persona, vectors, outcome>>

-----------------------------------------------------------------------------
(* Selection *)

Of(f, i) == IF i \in DOMAIN f THEN f[i] ELSE 0
SomeScore(f) == \E i \in DOMAIN f : f[i] > 0

MappedTwice(hits) == Keep(hits, LAMBDA hit : hit.at \in 1 .. setup.size)

\* The hits that name an offer of the pool, each offer once.
Mapped(hits) ==
    LET first(k) == /\ hits[k].at \in 1 .. setup.size
                    /\ \A j \in 1 .. k - 1 : hits[j].at # hits[k].at
    IN  AtPositions(hits, {k \in DOMAIN hits : first(k)})

ByIndex(hits) ==
    LET ranked == SortBy(hits, LAMBDA hit : <<-hit.score, -Of(scores.rerank, hit.at),
                                             -Of(scores.user, hit.at), -Of(scores.item, hit.at),
                                             -Of(scores.category, hit.at), hit.at>>)
    IN  [k \in DOMAIN ranked |-> ranked[k].at]

ByScores == SortBy(Pool, LAMBDA i : <<-Of(scores.user, i), -Of(scores.rerank, i),
                                     -Of(scores.category, i), i>>)

RecallLimit == IF TopK < setup.size THEN TopK ELSE setup.size

\* The offers, and the channels they owe their order to.  Without any score all of them stay.
Selection ==
    LET mapped == Mapped(scores.hits)
    IN  CASE mapped # <<>> ->
                [offers |-> Take(ByIndex(mapped), RecallLimit), used |-> Channels, lost |-> FALSE]
          [] mapped = <<>> /\ scores.hits # <<>> ->
                [offers |-> Pool, used |-> {}, lost |-> TRUE]
          [] /\ scores.hits = <<>>
             /\ scores.user # <<>> \/ scores.rerank # <<>> \/ SomeScore(scores.category) ->
                [offers |-> Take(ByScores, RecallLimit), lost |-> FALSE,
                 used |-> IF SomeScore(scores.category) THEN {"opensearch"} ELSE {}]
          [] OTHER -> [offers |-> Pool, used |-> {}, lost |-> FALSE]

Participates(f, used) ==
    [c \in Channels |-> IF c \in used /\ f[c].state \in {"ready", "degraded"}
                        THEN [f[c] EXCEPT !.part = TRUE] ELSE f[c]]

\* In the product search path only OpenSearch counts for the mode.
Effective == IF setup.product = "legacy" THEN Channels ELSE {"opensearch"}
ModeOf(f) ==
    CASE \A c \in Effective : f[c].state = "ready" /\ f[c].part -> "hybrid"
      [] \A c \in Effective : ~f[c].part                        -> "deterministic_fallback"
      [] OTHER                                                  -> "partial_hybrid"

SelectOffers ==
    /\ stage = "select" /\ stage' = "done"
    /\ LET f == IF Selection.lost
                THEN Set(channels, "faiss", "degraded", "faiss_id_mapping_failed", FALSE)
                ELSE channels
           g == Participates(f, Selection.used)
       IN  channels' = g /\ outcome' = [offers |-> Selection.offers, mode |-> ModeOf(g)]
    /\ UNCHANGED <<setup, pending, persona, vectors, scores>>

RecallInit ==
    /\ \E s \in RecallSettings, size \in PoolSizes, wish \in {"absent", "empty", "saved"} :
       \E insight \in Insights(s), product \in ProductChoices(s) :
        /\ setup = [conf |-> s, size |-> size, insight |-> insight, product |-> product,
                    wish |-> wish]
        /\ channels = Report(s) /\ persona = Persona(s, wish)
    /\ stage = "begin" /\ pending = {}
    /\ vectors = [query |-> FALSE, items |-> 0, user |-> FALSE]
    /\ scores = [user |-> <<>>, rerank |-> <<>>, item |-> <<>>, category |-> <<>>, hits |-> <<>>]
    /\ outcome = [offers |-> <<>>, mode |-> "none"]

RecallNext ==
    \/ BeginRecall \/ QueryTower \/ ItemTower \/ UserTower \/ SearchIndex \/ ScoreOffers
    \/ Rerank \/ SelectOffers

RecallSpec == RecallInit /\ [][RecallNext]_recallVars

-----------------------------------------------------------------------------
(* Properties *)

RecallTypeOK ==
    /\ setup.conf \in RecallSettings /\ setup.size \in PoolSizes
    /\ stage \in {"begin", "towers", "index", "scores", "select", "done"}
    /\ pending \subseteq {"query", "item", "user"}
    /\ \A c \in Channels : channels[c].state \in {"configured", "ready", "degraded", "unavailable"}
    /\ persona.state \in {"configured", "ready", "degraded", "unavailable"}
    /\ vectors.items \in 0 .. setup.size
    /\ outcome.mode \in {"none", "hybrid", "partial_hybrid", "deterministic_fallback"}

\* Recall loses no research and hides no influence.  Whatever its optional channels answer,
\* it selects something when there was something, no offer twice; an order that is not the
\* pool's is owed to a channel or a user signal that the provenance shows, or to the
\* reranker; and the mode is hybrid only if every channel that counts answered well - all of
\* product search with its category knowledge, or all four with an index that ordered the
\* offers - while a deterministic fallback was not ordered by the index, except in the product
\* search path of a process that has no index of its own configured.
RecallDisclosed ==
    stage = "done" =>
        LET o == outcome.offers IN
        /\ setup.size > 0 => o # <<>>
        /\ \A i, j \in DOMAIN o : o[i] = o[j] => i = j
        /\ \/ \A i \in DOMAIN o : o[i] = i
           \/ persona.part \/ scores.rerank # <<>> \/ \E c \in Channels : channels[c].part
        /\ outcome.mode = "hybrid" =>
              IF setup.product = "legacy"
              THEN setup.insight.ok /\ vectors.query /\ vectors.items = setup.size
                     /\ Mapped(scores.hits) # <<>>
              ELSE setup.product = "complete" /\ setup.insight.ok
        /\ outcome.mode = "deterministic_fallback" =>
              \/ Mapped(scores.hits) = <<>>
              \/ setup.product # "legacy" /\ ~channels["opensearch"].configured
=============================================================================
