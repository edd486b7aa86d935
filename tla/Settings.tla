------------------------------- MODULE Settings -------------------------------
(***************************************************************************)
(* What the process concludes from its environment (src/app/config.py).    *)
(* A setting is a record: env, agent (the requested mode), llm (a model is *)
(* configured), rules (ALLOW_RULES_FALLBACK), sandbox, fallback,           *)
(* diagnostic, historical, store, catalog, auth, rate, backend and         *)
(* searched (product search and its marketplaces), channels (marketplaces  *)
(* with endpoint and credential), opensearch (its URL), productIndex (its  *)
(* index of products), ann, index, queryTower, itemTower, userTower,       *)
(* reranker (configured or not) and architecture.                          *)
(***************************************************************************)
EXTENDS FiniteSets

CONSTANT SearchMarkets      \* the marketplaces the program knows

-----------------------------------------------------------------------------
ActiveAgent(s) ==
    IF s.agent = "rules"                 THEN "rules"
    ELSE IF s.llm                        THEN "llm"
    ELSE IF s.agent = "auto" \/ s.rules  THEN "rules"
    ELSE "unavailable"

EnabledMarkets(s) ==
    IF s.sandbox THEN SearchMarkets
    ELSE s.channels \cup (IF s.backend = "opensearch" THEN s.searched ELSE {})

FixtureFallback(s) ==
    s.fallback /\ s.diagnostic /\ s.env # "production" /\ ~s.sandbox

\* The label every task accepted under these settings carries.
DataMode(s) ==
    LET historicalRows == s.historical /\ s.backend = "opensearch"
                            /\ s.env # "production" /\ ~s.sandbox
    IN  IF FixtureFallback(s) \/ historicalRows THEN "mixed"
        ELSE IF s.sandbox THEN "sandbox" ELSE "live"

\* The rule before historical rows were forbidden.
ForbidsWithoutHistory(s) ==
    \/ s.sandbox \/ s.fallback \/ s.diagnostic
    \/ s.store = "memory" \/ s.catalog = "faiss" \/ ~s.auth \/ ~s.rate

\* What production refuses to run with.
ProductionForbids(s) ==
    \/ s.sandbox \/ s.fallback \/ s.diagnostic \/ s.historical
    \/ s.store = "memory" \/ s.catalog = "faiss" \/ ~s.auth \/ ~s.rate

TaskReady(s) ==
    /\ ActiveAgent(s) # "unavailable"
    /\ ~(s.env = "production" /\ ProductionForbids(s))
    /\ s.backend = "opensearch" => s.opensearch
    /\ EnabledMarkets(s) # {}

RecallComplete(s) ==
    IF s.backend = "opensearch"
    THEN s.opensearch /\ s.productIndex /\ s.searched # {} /\ s.queryTower
    ELSE s.opensearch /\ s.ann /\ s.index /\ s.queryTower /\ s.itemTower

Channels == {"opensearch", "query_tower", "item_tower", "faiss"}
Configured(s, c) ==
    CASE c = "opensearch"  -> s.opensearch
      [] c = "query_tower" -> s.ann /\ s.queryTower
      [] c = "item_tower"  -> s.ann /\ s.itemTower
      [] c = "faiss"       -> s.ann /\ s.index

\* recall_readiness: the mode the process announces without having asked any channel.
AnnouncedMode(s) ==
    CASE s.backend = "opensearch" /\ s.opensearch ->
            IF s.searched # {} /\ s.queryTower THEN "hybrid" ELSE "partial_hybrid"
      [] s.backend = "opensearch" /\ ~s.opensearch           -> "deterministic_fallback"
      [] s.backend # "opensearch" /\ \A c \in Channels : Configured(s, c) -> "hybrid"
      [] s.backend # "opensearch" /\ \A c \in Channels : ~Configured(s, c) ->
            "deterministic_fallback"
      [] OTHER                                               -> "partial_hybrid"

\* The channel that is missing, of those recall needs.
RecallActions(s) ==
    {x \in {"opensearch", "query_tower", "item_tower", "ann", "index"} :
        CASE x = "opensearch"  -> ~s.opensearch
          [] x = "query_tower" -> ~s.queryTower
          [] x = "item_tower"  -> s.backend # "opensearch" /\ ~s.itemTower
          [] x = "ann"         -> s.backend # "opensearch" /\ ~s.ann
          [] x = "index"       -> s.backend # "opensearch" /\ s.ann /\ ~s.index}

\* What readiness tells the operator to change (the partial channels, advice of their own,
\* are left out).
RequiredActions(s) ==
    {x \in {"agent", "sandbox", "fallback", "diagnostic", "fallback_needs_diagnostic",
            "marketplace", "opensearch", "store", "catalog", "historical", "auth", "rate"} :
        CASE x = "agent"                     -> ActiveAgent(s) = "unavailable"
          [] x = "fallback_needs_diagnostic" -> s.fallback /\ ~s.diagnostic
          [] x = "marketplace"               -> EnabledMarkets(s) = {}
          [] x = "opensearch"                -> s.backend = "opensearch" /\ ~s.opensearch
          [] OTHER -> /\ s.env = "production"
                      /\ CASE x = "sandbox"    -> s.sandbox
                           [] x = "fallback"   -> s.fallback
                           [] x = "diagnostic" -> s.diagnostic
                           [] x = "store"      -> s.store = "memory"
                           [] x = "catalog"    -> s.catalog = "faiss"
                           [] x = "historical" -> s.historical
                           [] x = "auth"       -> ~s.auth
                           [] x = "rate"       -> ~s.rate}

Status(s) ==
    LET marketsComplete == IF s.backend = "opensearch" THEN s.searched # {}
                           ELSE SearchMarkets \subseteq s.channels
    IN  IF ~TaskReady(s) THEN "not_ready"
        ELSE IF \/ s.sandbox \/ FixtureFallback(s) \/ ~marketsComplete
                \/ s.env = "production" /\ s.store = "memory"
                \/ ~RecallComplete(s)
             THEN "degraded" ELSE "ready"
=============================================================================
