----------------------------- MODULE ProductSearch -----------------------------
(***************************************************************************)
(* The search of a research on every marketplace it planned:               *)
(* src/app/tools/item_search.py with product_search.py and ebay_browse.py, *)
(* and what the research and its summary make of the outcomes              *)
(* (src/app/agent/main_agent.py, src/app/tools/shopping_summary.py and the *)
(* result contract of src/app/schemas.py).                                 *)
(*                                                                         *)
(* A search asks one source after the other; each answers with rows, of    *)
(* which only the kinds (live or fixture) matter, or fails in the ways the *)
(* code tells apart.  The searches of a research share nothing, so they    *)
(* run here one after the other; how they interleave is ResearchPipeline's *)
(* business.  The task's label is fixed before it runs: a new task takes   *)
(* the label of the process, which has to be ready; a rerun keeps its      *)
(* parent's, which another configuration may have given.                   *)
(***************************************************************************)
EXTENDS Settings, Ordering

CONSTANTS
    SettingChoices,     \* the configurations of the instance
    Plannable,          \* the marketplaces a plan may ask for; {} without a plan
    SearchOrder         \* the marketplaces in the order they are searched

VARIABLES
    conf,       \* the settings the process runs with
    label,      \* the task: [mode, planned], its data_mode and the plan's marketplaces
    hunt,       \* the running search: [market, at, covered]
    results,    \* what the searches returned, in their order
    verdict     \* what becomes of the task: "none", "unavailable", "refused" or a result kind

searchVars == <<conf, label, hunt, results, verdict>>

NoHunt == [market |-> "none", at |-> "none", covered |-> TRUE]
Modes == {"live", "mixed", "sandbox"}
Reasons == {"none", "request_failed", "empty_response", "circuit_open", "not_configured",
            "sandbox_forbidden"}

\* The marketplaces the research searches: those of its plan, if it has one; with product
\* search only the enabled ones among them, unless that leaves none.
Selected ==
    LET enabled == EnabledMarkets(conf)
        planned == IF label.planned = {} THEN enabled ELSE label.planned
        chosen  == IF conf.backend # "opensearch" THEN planned
                   ELSE IF planned \cap enabled = {} THEN enabled ELSE planned \cap enabled
    IN  SelectSeq(SearchOrder, LAMBDA m : m \in chosen)

Searched(s, m) == s.backend = "opensearch" /\ m \in s.searched
BrowseHelps(s, m) == m = "ebay" /\ ~s.sandbox /\ s.browse

-----------------------------------------------------------------------------
(* What a search returns: the kinds of its rows, the kind its provider reports, whether the *)
(* vector channel was used, its status and the reason of a failure. *)

Rows(m, kinds, kind, ann, status) ==
    [market |-> m, kinds |-> kinds, kind |-> kind, ann |-> ann, status |-> status,
     reason |-> "none"]
Unavailable(m, kind, reason) ==
    [market |-> m, kinds |-> {}, kind |-> kind, ann |-> FALSE, status |-> "unavailable",
     reason |-> reason]
Fixtures(m, reason) ==
    [Rows(m, {"fixture"}, "fixture", FALSE, "degraded") EXCEPT !.reason = reason]

\* The snapshot rows a search may see.
IndexKinds(s, m) ==
    {"live"} \cup (IF s.sandbox \/ (m = "amazon" /\ s.historical) THEN {"fixture"} ELSE {})

\* search_products: which vector it searches with and why not with a good one.  A vector of
\* the wrong dimension is reported as unavailable, yet stays in the request.
Embeddings(s) ==
    IF ~s.queryTower THEN {[used |-> FALSE, degraded |-> TRUE]}
    ELSE {[used |-> TRUE, degraded |-> FALSE], [used |-> FALSE, degraded |-> TRUE],
          [used |-> TRUE, degraded |-> TRUE]}

IndexRows(s, m) ==
    {Rows(m, kinds, IF kinds = {"fixture"} THEN "fixture" ELSE "live", v.used,
          IF v.degraded THEN "degraded" ELSE "ok") :
        kinds \in (SUBSET IndexKinds(s, m)) \ {{}}, v \in Embeddings(s)}

-----------------------------------------------------------------------------
(* Steps *)

Returns(r) == results' = Append(results, r) /\ hunt' = NoHunt
Goes(at) == hunt' = [hunt EXCEPT !.at = at] /\ UNCHANGED results

\* What comes after the search index and the official service: fixtures or the channel.
Provider(s) == IF s.sandbox THEN "fixtures" ELSE "channel"

Begins(m) ==
    \E covered \in (IF m = "ebay" THEN BOOLEAN ELSE {TRUE}) :
        hunt' = [market |-> m, covered |-> covered,
                 at |-> CASE Searched(conf, m) /\ BrowseHelps(conf, m) /\ ~covered -> "official"
                          [] Searched(conf, m) /\ (covered \/ ~BrowseHelps(conf, m)) -> "index"
                          [] ~Searched(conf, m) /\ BrowseHelps(conf, m)            -> "direct"
                          [] OTHER                                                 -> Provider(conf)]

BeginSearch ==
    /\ hunt = NoHunt /\ verdict = "none" /\ Len(results) < Len(Selected)
    /\ Begins(Selected[Len(results) + 1])
    /\ UNCHANGED <<conf, label, results, verdict>>

\* The branch of a research survives whatever a search raises.
BranchFails ==
    /\ hunt.at \in {"official", "index", "again", "direct"}
    /\ Returns(Unavailable(hunt.market, IF label.mode = "sandbox" THEN "fixture" ELSE "live",
                        "request_failed"))
    /\ UNCHANGED <<conf, label, verdict>>

\* ebay_browse.search for a query no snapshot covers, after the index failed, or without index.
OfficialAnswers ==
    /\ hunt.at \in {"official", "again", "direct"}
    /\ Returns(Rows(hunt.market, {"live"}, "live", FALSE, "degraded"))
    /\ UNCHANGED <<conf, label, verdict>>
OfficialFails ==
    /\ hunt.at \in {"official", "again", "direct"}
    /\ CASE hunt.at = "official" -> Goes("index")
         [] hunt.at = "direct"   -> Goes(Provider(conf))
         [] OTHER -> \E reason \in {"request_failed", "empty_response"} :
                         Returns(Unavailable(hunt.market, "live", reason))
    /\ UNCHANGED <<conf, label, verdict>>

IndexAnswers ==
    /\ hunt.at = "index" /\ conf.opensearch /\ conf.productIndex
    /\ \E r \in IndexRows(conf, hunt.market) : Returns(r)
    /\ UNCHANGED <<conf, label, verdict>>
IndexFails ==
    /\ hunt.at = "index"
    /\ CASE BrowseHelps(conf, hunt.market) -> Goes("again")
         [] conf.sandbox                   -> Goes("fixtures")
         [] OTHER -> \E reason \in {"request_failed", "empty_response"} :
                         Returns(Unavailable(hunt.market, "live", reason))
    /\ UNCHANGED <<conf, label, verdict>>

\* Sandbox mode: the local catalog of historical offers or the deterministic fixtures.
FixturesAnswer ==
    /\ hunt.at = "fixtures"
    /\ Returns(IF conf.env = "production"
            THEN Unavailable(hunt.market, "live", "sandbox_forbidden")
            ELSE Fixtures(hunt.market, "none"))
    /\ UNCHANGED <<conf, label, verdict>>

ChannelAnswers ==
    /\ hunt.at = "channel" /\ hunt.market \in conf.channels
    /\ Returns(Rows(hunt.market, {"live"}, "live", FALSE, "ok"))
    /\ UNCHANGED <<conf, label, verdict>>
ChannelFails ==
    /\ hunt.at = "channel"
    /\ IF hunt.market \notin conf.channels
       THEN Returns(Unavailable(hunt.market, "live", "not_configured"))
       ELSE \/ Returns(Unavailable(hunt.market, "live", "circuit_open"))
            \/ \E reason \in {"request_failed", "empty_response"} :
                 Returns(IF FixtureFallback(conf) THEN Fixtures(hunt.market, reason)
                      ELSE Unavailable(hunt.market, "live", reason))
    /\ UNCHANGED <<conf, label, verdict>>

-----------------------------------------------------------------------------
(* What the research makes of it *)

Offered == UNION {r.kinds : r \in Elements(results)}
Failed == {r.market : r \in {q \in Elements(results) :
                                q.status = "unavailable" \/ q.reason # "none"}}

ResultKind ==
    CASE label.mode = "sandbox" /\ Failed = {}    -> "sandbox"
      [] Failed # {} \/ label.mode = "mixed"      -> "partial"
      [] OTHER                                    -> "live"

\* A result may not hold offers or name providers that contradict the task's label: building
\* such a result raises, and the task fails.
Sources == Offered \cup {r.kind : r \in Elements(results)}
RefusesSandboxOnly == label.mode = "sandbox" /\ "live" \in Sources
Refused ==
    \/ label.mode = "live" /\ "fixture" \in Sources
    \/ label.mode = "sandbox" /\ "live" \in Sources

ConcludeSearch ==
    /\ hunt = NoHunt /\ verdict = "none" /\ Len(results) = Len(Selected)
    /\ verdict' = IF \/ Offered = {}
                     \/ \A r \in Elements(results) : r.status = "unavailable"
                  THEN "unavailable"
                  ELSE IF Refused THEN "refused" ELSE ResultKind
    /\ UNCHANGED <<conf, label, hunt, results>>

\* A rerun asks for no readiness and brings the label of a parent that some configuration
\* accepted; a new task is the case of a ready process and its own label.
SearchInit ==
    /\ conf \in SettingChoices
    /\ label \in [mode : Modes, planned : Plannable]
    /\ hunt = NoHunt /\ results = <<>> /\ verdict = "none"

SearchNext ==
    \/ BeginSearch \/ BranchFails \/ OfficialAnswers \/ OfficialFails \/ IndexAnswers
    \/ IndexFails \/ FixturesAnswer \/ ChannelAnswers \/ ChannelFails \/ ConcludeSearch

SearchSpec == SearchInit /\ [][SearchNext]_searchVars

-----------------------------------------------------------------------------
(* Properties *)

SearchTypeOK ==
    /\ conf \in SettingChoices
    /\ label \in [mode : Modes, planned : Plannable]
    /\ hunt.at \in {"none", "official", "index", "again", "direct", "fixtures", "channel"}
    /\ \A r \in Elements(results) : /\ r.kinds \subseteq {"live", "fixture"}
                                    /\ r.status \in {"ok", "degraded", "unavailable"}
                                    /\ r.reason \in Reasons
    /\ verdict \in {"none", "unavailable", "refused", "live", "sandbox", "partial"}

\* No result of a task labelled live holds a fixture, of a new task or of a rerun that meets
\* other settings, and one called live has live rows of every marketplace and nothing else; and
\* the contract that sees to it never refuses the research of a task whose label comes from
\* the settings it runs with, unless the sandbox searches the product index, which is
\* asked for live rows too.  It takes what readiness forbids, what the index may return, what
\* falls back where, and how the label, the kind and the contract are derived.
LiveMeansLive ==
    /\ label.mode = "live" /\ verdict \in {"live", "partial"} => "fixture" \notin Offered
    /\ verdict = "live" => \A r \in Elements(results) : r.kinds = {"live"}
    /\ /\ TaskReady(conf) /\ label.mode = DataMode(conf)
       /\ ~(conf.sandbox /\ conf.backend = "opensearch")
       => verdict # "refused"

\* A process that takes no task says what to change, and one that calls itself ready has
\* nothing to change, misses no channel of recall and announces hybrid recall.
ReadinessExplained ==
    /\ ~TaskReady(conf) => RequiredActions(conf) # {}
    /\ Status(conf) = "ready" => /\ RequiredActions(conf) \subseteq {"fallback_needs_diagnostic"}
                                 /\ RecallActions(conf) = {}
                                 /\ AnnouncedMode(conf) = "hybrid"
=============================================================================
