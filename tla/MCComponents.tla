----------------------------- MODULE MCComponents -----------------------------
(* The components that share no state with each other, in one instance: every behaviour   *)
(* runs one of them, chosen at the start, while the others stand still in a state in      *)
(* which their fairness asks for nothing.                                                 *)
EXTENDS MCRequestQueue, MCOfferFlow, ProviderCircuit, ResearchPipeline, RuntimeDrain,
        ResearchLineage, PreferenceStore, ProductSearch, Recall, MCClarification,
        TaskFiles, MCTaskLocks

CONSTANTS a, b, c       \* marketplaces

VARIABLE part           \* the component that runs

Parts == {"queue", "circuit", "pipeline", "offers", "drain", "lineage", "preferences",
          "search", "recall", "clarification", "files", "locks"}

allVars == <<part, vars, circuitVars, pipelineVars, offerVars, drainVars, lineageVars,
             preferenceVars, searchVars, recallVars, clarificationVars, filesVars, locksVars>>

\* The settings of the instance: any prefix of the marketplaces is enabled.
Enabled == {{a}, {a, b}, {a, b, c}}

Remember(v) == [action |-> "remember", value |-> v]
Forget(v) == [action |-> "forget", value |-> v]
Lists == {<<Remember("a")>>, <<Remember("b"), Forget("a")>>}

\* A configuration of the process, ready unless what follows changes that.
Base ==
    [env |-> "development", agent |-> "auto", llm |-> TRUE, rules |-> FALSE,
     sandbox |-> FALSE, fallback |-> FALSE, diagnostic |-> FALSE, historical |-> FALSE,
     store |-> "redis", catalog |-> "disabled", auth |-> TRUE, rate |-> TRUE,
     backend |-> "opensearch", searched |-> {"amazon", "ebay"}, channels |-> {},
     browse |-> FALSE, opensearch |-> TRUE, productIndex |-> TRUE, queryTower |-> TRUE,
     itemTower |-> TRUE, userTower |-> TRUE, reranker |-> TRUE, ann |-> FALSE, index |-> TRUE,
     architecture |-> "legacy_three"]

\* The data sources in their combinations, and single settings that make a process unready.
DataSettings ==
    {[Base EXCEPT !.env = env, !.fallback = fixtures, !.diagnostic = fixtures,
                  !.historical = history, !.backend = backend, !.browse = official,
                  !.channels = IF official THEN {"amazon", "ebay"} ELSE {},
                  !.ann = backend # "opensearch"] :
        env \in {"production", "development"}, fixtures, history, official \in BOOLEAN,
        backend \in {"opensearch", "disabled"}}
    \cup {[Base EXCEPT !.env = env, !.sandbox = TRUE, !.backend = backend] :
        env \in {"production", "development"}, backend \in {"opensearch", "disabled"}}
    \cup {[Base EXCEPT !.env = "production", !.store = "memory"],
          [Base EXCEPT !.env = "production", !.catalog = "faiss"],
          [Base EXCEPT !.env = "production", !.auth = FALSE],
          [Base EXCEPT !.env = "production", !.rate = FALSE],
          [Base EXCEPT !.agent = "llm", !.llm = FALSE],
          [Base EXCEPT !.agent = "rules", !.opensearch = FALSE],
          [Base EXCEPT !.searched = {}], [Base EXCEPT !.queryTower = FALSE],
          [Base EXCEPT !.productIndex = FALSE],
          [Base EXCEPT !.backend = "disabled", !.ann = TRUE, !.itemTower = FALSE,
                       !.channels = {"amazon", "ebay"}]}

\* Product search with and without Faiss beside it, and the path of Faiss with all towers, with
\* two and without OpenSearch.
RecallChoices ==
    {[Base EXCEPT !.backend = backend, !.ann = ann] :
        backend \in {"opensearch", "disabled"}, ann \in BOOLEAN}
    \cup {[Base EXCEPT !.backend = "disabled", !.ann = TRUE, !.opensearch = FALSE,
                       !.architecture = "dual", !.reranker = FALSE]}
    \* A rerun meets settings that changed: product search lost its index.
    \cup {[Base EXCEPT !.backend = "opensearch", !.ann = TRUE, !.opensearch = FALSE]}

Order == <<"amazon", "ebay">>

Hit(score, at) == [score |-> score, at |-> at]
Hits == {<<>>, <<Hit(1, 2), Hit(1, 1)>>, <<Hit(1, 9)>>, <<Hit(1, 2), Hit(0, 3), Hit(1, 2)>>}
Scores == {<<0, 0, 0>>, <<0, 1, 1>>}

SearchParked ==
    /\ conf = Base /\ label = [mode |-> "live", planned |-> {}]
    /\ hunt = NoHunt /\ results = <<>> /\ verdict = "unavailable"

RecallParked ==
    /\ setup = [conf |-> Base, size |-> 0, insight |-> [live |-> FALSE, ok |-> FALSE],
                product |-> "unused", wish |-> "absent"]
    /\ channels = Report(Base) /\ persona = Persona(Base, "absent")
    /\ stage = "done" /\ pending = {}
    /\ vectors = [query |-> FALSE, items |-> 0, user |-> FALSE]
    /\ scores = [user |-> <<>>, rerank |-> <<>>, item |-> <<>>, category |-> <<>>, hits |-> <<>>]
    /\ outcome = [offers |-> <<>>, mode |-> "partial_hybrid"]

ClarificationParked ==
    /\ query = [exact |-> FALSE, compares |-> FALSE, named |-> FALSE, place |-> "abroad",
                chars |-> 6]
    /\ progress = "unsupported" /\ pending_field = "none" /\ timeline = <<>>
    /\ clarified = [f \in Fields |-> "none"] /\ window = NoWindow

PipelineParked ==
    /\ setting = [enabled |-> {a}, opensearch |-> TRUE, mode |-> "rules"]
    /\ slots = ChildSlots /\ others = 0
    /\ research = [Fresh(FALSE) EXCEPT !.at = "ended"]
    /\ branch = NoBranches /\ insight = "none" /\ open = {}

OffersParked ==
    /\ step = "failed"
    /\ task = [offers |-> <<>>, plan |-> Comparison({}, {}), remembered |-> {}]
    /\ evidence = <<>> /\ costs = <<>> /\ picks = NoPicks /\ answer = "none"

ComponentsInit ==
    /\ part \in Parts
    /\ Init /\ CircuitInit /\ DrainInit
    /\ IF part = "pipeline" THEN PipelineInit ELSE PipelineParked
    /\ IF part = "offers" THEN OfferInit ELSE OffersParked
    /\ LineageInit /\ (part = "lineage" \/ stale = [w \in LineageWorkers |-> FALSE])
    /\ PreferenceInit /\ (part = "preferences" \/ production)
    /\ IF part = "search" THEN SearchInit ELSE SearchParked
    /\ IF part = "recall" THEN RecallInit ELSE RecallParked
    /\ IF part = "clarification" THEN ClarificationInit ELSE ClarificationParked
    /\ FilesInit /\ LocksInit

QueueSteps ==
    /\ part = "queue" /\ Next
    /\ UNCHANGED <<part, circuitVars, pipelineVars, offerVars, drainVars, lineageVars,
                   preferenceVars, searchVars, recallVars, clarificationVars, filesVars, locksVars>>
CircuitSteps ==
    /\ part = "circuit" /\ CircuitNext
    /\ UNCHANGED <<part, vars, pipelineVars, offerVars, drainVars, lineageVars, preferenceVars,
                   searchVars, recallVars, clarificationVars, filesVars, locksVars>>
PipelineSteps ==
    /\ part = "pipeline" /\ PipelineNext
    /\ UNCHANGED <<part, vars, circuitVars, offerVars, drainVars, lineageVars, preferenceVars,
                   searchVars, recallVars, clarificationVars, filesVars, locksVars>>
OfferSteps ==
    /\ part = "offers" /\ OfferNext
    /\ UNCHANGED <<part, vars, circuitVars, pipelineVars, drainVars, lineageVars,
                   preferenceVars, searchVars, recallVars, clarificationVars, filesVars, locksVars>>
DrainSteps ==
    /\ part = "drain" /\ DrainNext
    /\ UNCHANGED <<part, vars, circuitVars, pipelineVars, offerVars, lineageVars,
                   preferenceVars, searchVars, recallVars, clarificationVars, filesVars, locksVars>>
LineageSteps ==
    /\ part = "lineage" /\ LineageNext
    /\ UNCHANGED <<part, vars, circuitVars, pipelineVars, offerVars, drainVars, preferenceVars,
                   searchVars, recallVars, clarificationVars, filesVars, locksVars>>
PreferenceSteps ==
    /\ part = "preferences" /\ PreferenceNext
    /\ UNCHANGED <<part, vars, circuitVars, pipelineVars, offerVars, drainVars, lineageVars,
                   searchVars, recallVars, clarificationVars, filesVars, locksVars>>
SearchSteps ==
    /\ part = "search" /\ SearchNext
    /\ UNCHANGED <<part, vars, circuitVars, pipelineVars, offerVars, drainVars, lineageVars,
                   preferenceVars, recallVars, clarificationVars, filesVars, locksVars>>
RecallSteps ==
    /\ part = "recall" /\ RecallNext
    /\ UNCHANGED <<part, vars, circuitVars, pipelineVars, offerVars, drainVars, lineageVars,
                   preferenceVars, searchVars, clarificationVars, filesVars, locksVars>>
ClarificationSteps ==
    /\ part = "clarification" /\ ClarificationNext
    /\ UNCHANGED <<part, vars, circuitVars, pipelineVars, offerVars, drainVars, lineageVars,
                   preferenceVars, searchVars, recallVars, filesVars, locksVars>>
FilesSteps ==
    /\ part = "files" /\ FilesNext
    /\ UNCHANGED <<part, vars, circuitVars, pipelineVars, offerVars, drainVars, lineageVars,
                   preferenceVars, searchVars, recallVars, clarificationVars, locksVars>>
LocksSteps ==
    /\ part = "locks" /\ LocksNext
    /\ UNCHANGED <<part, vars, circuitVars, pipelineVars, offerVars, drainVars, lineageVars,
                   preferenceVars, searchVars, recallVars, clarificationVars, filesVars>>

ComponentsNext ==
    \/ QueueSteps \/ CircuitSteps \/ PipelineSteps \/ OfferSteps \/ DrainSteps
    \/ LineageSteps \/ PreferenceSteps \/ SearchSteps \/ RecallSteps
    \/ ClarificationSteps \/ FilesSteps \/ LocksSteps

ComponentsSpec ==
    /\ ComponentsInit /\ [][ComponentsNext]_allVars
    /\ Fairness /\ CircuitFairness /\ PipelineFairness /\ DrainFairness /\ LocksFairness
=============================================================================
