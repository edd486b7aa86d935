-------------------------- MODULE ResearchPipeline --------------------------
(***************************************************************************)
(* The research pipeline that run_agent drives for every task,             *)
(* src/app/agent/main_agent.py, with the fan-out of                        *)
(* src/app/agent/dispatch_tool.py, the tool-call guard, the model's        *)
(* execution plan and the phases of src/app/harness.  One research is      *)
(* followed; others of the process only share the branch slots with it.    *)
(*                                                                         *)
(* What the tools compute is in Decisions, Recall and Costs; here a tool   *)
(* call starts (permission, guard, tool_start) and ends (tool_end) or      *)
(* fails, and the main coroutine, the category task of the legacy path     *)
(* and one branch per marketplace interleave at their awaits.  Phase and   *)
(* guard live in context variables: a branch or the category task works    *)
(* on a copy made when it is created, which nobody reads afterwards, so    *)
(* only the main coroutine's copies are kept.                              *)
(***************************************************************************)
EXTENDS Integers, FiniteSets

CONSTANTS
    Marketplaces,
    EnabledChoices,     \* the settings.enabled_marketplaces considered
    ChildSlots,         \* agent_max_concurrent_children
    MaxChildren,        \* agent_max_children
    MaxToolCalls        \* agent_max_tool_calls

ASSUME PipelineConstants ==
    /\ EnabledChoices \subseteq SUBSET Marketplaces
    /\ ChildSlots \in Nat \ {0} /\ MaxChildren \in Nat \ {0} /\ MaxToolCalls \in Nat

VARIABLES
    setting,    \* of the process: enabled marketplaces, search backend, agent mode
    slots,      \* free permits of the child semaphore, shared by all researches
    others,     \* permits the branches of other researches hold
    research,   \* the main coroutine
    branch,     \* branch[m]: the search of marketplace m
    insight,    \* the category task of the legacy path
    open        \* calls with a tool_start and no tool_end in the timeline

pipelineVars == <<setting, slots, others, research, branch, insight, open>>

-----------------------------------------------------------------------------
(* Phases and guard *)

Phases == {"planning", "searching", "comparing", "concluding"}

PhaseTools ==
    [planning   |-> {"planner", "task_tool", "category_insight", "chat_fallback"},
     searching  |-> {"category_insight", "item_search", "recall", "task_tool", "web_search"},
     comparing  |-> {"item_search", "recall", "price_compare", "shipping_calc",
                     "category_insight"},
     concluding |-> {"item_picker", "shopping_summary", "chat_fallback"}]

\* observe_tool: the phase after a successful call.
PhaseAfter(phase, tool) ==
    CASE tool = "planner"       -> "searching"
      [] tool = "recall"        -> "comparing"
      [] tool = "shipping_calc" -> "concluding"
      [] OTHER                  -> phase

\* transition("planner_output_ready"), for an intent that was resolved earlier.
NoTransition(phase) == phase
PlannerOutputReady(phase) == IF phase = "planning" THEN "searching" ELSE phase

Allowed(phase, tool) == tool \in PhaseTools[phase]

\* record_tool_call; the pipeline never repeats a call with the same arguments.
GuardAdmits(calls) == calls < MaxToolCalls

-----------------------------------------------------------------------------
(* The main coroutine *)

\* The calls after the search, in order.
NextStage ==
    [recall |-> "price_compare", price_compare |-> "shipping_calc",
     shipping_calc |-> "item_picker", item_picker |-> "shopping_summary",
     shopping_summary |-> "ended"]
InlineTools == {"planner", "category_insight"} \cup DOMAIN NextStage

Settings == [enabled : EnabledChoices, opensearch : BOOLEAN,
             mode : {"rules", "llm", "unavailable"}]

NoBranches == [m \in Marketplaces |-> "none"]
Fresh(resumed) ==
    [at |-> "new", resumed |-> resumed, phase |-> "planning", calls |-> 0, inCall |-> FALSE,
     sel |-> {}, fork |-> TRUE, end |-> "none"]

Live == research.at \notin {"new", "unwind", "ended"}
Branches(state) == {m \in Marketplaces : branch[m] = state}
BranchesOver == Branches("waiting") \cup Branches("running") = {}
HoldsSlot(m) == research.fork /\ branch[m] = "running"
Forked == research.at = "search" /\ research.fork
Found == Branches("hit")

Goto(at) == research' = [research EXCEPT !.at = at]

\* The coroutine is left by an exception.  Branches and the category task are cancelled and
\* awaited first; without them it has ended.
LeaveAtOnce(end) ==
    research' = [research EXCEPT !.end = end, !.inCall = FALSE, !.at = "ended"]
Leave(end) ==
    research' = [research EXCEPT !.end = end, !.inCall = FALSE,
                     !.at = IF BranchesOver /\ insight # "running"
                               THEN "ended" ELSE "unwind"]

\* The permission hook (HookRejectSignal) and the guard (AgentLoopGuardError).
Admits(tool) == Allowed(research.phase, tool) /\ GuardAdmits(research.calls)

\* _call_tool up to tool_start.
CallStarts(tool) ==
    /\ research.at = tool /\ ~research.inCall
    /\ \/ /\ Admits(tool)
          /\ research' = [research EXCEPT !.inCall = TRUE, !.calls = @ + 1]
          /\ open' = open \cup {tool}
       \/ ~Admits(tool) /\ Leave("error") /\ UNCHANGED open
    /\ UNCHANGED <<setting, others, slots, branch, insight>>

\* _call_tool from the result: tool_end, and on to the next stage.
CallEnds(tool, next) ==
    /\ research.at = tool /\ research.inCall
    /\ research' = [research EXCEPT !.inCall = FALSE, !.at = next,
                        !.phase = PhaseAfter(@, tool),
                        !.end = IF next = "ended" THEN "ok" ELSE @]
    /\ open' = open \ {tool}
    /\ UNCHANGED <<setting, others, slots, branch, insight>>

\* An exception of the tool or of an emit ends the research; tool_end, with outcome failure,
\* may be the emit that failed.
CallFails ==
    /\ research.at \in InlineTools /\ research.inCall
    /\ Leave("error")
    /\ \E closed \in {{}, {research.at}} : open' = open \ closed
    /\ UNCHANGED <<setting, others, slots, branch, insight>>

\* run_agent resets the phase; a research with a resolved intent skips the planner.
Begin ==
    /\ research.at = "new"
    /\ research' = [research EXCEPT !.at =
                        IF research.resumed THEN "intent" ELSE "planner"]
    /\ UNCHANGED <<setting, others, slots, branch, insight, open>>

PlannerCall == CallStarts("planner") \/ CallEnds("planner", "intent")

\* Ambiguity (only of a new intent), an unsupported destination, an unknown relaxed constraint
\* (only of a resolved one) or the preference store end the research; otherwise the intent
\* stands.
ResolveIntent ==
    /\ research.at = "intent"
    /\ \/ ~research.resumed /\ Leave("clarification")
       \/ Leave("unsupported")
       \/ Leave("error")
       \/ research' = [research EXCEPT !.at = "advise",
                           !.phase = IF research.resumed
                                        THEN PlannerOutputReady(@) ELSE @]
    /\ UNCHANGED <<setting, others, slots, branch, insight, open>>

\* The advisory model call.  Without a usable model or plan all enabled marketplaces are
\* searched in parallel; task_tool narrows the plan to enabled ones, in parallel only if there
\* are several.  A failure of the model is fatal unless the rules may take over, one of an
\* emit always.
Advise ==
    /\ research.at = "advise"
    /\ LET act(sel, fork) ==
               research' = [research EXCEPT !.at = "act", !.sel = sel, !.fork = fork]
       IN \/ setting.mode # "unavailable" /\ act(setting.enabled, TRUE)
          \/ /\ setting.mode = "llm"
             /\ \E sel \in (SUBSET setting.enabled) \ {{}}, parallel \in BOOLEAN :
                   act(sel, parallel /\ Cardinality(sel) > 1)
          \/ Leave("error")
    /\ UNCHANGED <<setting, others, slots, branch, insight, open>>

\* The primary path needs the category before the search, the legacy path runs both at once.
Act ==
    /\ research.at = "act"
    /\ \/ setting.opensearch /\ Goto("category_insight") /\ UNCHANGED <<insight, open>>
       \/ /\ ~setting.opensearch
          /\ Goto("dispatch")
          /\ insight' = "running"
          /\ open' = open \cup {"category_insight"}
    /\ UNCHANGED <<setting, others, slots, branch>>

InsightCall ==
    CallStarts("category_insight") \/ CallEnds("category_insight", "dispatch")

\* The legacy category task: it falls back to curated knowledge, so only its own emits and
\* hooks can fail it.
InsightTaskEnds ==
    /\ insight = "running"
    /\ \E outcome \in {"done", "failed"} : insight' = outcome
    /\ open' = open \ {"category_insight"}
    /\ UNCHANGED <<setting, others, slots, research, branch>>

-----------------------------------------------------------------------------
(* The search: dispatch_tool, or one marketplace after the other *)

Dispatch ==
    /\ research.at = "dispatch"
    /\ \/ /\ research.fork /\ Cardinality(research.sel) > MaxChildren   \* child limit
          /\ Leave("error") /\ UNCHANGED branch
       \/ /\ ~(research.fork /\ Cardinality(research.sel) > MaxChildren)
          /\ Goto("search")
          /\ branch' = [m \in Marketplaces |-> IF m \in research.sel THEN "waiting" ELSE "none"]
    /\ UNCHANGED <<setting, others, slots, insight, open>>

SetBranch(m, state) == branch' = [branch EXCEPT ![m] = state]
Opens(m) == open' = open \cup {m}
Closes(m) == open' = open \ {m}

\* run_branch: take a slot, announce the fork, and start the call.  A failing announcement ends
\* the search; whatever search_branch cannot do is an empty result.
BranchStarts(m) ==
    /\ Forked /\ branch[m] = "waiting" /\ slots > 0
    /\ \/ SetBranch(m, "running") /\ slots' = slots - 1 /\ Opens(m) /\ UNCHANGED research
       \/ SetBranch(m, "miss") /\ UNCHANGED <<research, open, slots>>
       \/ SetBranch(m, "failed") /\ Leave("error") /\ UNCHANGED <<open, slots>>
    /\ UNCHANGED <<setting, others, insight>>

\* search_branch turns every exception of its call into an empty result, also that of the emit
\* of tool_end when the offers were found.
CallReturns(m) ==
    \/ \E result \in {"hit", "miss"} : SetBranch(m, result) /\ Closes(m)
    \/ SetBranch(m, "miss") /\ UNCHANGED open
BranchEndsWithSlot(m) ==
    /\ Forked /\ branch[m] = "running"
    /\ CallReturns(m)
    /\ UNCHANGED <<setting, others, slots, research, insight>>
BranchEnds(m) ==
    /\ Forked /\ branch[m] = "running"
    /\ CallReturns(m)
    /\ slots' = slots + 1
    /\ UNCHANGED <<setting, others, research, insight>>

\* ... but not the cancellation by the branch's own timeout, which leaves the call open and
\* ends the whole search.
BranchTimesOut(m) ==
    /\ Forked /\ branch[m] = "running"
    /\ SetBranch(m, "failed")
    /\ slots' = slots + 1
    /\ research' = [research EXCEPT !.at = "unwind", !.end = "timeout"]
    /\ UNCHANGED <<setting, others, insight, open>>

\* The sequential search runs in the main coroutine and shares its guard; a refusal by the
\* guard is one more empty result.
SequentialSearch(m) ==
    /\ research.at = "search" /\ ~research.fork
    /\ \/ /\ branch[m] = "waiting" /\ Branches("running") = {} /\ Admits("item_search")
          /\ SetBranch(m, "running") /\ Opens(m)
          /\ research' = [research EXCEPT !.calls = @ + 1]
       \/ /\ branch[m] = "waiting" /\ Branches("running") = {} /\ ~Admits("item_search")
          /\ SetBranch(m, "miss") /\ UNCHANGED <<research, open>>
       \/ branch[m] = "running" /\ CallReturns(m) /\ UNCHANGED research
    /\ UNCHANGED <<setting, others, slots, insight>>

\* All branches are back; the legacy path still waits for the category task, which may raise,
\* as may the emit that announces the candidates.
SearchOverAtFirst ==
    /\ research.at = "search" /\ insight # "running"
    /\ \/ Leave("error")
       \/ insight # "failed" /\ Found = {} /\ Leave("providers_unavailable")
       \/ insight # "failed" /\ Found # {} /\ Goto("recall")
    /\ UNCHANGED <<setting, others, slots, branch, insight, open>>
SearchOver ==
    /\ research.at = "search" /\ BranchesOver
    /\ insight # "running"
    /\ \/ Leave("error")
       \/ insight # "failed" /\ Found = {} /\ Leave("providers_unavailable")
       \/ insight # "failed" /\ Found # {} /\ Goto("recall")
    /\ UNCHANGED <<setting, others, slots, branch, insight, open>>

-----------------------------------------------------------------------------
(* Cancellation, the task's time limit, and unwinding *)

\* A cancellation inside an inline call leaves its tool_start without a tool_end.
Cancelled ==
    /\ Live
    /\ IF research.fork THEN Leave("cancelled") /\ UNCHANGED branch
       ELSE /\ branch' = [m \in Marketplaces |->
                  IF branch[m] \in {"waiting", "running"} THEN "cancelled" ELSE branch[m]]
            /\ research' = [research EXCEPT !.end = "cancelled", !.inCall = FALSE,
                               !.at = IF insight = "running" THEN "unwind" ELSE "ended"]
    /\ UNCHANGED <<setting, others, slots, insight, open>>

BranchUnwinds(m) ==
    /\ research.at = "unwind" /\ branch[m] \in {"waiting", "running"}
    /\ SetBranch(m, "cancelled")
    /\ slots' = IF branch[m] = "running" THEN slots + 1 ELSE slots
    /\ UNCHANGED <<setting, others, research, insight, open>>

\* The category task is cancelled once the branches are over.
InsightUnwinds ==
    /\ research.at = "unwind" /\ BranchesOver /\ insight = "running"
    /\ insight' = "cancelled"
    /\ UNCHANGED <<setting, others, slots, research, branch, open>>

\* Both gathers have returned and the exception goes on.
Unwound ==
    /\ research.at = "unwind" /\ BranchesOver /\ insight # "running"
    /\ Goto("ended")
    /\ UNCHANGED <<setting, others, slots, branch, insight, open>>

-----------------------------------------------------------------------------
LaterCall ==
    \E tool \in DOMAIN NextStage : CallStarts(tool) \/ CallEnds(tool, NextStage[tool])

MainSteps ==
    \/ Begin \/ PlannerCall \/ ResolveIntent \/ Advise \/ Act \/ InsightCall
    \/ Dispatch \/ SearchOver \/ LaterCall \/ CallFails
    \/ InsightUnwinds \/ Unwound
BranchSteps(m) ==
    BranchEnds(m) \/ BranchTimesOut(m) \/ SequentialSearch(m) \/ BranchUnwinds(m)

\* Branches of other researches of the process.
OthersTakeSlot ==
    /\ slots > 0
    /\ slots' = slots - 1 /\ others' = others + 1
    /\ UNCHANGED <<setting, research, branch, insight, open>>
OthersGiveSlot ==
    /\ others > 0
    /\ slots' = slots + 1 /\ others' = others - 1
    /\ UNCHANGED <<setting, research, branch, insight, open>>

PipelineInit ==
    /\ setting \in Settings
    /\ slots = ChildSlots
    /\ others = 0
    /\ research \in {Fresh(TRUE), Fresh(FALSE)}
    /\ branch = NoBranches /\ insight = "none" /\ open = {}

PipelineNext ==
    \/ MainSteps \/ InsightTaskEnds \/ Cancelled \/ OthersTakeSlot \/ OthersGiveSlot
    \/ \E m \in Marketplaces : BranchStarts(m) \/ BranchSteps(m)

\* Coroutines keep running and calls return (every branch has its timeout); a freed slot goes
\* to the longest waiter.
PipelineFairness ==
    /\ WF_pipelineVars(MainSteps) /\ WF_pipelineVars(InsightTaskEnds) /\ WF_pipelineVars(OthersGiveSlot)
    /\ \A m \in Marketplaces :
          WF_pipelineVars(BranchSteps(m)) /\ SF_pipelineVars(BranchStarts(m))

PipelineSpec == PipelineInit /\ [][PipelineNext]_pipelineVars /\ PipelineFairness

-----------------------------------------------------------------------------
(* Properties *)

PipelineTypeOK ==
    /\ setting \in Settings
    /\ slots \in 0 .. ChildSlots /\ others \in 0 .. ChildSlots
    /\ research \in [at : InlineTools \cup {"new", "intent", "advise", "act", "dispatch", "search",
                                          "unwind", "ended"},
                     resumed : BOOLEAN, phase : Phases, calls : 0 .. MaxToolCalls,
                     inCall : BOOLEAN, sel : SUBSET Marketplaces, fork : BOOLEAN,
                     end : {"none", "ok", "error", "clarification", "unsupported", "timeout",
                            "cancelled", "providers_unavailable"}]
    /\ research.sel \subseteq setting.enabled
    /\ insight \in {"none", "running", "done", "failed", "cancelled"}
    /\ open \subseteq InlineTools \cup Marketplaces
    /\ branch \in [Marketplaces -> {"none", "waiting", "running", "hit", "miss", "failed",
                                    "cancelled"}]

\* However a research ends, nothing of it is left behind: no branch or category task spends
\* slots and writes tool events into the timeline of a closed run; and no permit of the
\* process-wide semaphore is ever lost or given twice, that is, the free ones and the running
\* branches of all researches make up the limit.
QuietAfterEnd ==
    /\ research.at = "ended" => BranchesOver /\ insight # "running"
    /\ slots + others + Cardinality({m \in Marketplaces : HoldsSlot(m)}) = ChildSlots

\* The phase permissions never refuse a step of the pipeline's own order, on either search
\* path, with or without a fork, and for resumed researches, which skip the planner.
PhasesAdmitThePipeline ==
    /\ research.at \in InlineTools /\ ~research.inCall => Allowed(research.phase, research.at)
    /\ insight = "running" => Allowed(research.phase, "category_insight")
    /\ \A m \in Marketplaces :
          research.at = "search" /\ branch[m] = "waiting" => Allowed(research.phase, "item_search")

\* A result rests on a finished search: all chosen marketplaces have answered, at least one
\* with offers, the category is known, and the timeline has closed the call of every
\* marketplace whose offers went on.
ResultIsComplete ==
    research.end = "ok" =>
        /\ Branches("hit") \cup Branches("miss") = research.sel /\ Found # {}
        /\ insight \in {"none", "done"}
        /\ open \subseteq Branches("miss")

\* Every research ends, also when the branches of all of them compete for the slots.
ResearchEnds == research.at = "new" ~> research.at = "ended"

=============================================================================
