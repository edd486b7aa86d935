----------------------- MODULE ResearchPipelineProofs -----------------------
(***************************************************************************)
(* A research leaves nothing behind, is refused by no phase, and rests its *)
(* result on a finished search, for any marketplaces, settings and limits. *)
(***************************************************************************)
EXTENDS ResearchPipeline, FiniteSetTheorems, TLAPS

Stages == InlineTools \cup {"new", "intent", "advise", "act", "dispatch", "search", "unwind",
                            "ended"}
Before == {"new", "planner", "intent", "advise", "act", "category_insight"}
After == {"recall", "price_compare", "shipping_calc", "item_picker", "shopping_summary"}
Ends == {"none", "ok", "error", "clarification", "unsupported", "timeout", "cancelled",
         "providers_unavailable"}

\* The calls of the main coroutine, and where they lead.
Moves == {<<"planner", "intent">>, <<"category_insight", "dispatch">>,
          <<"recall", "price_compare">>, <<"price_compare", "shipping_calc">>,
          <<"shipping_calc", "item_picker">>, <<"item_picker", "shopping_summary">>,
          <<"shopping_summary", "ended">>}

-----------------------------------------------------------------------------
(* The inductive invariant, in parts *)

Researches == [at : Stages, resumed : BOOLEAN, phase : Phases, calls : 0 .. MaxToolCalls,
               inCall : BOOLEAN, sel : SUBSET Marketplaces, fork : BOOLEAN, end : Ends]
BranchStates == {"none", "waiting", "running", "hit", "miss", "failed", "cancelled"}
Typed ==
    /\ setting \in Settings /\ slots \in Nat /\ others \in Nat
    /\ research \in Researches
    /\ research.sel \subseteq setting.enabled
    /\ insight \in {"none", "running", "done", "failed", "cancelled"}
    /\ open \subseteq InlineTools \cup Marketplaces
    /\ branch \in [Marketplaces -> BranchStates]

\* Where nothing runs beside the main coroutine.
Quiet ==
    /\ research.at \notin {"search", "unwind"} \/ (research.at = "unwind" /\ ~research.fork) =>
            \A m \in Marketplaces : branch[m] \notin {"waiting", "running"}
    /\ research.at \notin {"dispatch", "search", "unwind"} => insight # "running"

Holding == {m \in Marketplaces : HoldsSlot(m)}
SlotsExact == IsFiniteSet(Holding) /\ slots + others + Cardinality(Holding) = ChildSlots

\* The phase at every stage.
PhaseAtStage ==
    /\ research.at \in {"new", "planner"} => research.phase = "planning"
    /\ research.at = "planner" => ~research.resumed
    /\ research.at = "intent" =>
            research.phase = (IF research.resumed THEN "planning" ELSE "searching")
    /\ research.at \in {"advise", "act", "category_insight", "dispatch", "search", "recall"} =>
            research.phase = "searching"
    /\ research.at \in {"price_compare", "shipping_calc"} => research.phase = "comparing"
    /\ research.at \in {"item_picker", "shopping_summary"} => research.phase = "concluding"
    /\ insight = "running" => research.phase = "searching"

\* What is known of the search, and which calls are open, at every stage.
Answered(m) == branch[m] \in {"hit", "miss"}
OpenCall == IF research.inCall THEN {research.at} ELSE {}
OpenInsight == IF insight = "running" THEN {"category_insight"} ELSE {}
Missed == {m \in Marketplaces : branch[m] = "miss"}
SearchKnown ==
    /\ \A m \in Marketplaces : m \in research.sel <=> Answered(m)
    /\ \E m \in Marketplaces : branch[m] = "hit"
    /\ insight \in {"none", "done"}
Evidence ==
    /\ research.inCall => research.at \in InlineTools
    /\ research.end = "ok" => research.at = "ended" /\ SearchKnown /\ open \subseteq Missed
    /\ research.at \in Before => insight = "none" /\ open \subseteq OpenCall
    /\ research.at = "dispatch" => insight # "cancelled" /\ open \subseteq OpenInsight
    /\ research.at = "search" =>
        /\ insight # "cancelled"
        /\ \A m \in Marketplaces : m \in research.sel <=> branch[m] # "none"
        /\ \A m \in Marketplaces : branch[m] \notin {"failed", "cancelled"}
        /\ \A call \in open :
              \/ call \in OpenInsight
              \/ call \in Marketplaces /\ branch[call] \in {"running", "miss"}
    /\ research.at \in After => SearchKnown /\ open \subseteq Missed \cup OpenCall

PipelineInv == Typed /\ Quiet /\ SlotsExact /\ PhaseAtStage /\ Evidence

-----------------------------------------------------------------------------
LEMMA InlineToolNames ==
    InlineTools = {"planner", "category_insight", "recall", "price_compare", "shipping_calc",
                   "item_picker", "shopping_summary"}
BY DEF InlineTools, NextStage

\* BranchesOver, marketplace by marketplace.
LEMMA OverMeans ==
    BranchesOver <=> \A m \in Marketplaces : branch[m] \notin {"waiting", "running"}
BY DEF BranchesOver, Branches

\* What leaving by an exception changes.
LEMMA LeaveFacts ==
    ASSUME research \in Researches, NEW end \in Ends, Leave(end)
    PROVE  /\ research' \in Researches
           /\ research'.at \in {"unwind", "ended"}
           /\ research'.at = "ended" <=> BranchesOver /\ insight # "running"
           /\ research'.phase = research.phase /\ research'.sel = research.sel
           /\ research'.fork = research.fork
           /\ research'.end = end /\ research'.inCall = FALSE
<1> DEFINE to == IF BranchesOver /\ insight # "running" THEN "ended" ELSE "unwind"
<1>1. to \in {"unwind", "ended"} /\ (to = "ended" <=> BranchesOver /\ insight # "running")
    OBVIOUS
<1>2. to \in Stages
    BY <1>1 DEF Stages
<1>3. research' = [research EXCEPT !.end = end, !.inCall = FALSE, !.at = to]
    BY DEF Leave
<1> HIDE DEF to
<1> QED  BY <1>1, <1>2, <1>3 DEF Researches

\* What going on to another stage changes.
LEMMA GotoFacts ==
    ASSUME research \in Researches, NEW at \in Stages, Goto(at)
    PROVE  /\ research' \in Researches /\ research'.at = at
           /\ research'.phase = research.phase /\ research'.sel = research.sel
           /\ research'.fork = research.fork /\ research'.resumed = research.resumed
           /\ research'.end = research.end /\ research'.inCall = research.inCall
BY DEF Goto, Researches

\* What the result of a call changes in the branches.
LEMMA SetFacts ==
    ASSUME branch \in [Marketplaces -> BranchStates], NEW m \in Marketplaces,
           NEW state \in BranchStates, SetBranch(m, state)
    PROVE  /\ branch' \in [Marketplaces -> BranchStates]
           /\ branch'[m] = state
           /\ \A n \in Marketplaces \ {m} : branch'[n] = branch[n]
BY DEF SetBranch

\* The three ways in which the call of a branch returns.
LEMMA ReturnFacts ==
    ASSUME Typed, NEW m \in Marketplaces, CallReturns(m)
    PROVE  /\ branch' \in [Marketplaces -> BranchStates]
           /\ branch'[m] \in {"hit", "miss"}
           /\ \A n \in Marketplaces \ {m} : branch'[n] = branch[n]
           /\ open' \subseteq open
           /\ m \in open' => branch'[m] = "miss"
<1>1. CASE \E result \in {"hit", "miss"} : SetBranch(m, result) /\ Closes(m)
    BY <1>1, SetFacts DEF Typed, BranchStates, Closes
<1>2. CASE SetBranch(m, "miss") /\ UNCHANGED open
    BY <1>2, SetFacts DEF Typed, BranchStates
<1> QED  BY <1>1, <1>2 DEF CallReturns

LEMMA StageNames ==
    /\ Stages = {"planner", "category_insight", "recall", "price_compare", "shipping_calc",
                 "item_picker", "shopping_summary", "new", "intent", "advise", "act",
                 "dispatch", "search", "unwind", "ended"}
    /\ Ends = {"none", "ok", "error", "clarification", "unsupported", "timeout", "cancelled",
               "providers_unavailable"}
BY InlineToolNames DEF Stages, Ends

\* Permission and guard.
LEMMA CallCounted ==
    ASSUME research \in Researches, NEW tool, Admits(tool)
    PROVE  research.calls + 1 \in 0 .. MaxToolCalls
BY PipelineConstants DEF Researches, Admits, GuardAdmits

\* The steps, with the calls of the main coroutine as moves.
LEMMA PipelineCases ==
    ASSUME PipelineNext
    PROVE  \/ \E tool \in InlineTools : CallStarts(tool)
           \/ \E move \in Moves : CallEnds(move[1], move[2])
           \/ Begin \/ ResolveIntent \/ Advise \/ Act \/ Dispatch \/ SearchOver \/ CallFails
           \/ InsightUnwinds \/ Unwound \/ InsightTaskEnds \/ Cancelled
           \/ OthersTakeSlot \/ OthersGiveSlot
           \/ \E m \in Marketplaces :
                \/ BranchStarts(m) \/ BranchEnds(m) \/ BranchTimesOut(m)
                \/ SequentialSearch(m) \/ BranchUnwinds(m)
<1>1. ASSUME LaterCall
      PROVE  \/ \E tool \in InlineTools : CallStarts(tool)
             \/ \E move \in Moves : CallEnds(move[1], move[2])
    <2>1. PICK tool \in DOMAIN NextStage : CallStarts(tool) \/ CallEnds(tool, NextStage[tool])
        BY <1>1 DEF LaterCall
    <2>2. tool \in InlineTools /\ <<tool, NextStage[tool]>> \in Moves
        BY <2>1 DEF NextStage, InlineTools, Moves
    <2>3. CASE CallStarts(tool)
        BY <2>2, <2>3
    <2>4. CASE CallEnds(tool, NextStage[tool])
        BY <2>2, <2>4
    <2> QED  BY <2>1, <2>3, <2>4
<1>2. ASSUME PlannerCall \/ InsightCall
      PROVE  \/ \E tool \in InlineTools : CallStarts(tool)
             \/ \E move \in Moves : CallEnds(move[1], move[2])
    <2>1. /\ "planner" \in InlineTools /\ "category_insight" \in InlineTools
          /\ <<"planner", "intent">> \in Moves /\ <<"category_insight", "dispatch">> \in Moves
        BY InlineToolNames DEF Moves
    <2> QED  BY <1>2, <2>1 DEF PlannerCall, InsightCall
<1>3. CASE MainSteps
    BY <1>1, <1>2, <1>3 DEF MainSteps
<1> QED  BY <1>3 DEF PipelineNext, BranchSteps

-----------------------------------------------------------------------------
(* The slots of the branches *)

LEMMA HoldSame ==
    ASSUME SlotsExact, UNCHANGED <<slots, others>>,
           \A m \in Marketplaces : HoldsSlot(m)' <=> HoldsSlot(m)
    PROVE  SlotsExact'
<1>1. Holding' = Holding
    BY DEF Holding
<1> QED  BY <1>1 DEF SlotsExact

LEMMA HoldNone ==
    ASSUME SlotsExact, UNCHANGED <<slots, others>>,
           \A m \in Marketplaces : ~HoldsSlot(m)' /\ ~HoldsSlot(m)
    PROVE  SlotsExact'
BY HoldSame

LEMMA HoldOneMore ==
    ASSUME SlotsExact, slots \in Nat, others \in Nat, others' = others, slots' = slots - 1,
           NEW m \in Marketplaces, ~HoldsSlot(m), HoldsSlot(m)',
           \A n \in Marketplaces \ {m} : HoldsSlot(n)' <=> HoldsSlot(n)
    PROVE  SlotsExact'
<1>1. Holding' = Holding \cup {m} /\ m \notin Holding
    BY DEF Holding
<1>2. IsFiniteSet(Holding') /\ Cardinality(Holding') = Cardinality(Holding) + 1
    BY <1>1, FS_AddElement DEF SlotsExact
<1>3. Cardinality(Holding) \in Nat
    BY FS_CardinalityType DEF SlotsExact
<1> QED  BY <1>2, <1>3 DEF SlotsExact

LEMMA HoldOneLess ==
    ASSUME SlotsExact, slots \in Nat, others \in Nat, others' = others, slots' = slots + 1,
           NEW m \in Marketplaces, HoldsSlot(m), ~HoldsSlot(m)',
           \A n \in Marketplaces \ {m} : HoldsSlot(n)' <=> HoldsSlot(n)
    PROVE  SlotsExact'
<1>1. Holding' = Holding \ {m} /\ m \in Holding
    BY DEF Holding
<1>2. IsFiniteSet(Holding') /\ Cardinality(Holding') = Cardinality(Holding) - 1
    BY <1>1, FS_RemoveElement DEF SlotsExact
<1>3. Cardinality(Holding) \in Nat
    BY FS_CardinalityType DEF SlotsExact
<1> QED  BY <1>2, <1>3 DEF SlotsExact

\* Every step keeps the types.
LEMMA TypeStep == PipelineInv /\ PipelineNext => Typed'
<1> SUFFICES ASSUME PipelineInv, PipelineNext PROVE Typed'
    OBVIOUS
<1>0. Typed
    BY DEF PipelineInv
<1>1. ASSUME NEW tool \in InlineTools, CallStarts(tool) PROVE Typed'
    <2>1. CASE Admits(tool) /\ research' = [research EXCEPT !.inCall = TRUE, !.calls = @ + 1]
               /\ open' = open \cup {tool}
        <3>1. research.calls + 1 \in 0 .. MaxToolCalls
            BY <2>1, <1>0, CallCounted DEF Typed
        <3>2. research' \in Researches /\ research'.sel = research.sel
            BY <2>1, <3>1, <1>0 DEF Typed, Researches
        <3> QED  BY <1>1, <2>1, <3>2, <1>0 DEF CallStarts, Typed
    <2>2. CASE Leave("error") /\ UNCHANGED open
        BY <1>1, <2>2, <1>0, LeaveFacts, StageNames DEF CallStarts, Typed
    <2> QED  BY <1>1, <2>1, <2>2 DEF CallStarts
<1>2. ASSUME NEW move \in Moves, CallEnds(move[1], move[2]) PROVE Typed'
    <2>1. /\ move[2] \in Stages
          /\ PhaseAfter(research.phase, move[1]) \in Phases
          /\ (IF move[2] = "ended" THEN "ok" ELSE research.end) \in Ends
        BY <1>0, StageNames DEF Moves, Typed, Researches, PhaseAfter, Phases
    <2>2. research' \in Researches /\ research'.sel = research.sel
        BY <1>2, <2>1, <1>0 DEF CallEnds, Typed, Researches
    <2> QED  BY <1>2, <2>2, <1>0 DEF CallEnds, Typed
<1>3. CASE Begin
    BY <1>3, <1>0, StageNames DEF Begin, Typed, Researches
<1>4. CASE ResolveIntent
    <2>1. CASE \E end \in Ends : Leave(end)
        BY <1>4, <2>1, <1>0, LeaveFacts DEF ResolveIntent, Typed
    <2>2. CASE research' = [research EXCEPT !.at = "advise",
                                !.phase = IF research.resumed THEN PlannerOutputReady(@) ELSE @]
        BY <1>4, <2>2, <1>0, StageNames
            DEF ResolveIntent, Typed, Researches, PlannerOutputReady, Phases
    <2> QED  BY <1>4, <2>1, <2>2, StageNames DEF ResolveIntent
<1>5. CASE Advise
    <2>1. CASE Leave("error")
        BY <1>5, <2>1, <1>0, LeaveFacts, StageNames DEF Advise, Typed
    <2>2. ASSUME NEW sel \in SUBSET setting.enabled, NEW fork \in BOOLEAN,
                 research' = [research EXCEPT !.at = "act", !.sel = sel, !.fork = fork]
          PROVE  Typed'
        <3>1. sel \subseteq Marketplaces
            BY <1>0, PipelineConstants DEF Typed, Settings
        <3>2. research' \in Researches /\ research'.sel = sel
            BY <2>2, <3>1, <1>0, StageNames DEF Typed, Researches
        <3> QED  BY <1>5, <3>2, <1>0 DEF Advise, Typed
    <2>3. ASSUME NEW sel \in SUBSET setting.enabled, NEW parallel \in BOOLEAN
          PROVE  (parallel /\ Cardinality(sel) > 1) \in BOOLEAN
        OBVIOUS
    <2> QED  BY <1>5, <2>1, <2>2, <2>3 DEF Advise
<1>6. CASE Act
    <2>1. research' \in Researches /\ research'.sel = research.sel
        BY <1>6, <1>0, GotoFacts, StageNames DEF Act, Typed
    <2> QED  BY <1>6, <2>1, <1>0, InlineToolNames DEF Act, Typed
<1>7. CASE Dispatch
    <2>1. CASE Leave("error") /\ UNCHANGED branch
        BY <1>7, <2>1, <1>0, LeaveFacts, StageNames DEF Dispatch, Typed
    <2>2. CASE /\ Goto("search")
               /\ branch' = [m \in Marketplaces |->
                                IF m \in research.sel THEN "waiting" ELSE "none"]
        <3>1. research' \in Researches /\ research'.sel = research.sel
            BY <2>2, <1>0, GotoFacts, StageNames DEF Typed
        <3>2. branch' \in [Marketplaces -> BranchStates]
            BY <2>2 DEF BranchStates
        <3> QED  BY <1>7, <3>1, <3>2, <1>0 DEF Dispatch, Typed
    <2> QED  BY <1>7, <2>1, <2>2 DEF Dispatch
<1>8. CASE SearchOver
    <2>1. research' \in Researches /\ research'.sel = research.sel
        BY <1>8, <1>0, LeaveFacts, GotoFacts, StageNames DEF SearchOver, Typed
    <2> QED  BY <1>8, <2>1, <1>0 DEF SearchOver, Typed
<1>9. CASE CallFails
    <2>1. research' \in Researches /\ research'.sel = research.sel
        BY <1>9, <1>0, LeaveFacts, StageNames DEF CallFails, Typed
    <2> QED  BY <1>9, <2>1, <1>0 DEF CallFails, Typed
<1>10. CASE InsightUnwinds
    BY <1>10, <1>0 DEF InsightUnwinds, Typed
<1>11. CASE Unwound
    <2>1. research' \in Researches /\ research'.sel = research.sel
        BY <1>11, <1>0, GotoFacts, StageNames DEF Unwound, Typed
    <2> QED  BY <1>11, <2>1, <1>0 DEF Unwound, Typed
<1>12. CASE InsightTaskEnds
    BY <1>12, <1>0 DEF InsightTaskEnds, Typed
<1>13. CASE Cancelled
    <2>1. CASE research.fork
        BY <1>13, <2>1, <1>0, LeaveFacts, StageNames DEF Cancelled, Typed
    <2>2. CASE ~research.fork
        <3>1. (IF insight = "running" THEN "unwind" ELSE "ended") \in Stages
              /\ "cancelled" \in Ends
            BY StageNames
        <3>2. research' \in Researches /\ research'.sel = research.sel
            BY <1>13, <2>2, <3>1, <1>0 DEF Cancelled, Typed, Researches
        <3>3. branch' \in [Marketplaces -> BranchStates]
            BY <1>13, <2>2, <1>0 DEF Cancelled, Typed, BranchStates
        <3> QED  BY <1>13, <3>2, <3>3, <1>0 DEF Cancelled, Typed
    <2> QED  BY <2>1, <2>2
<1>14. CASE OthersTakeSlot
    BY <1>14, <1>0 DEF OthersTakeSlot, Typed
<1>15. CASE OthersGiveSlot
    BY <1>15, <1>0 DEF OthersGiveSlot, Typed
<1>16. ASSUME NEW m \in Marketplaces, BranchStarts(m) PROVE Typed'
    <2>1. branch' \in [Marketplaces -> BranchStates]
        BY <1>16, <1>0, SetFacts DEF BranchStarts, Typed, BranchStates
    <2>2. research' \in Researches /\ research'.sel = research.sel
        BY <1>16, <1>0, LeaveFacts, StageNames DEF BranchStarts, Typed
    <2>3. slots' \in Nat /\ open' \subseteq open \cup {m}
        BY <1>16, <1>0 DEF BranchStarts, Typed, Opens
    <2> QED  BY <1>16, <2>1, <2>2, <2>3, <1>0 DEF BranchStarts, Typed
<1>17. ASSUME NEW m \in Marketplaces, BranchEnds(m) PROVE Typed'
    <2>1. CallReturns(m) /\ slots' = slots + 1
          /\ UNCHANGED <<setting, others, research, insight>>
        BY <1>17 DEF BranchEnds
    <2> QED  BY <2>1, ReturnFacts, <1>0 DEF Typed
<1>18. ASSUME NEW m \in Marketplaces, BranchTimesOut(m) PROVE Typed'
    <2>1. branch' \in [Marketplaces -> BranchStates]
        BY <1>18, <1>0, SetFacts DEF BranchTimesOut, Typed, BranchStates
    <2>2. research' \in Researches /\ research'.sel = research.sel
        BY <1>18, <1>0, StageNames DEF BranchTimesOut, Typed, Researches
    <2> QED  BY <1>18, <2>1, <2>2, <1>0 DEF BranchTimesOut, Typed
<1>19. ASSUME NEW m \in Marketplaces, SequentialSearch(m) PROVE Typed'
    <2>1. CASE Admits("item_search") /\ SetBranch(m, "running") /\ Opens(m)
               /\ research' = [research EXCEPT !.calls = @ + 1]
        <3>1. research' \in Researches /\ research'.sel = research.sel
            BY <2>1, CallCounted, <1>0 DEF Typed, Researches
        <3>2. branch' \in [Marketplaces -> BranchStates]
            BY <2>1, SetFacts, <1>0 DEF Typed, BranchStates
        <3> QED  BY <1>19, <2>1, <3>1, <3>2, <1>0 DEF SequentialSearch, Typed, Opens
    <2>2. CASE SetBranch(m, "miss") /\ UNCHANGED <<research, open>>
        BY <1>19, <2>2, SetFacts, <1>0 DEF SequentialSearch, Typed, BranchStates
    <2>3. CASE CallReturns(m) /\ UNCHANGED research
        BY <1>19, <2>3, ReturnFacts, <1>0 DEF SequentialSearch, Typed
    <2> QED  BY <1>19, <2>1, <2>2, <2>3 DEF SequentialSearch
<1>20. ASSUME NEW m \in Marketplaces, BranchUnwinds(m) PROVE Typed'
    <2>1. branch' \in [Marketplaces -> BranchStates]
        BY <1>20, <1>0, SetFacts DEF BranchUnwinds, Typed, BranchStates
    <2> QED  BY <1>20, <2>1, <1>0 DEF BranchUnwinds, Typed
<1> QED
    BY PipelineCases, <1>1, <1>2, <1>3, <1>4, <1>5, <1>6, <1>7, <1>8, <1>9, <1>10,
       <1>11, <1>12, <1>13, <1>14, <1>15, <1>16, <1>17, <1>18, <1>19, <1>20

\* Branches and the category task only run in the search, and are awaited on the way out.
LEMMA QuietStep == PipelineInv /\ PipelineNext => Quiet'
<1> SUFFICES ASSUME PipelineInv, PipelineNext PROVE Quiet'
    OBVIOUS
<1>0. Typed /\ Quiet
    BY DEF PipelineInv
<1>1. ASSUME NEW tool \in InlineTools, CallStarts(tool) PROVE Quiet'
    BY <1>1, <1>0, LeaveFacts, OverMeans, InlineToolNames, StageNames
        DEF CallStarts, Typed, Researches, Quiet
<1>2. ASSUME NEW move \in Moves, CallEnds(move[1], move[2]) PROVE Quiet'
    BY <1>2, <1>0, OverMeans, InlineToolNames, StageNames
        DEF CallEnds, Typed, Researches, Moves, Quiet
<1>3. CASE Begin
    BY <1>3, <1>0, OverMeans, InlineToolNames, StageNames
        DEF Begin, Typed, Researches, Quiet
<1>4. CASE ResolveIntent
    BY <1>4, <1>0, LeaveFacts, OverMeans, InlineToolNames, StageNames
        DEF ResolveIntent, Typed, Researches, Quiet
<1>5. CASE Advise
    BY <1>5, <1>0, LeaveFacts, OverMeans, InlineToolNames, StageNames
        DEF Advise, Typed, Researches, Quiet
<1>6. CASE Act
    BY <1>6, <1>0, GotoFacts, OverMeans, InlineToolNames, StageNames
        DEF Act, Typed, Quiet
<1>7. CASE Dispatch
    BY <1>7, <1>0, LeaveFacts, GotoFacts, OverMeans, InlineToolNames, StageNames
        DEF Dispatch, Typed, Quiet
<1>8. CASE SearchOver
    BY <1>8, <1>0, LeaveFacts, GotoFacts, OverMeans, InlineToolNames, StageNames
        DEF SearchOver, Typed, Quiet
<1>9. CASE CallFails
    BY <1>9, <1>0, LeaveFacts, OverMeans, InlineToolNames, StageNames
        DEF CallFails, Typed, Quiet
<1>10. CASE InsightUnwinds
    BY <1>10, <1>0, OverMeans, InlineToolNames, StageNames
        DEF InsightUnwinds, Typed, Quiet
<1>11. CASE Unwound
    BY <1>11, <1>0, GotoFacts, OverMeans, InlineToolNames, StageNames
        DEF Unwound, Typed, Quiet
<1>12. CASE InsightTaskEnds
    BY <1>12, <1>0, OverMeans, InlineToolNames, StageNames
        DEF InsightTaskEnds, Typed, Quiet
<1>13. CASE Cancelled
    <2>1. CASE research.fork
        BY <1>13, <2>1, <1>0, LeaveFacts, OverMeans, InlineToolNames, StageNames
            DEF Cancelled, Typed, Live, Quiet
    <2>2. CASE ~research.fork
        <3>1. \A m \in Marketplaces : branch'[m] \notin {"waiting", "running"}
            BY <1>13, <2>2 DEF Cancelled
        <3>2. research'.at # "unwind" => insight' # "running"
            BY <1>13, <2>2, <1>0 DEF Cancelled, Typed, Researches
        <3>3. research'.at \in {"unwind", "ended"}
            BY <1>13, <2>2, <1>0 DEF Cancelled, Typed, Researches
        <3> QED  BY <3>1, <3>2, <3>3 DEF Quiet
    <2> QED  BY <2>1, <2>2
<1>14. CASE OthersTakeSlot
    BY <1>14, <1>0, OverMeans, InlineToolNames, StageNames
        DEF OthersTakeSlot, Typed, Quiet
<1>15. CASE OthersGiveSlot
    BY <1>15, <1>0, OverMeans, InlineToolNames, StageNames
        DEF OthersGiveSlot, Typed, Quiet
<1>16. ASSUME NEW m \in Marketplaces, BranchStarts(m) PROVE Quiet'
    BY <1>16, <1>0, LeaveFacts, SetFacts, OverMeans, InlineToolNames, StageNames
        DEF BranchStarts, Typed, BranchStates, Forked, Quiet
<1>17. ASSUME NEW m \in Marketplaces, BranchEnds(m) PROVE Quiet'
    BY <1>17, <1>0, ReturnFacts, OverMeans, InlineToolNames, StageNames
        DEF BranchEnds, Typed, Forked, Quiet
<1>18. ASSUME NEW m \in Marketplaces, BranchTimesOut(m) PROVE Quiet'
    BY <1>18, <1>0, SetFacts, OverMeans, InlineToolNames, StageNames
        DEF BranchTimesOut, Typed, Researches, BranchStates, Forked, Quiet
<1>19. ASSUME NEW m \in Marketplaces, SequentialSearch(m) PROVE Quiet'
    BY <1>19, <1>0, SetFacts, ReturnFacts, OverMeans, InlineToolNames, StageNames
        DEF SequentialSearch, Typed, Researches, BranchStates, Quiet
<1>20. ASSUME NEW m \in Marketplaces, BranchUnwinds(m) PROVE Quiet'
    BY <1>20, <1>0, SetFacts, OverMeans, InlineToolNames, StageNames
        DEF BranchUnwinds, Typed, BranchStates, Quiet
<1> QED
    BY PipelineCases, <1>1, <1>2, <1>3, <1>4, <1>5, <1>6, <1>7, <1>8, <1>9, <1>10,
       <1>11, <1>12, <1>13, <1>14, <1>15, <1>16, <1>17, <1>18, <1>19, <1>20

\* The phase follows the stage.
LEMMA PhaseStep == PipelineInv /\ PipelineNext => PhaseAtStage'
<1> SUFFICES ASSUME PipelineInv, PipelineNext PROVE PhaseAtStage'
    OBVIOUS
<1>0. Typed /\ Quiet /\ PhaseAtStage
    BY DEF PipelineInv
<1>1. ASSUME NEW tool \in InlineTools, CallStarts(tool) PROVE PhaseAtStage'
    BY <1>1, <1>0, LeaveFacts, InlineToolNames, StageNames
        DEF CallStarts, Typed, Researches, PhaseAtStage, Quiet
<1>2. ASSUME NEW move \in Moves, CallEnds(move[1], move[2]) PROVE PhaseAtStage'
    <2>1. /\ research.at = move[1] /\ research'.at = move[2]
          /\ research'.phase = PhaseAfter(research.phase, move[1])
          /\ research'.resumed = research.resumed /\ insight' = insight
        BY <1>2, <1>0 DEF CallEnds, Typed, Researches
    <2>2. insight # "running" /\ (move[1] = "planner" => ~research.resumed)
        BY <2>1, <1>0 DEF Moves, Quiet, PhaseAtStage
    <2>3. CASE move[1] \in {"planner", "category_insight"}
        BY <2>1, <2>2, <2>3, <1>0 DEF Moves, PhaseAfter, PhaseAtStage
    <2>4. CASE move[1] \in {"recall", "price_compare", "shipping_calc"}
        BY <2>1, <2>2, <2>4, <1>0 DEF Moves, PhaseAfter, PhaseAtStage
    <2>5. CASE move[1] \in {"item_picker", "shopping_summary"}
        BY <2>1, <2>2, <2>5, <1>0 DEF Moves, PhaseAfter, PhaseAtStage
    <2> QED  BY <2>3, <2>4, <2>5 DEF Moves
<1>3. CASE Begin
    BY <1>3, <1>0, InlineToolNames, StageNames
        DEF Begin, Typed, Researches, PhaseAtStage, Quiet
<1>4. CASE ResolveIntent
    <2>1. CASE \E end \in Ends : Leave(end)
        BY <1>4, <2>1, <1>0, LeaveFacts, StageNames DEF ResolveIntent, Typed, Quiet, PhaseAtStage
    <2>2. CASE research' = [research EXCEPT !.at = "advise",
                                !.phase = IF research.resumed THEN PlannerOutputReady(@) ELSE @]
        <3>1. research'.at = "advise" /\ research'.phase = "searching"
            BY <1>4, <2>2, <1>0
                DEF ResolveIntent, Typed, Researches, PhaseAtStage, PlannerOutputReady
        <3> QED  BY <1>4, <3>1 DEF ResolveIntent, PhaseAtStage
    <2> QED  BY <1>4, <2>1, <2>2, StageNames DEF ResolveIntent
<1>5. CASE Advise
    BY <1>5, <1>0, LeaveFacts, InlineToolNames, StageNames
        DEF Advise, Typed, Researches, PhaseAtStage, Quiet
<1>6. CASE Act
    BY <1>6, <1>0, GotoFacts, InlineToolNames, StageNames
        DEF Act, Typed, PhaseAtStage, Quiet
<1>7. CASE Dispatch
    BY <1>7, <1>0, LeaveFacts, GotoFacts, InlineToolNames, StageNames
        DEF Dispatch, Typed, PhaseAtStage, Quiet
<1>8. CASE SearchOver
    BY <1>8, <1>0, LeaveFacts, GotoFacts, InlineToolNames, StageNames
        DEF SearchOver, Typed, PhaseAtStage, Quiet
<1>9. CASE CallFails
    BY <1>9, <1>0, LeaveFacts, InlineToolNames, StageNames
        DEF CallFails, Typed, PhaseAtStage, Quiet
<1>10. CASE InsightUnwinds
    BY <1>10, <1>0, InlineToolNames, StageNames
        DEF InsightUnwinds, Typed, PhaseAtStage, Quiet
<1>11. CASE Unwound
    BY <1>11, <1>0, GotoFacts, InlineToolNames, StageNames
        DEF Unwound, Typed, PhaseAtStage, Quiet
<1>12. CASE InsightTaskEnds
    BY <1>12, <1>0, InlineToolNames, StageNames
        DEF InsightTaskEnds, Typed, PhaseAtStage, Quiet
<1>13. CASE Cancelled
    <2>1. research'.at \in {"unwind", "ended"} /\ research'.phase = research.phase
          /\ insight' = insight
        <3>1. CASE research.fork
            BY <1>13, <3>1, <1>0, LeaveFacts, StageNames DEF Cancelled, Typed
        <3>2. CASE ~research.fork
            BY <1>13, <3>2, <1>0 DEF Cancelled, Typed, Researches
        <3> QED  BY <3>1, <3>2
    <2> QED  BY <2>1, <1>0 DEF PhaseAtStage
<1>14. CASE OthersTakeSlot
    BY <1>14, <1>0, InlineToolNames, StageNames
        DEF OthersTakeSlot, Typed, PhaseAtStage, Quiet
<1>15. CASE OthersGiveSlot
    BY <1>15, <1>0, InlineToolNames, StageNames
        DEF OthersGiveSlot, Typed, PhaseAtStage, Quiet
<1>16. ASSUME NEW m \in Marketplaces, BranchStarts(m) PROVE PhaseAtStage'
    BY <1>16, <1>0, LeaveFacts, SetFacts, InlineToolNames, StageNames
        DEF BranchStarts, Typed, BranchStates, Forked, PhaseAtStage, Quiet
<1>17. ASSUME NEW m \in Marketplaces, BranchEnds(m) PROVE PhaseAtStage'
    BY <1>17, <1>0, ReturnFacts, InlineToolNames, StageNames
        DEF BranchEnds, Typed, Forked, PhaseAtStage, Quiet
<1>18. ASSUME NEW m \in Marketplaces, BranchTimesOut(m) PROVE PhaseAtStage'
    BY <1>18, <1>0, SetFacts, InlineToolNames, StageNames
        DEF BranchTimesOut, Typed, Researches, BranchStates, Forked, PhaseAtStage, Quiet
<1>19. ASSUME NEW m \in Marketplaces, SequentialSearch(m) PROVE PhaseAtStage'
    BY <1>19, <1>0, SetFacts, ReturnFacts, InlineToolNames, StageNames
        DEF SequentialSearch, Typed, Researches, BranchStates, PhaseAtStage, Quiet
<1>20. ASSUME NEW m \in Marketplaces, BranchUnwinds(m) PROVE PhaseAtStage'
    BY <1>20, <1>0, SetFacts, InlineToolNames, StageNames
        DEF BranchUnwinds, Typed, BranchStates, PhaseAtStage, Quiet
<1> QED
    BY PipelineCases, <1>1, <1>2, <1>3, <1>4, <1>5, <1>6, <1>7, <1>8, <1>9, <1>10,
       <1>11, <1>12, <1>13, <1>14, <1>15, <1>16, <1>17, <1>18, <1>19, <1>20

\* Every permit is free, with another research, or with a running branch.
LEMMA SlotsStep == PipelineInv /\ PipelineNext => SlotsExact'
<1> SUFFICES ASSUME PipelineInv, PipelineNext PROVE SlotsExact'
    OBVIOUS
<1>0. Typed /\ Quiet /\ SlotsExact
    BY DEF PipelineInv
<1>1. ASSUME NEW tool \in InlineTools, CallStarts(tool) PROVE SlotsExact'
    BY <1>1, <1>0, HoldSame, StageNames, LeaveFacts
        DEF CallStarts, Typed, HoldsSlot, Researches
<1>2. ASSUME NEW move \in Moves, CallEnds(move[1], move[2]) PROVE SlotsExact'
    BY <1>2, <1>0, HoldSame, StageNames
        DEF CallEnds, Typed, HoldsSlot, Researches, Moves
<1>3. CASE Begin
    BY <1>3, <1>0, HoldSame, StageNames
        DEF Begin, Typed, HoldsSlot, Researches
<1>4. CASE ResolveIntent
    BY <1>4, <1>0, HoldSame, StageNames, LeaveFacts
        DEF ResolveIntent, Typed, HoldsSlot, Researches
<1>5. CASE Advise
    <2>1. research.at = "advise" /\ UNCHANGED <<slots, others, branch>>
        BY <1>5 DEF Advise
    <2>2. \A m \in Marketplaces : branch[m] # "running"
        BY <2>1, <1>0 DEF Quiet
    <2> QED  BY <2>1, <2>2, <1>0, HoldNone DEF HoldsSlot
<1>6. CASE Act
    BY <1>6, <1>0, HoldSame, StageNames, GotoFacts
        DEF Act, Typed, HoldsSlot
<1>7. CASE Dispatch
    <2>1. research.at = "dispatch" /\ UNCHANGED <<slots, others>>
        BY <1>7 DEF Dispatch
    <2>2. \A m \in Marketplaces : branch[m] # "running"
        BY <2>1, <1>0 DEF Quiet
    <2>3. \A m \in Marketplaces : branch'[m] # "running"
        BY <1>7, <2>2 DEF Dispatch
    <2> QED  BY <2>1, <2>2, <2>3, <1>0, HoldNone DEF HoldsSlot
<1>8. CASE SearchOver
    BY <1>8, <1>0, HoldSame, StageNames, LeaveFacts, GotoFacts
        DEF SearchOver, Typed, HoldsSlot
<1>9. CASE CallFails
    BY <1>9, <1>0, HoldSame, StageNames, LeaveFacts
        DEF CallFails, Typed, HoldsSlot
<1>10. CASE InsightUnwinds
    BY <1>10, <1>0, HoldSame, StageNames
        DEF InsightUnwinds, Typed, HoldsSlot
<1>11. CASE Unwound
    BY <1>11, <1>0, HoldSame, StageNames, GotoFacts
        DEF Unwound, Typed, HoldsSlot
<1>12. CASE InsightTaskEnds
    BY <1>12, <1>0, HoldSame, StageNames
        DEF InsightTaskEnds, Typed, HoldsSlot
<1>13. CASE Cancelled
    <2>1. CASE research.fork
        BY <1>13, <2>1, <1>0, LeaveFacts, HoldSame, StageNames DEF Cancelled, Typed, HoldsSlot
    <2>2. CASE ~research.fork
        <3>1. ~research'.fork /\ UNCHANGED <<slots, others>>
            BY <1>13, <2>2, <1>0 DEF Cancelled, Typed, Researches
        <3> QED  BY <3>1, <2>2, <1>0, HoldNone DEF HoldsSlot
    <2> QED  BY <2>1, <2>2
<1>14. CASE OthersTakeSlot
    <2>1. Holding' = Holding
        BY <1>14 DEF OthersTakeSlot, Holding, HoldsSlot
    <2>2. Cardinality(Holding) \in Nat
        BY <1>0, FS_CardinalityType DEF SlotsExact
    <2> QED  BY <1>14, <2>1, <2>2, <1>0 DEF OthersTakeSlot, SlotsExact, Typed
<1>15. CASE OthersGiveSlot
    <2>1. Holding' = Holding
        BY <1>15 DEF OthersGiveSlot, Holding, HoldsSlot
    <2>2. Cardinality(Holding) \in Nat
        BY <1>0, FS_CardinalityType DEF SlotsExact
    <2> QED  BY <1>15, <2>1, <2>2, <1>0 DEF OthersGiveSlot, SlotsExact, Typed
<1>16. ASSUME NEW m \in Marketplaces, BranchStarts(m) PROVE SlotsExact'
    <2>1. /\ research.fork /\ branch[m] = "waiting" /\ others' = others
          /\ branch \in [Marketplaces -> BranchStates]
        BY <1>16, <1>0 DEF BranchStarts, Forked, Typed
    <2>2. CASE SetBranch(m, "running") /\ slots' = slots - 1 /\ UNCHANGED research
        <3>1. branch'[m] = "running" /\ \A n \in Marketplaces \ {m} : branch'[n] = branch[n]
            BY <2>1, <2>2, SetFacts DEF BranchStates
        <3> QED  BY <2>1, <2>2, <3>1, <1>0, HoldOneMore DEF HoldsSlot, Typed
    <2>3. CASE SetBranch(m, "miss") /\ UNCHANGED <<research, slots>>
        <3>1. branch'[m] = "miss" /\ \A n \in Marketplaces \ {m} : branch'[n] = branch[n]
            BY <2>1, <2>3, SetFacts DEF BranchStates
        <3> QED  BY <2>1, <2>3, <3>1, <1>0, HoldSame DEF HoldsSlot
    <2>4. CASE SetBranch(m, "failed") /\ Leave("error") /\ UNCHANGED slots
        <3>1. branch'[m] = "failed" /\ \A n \in Marketplaces \ {m} : branch'[n] = branch[n]
            BY <2>1, <2>4, SetFacts DEF BranchStates
        <3>2. research'.fork = research.fork
            BY <2>4, <1>0, LeaveFacts, StageNames DEF Typed
        <3> QED  BY <2>1, <2>4, <3>1, <3>2, <1>0, HoldSame DEF HoldsSlot
    <2> QED  BY <1>16, <2>2, <2>3, <2>4 DEF BranchStarts
<1>17. ASSUME NEW m \in Marketplaces, BranchEnds(m) PROVE SlotsExact'
    <2>1. /\ research.fork /\ branch[m] = "running" /\ CallReturns(m)
          /\ slots' = slots + 1 /\ UNCHANGED <<others, research>>
        BY <1>17 DEF BranchEnds, Forked
    <2>2. branch'[m] # "running" /\ \A n \in Marketplaces \ {m} : branch'[n] = branch[n]
        BY <2>1, <1>0, ReturnFacts
    <2> QED  BY <2>1, <2>2, <1>0, HoldOneLess DEF HoldsSlot, Typed
<1>18. ASSUME NEW m \in Marketplaces, BranchTimesOut(m) PROVE SlotsExact'
    <2>1. /\ research.fork /\ branch[m] = "running" /\ slots' = slots + 1 /\ others' = others
          /\ research'.fork = research.fork
        BY <1>18, <1>0 DEF BranchTimesOut, Forked, Typed, Researches
    <2>2. branch'[m] # "running" /\ \A n \in Marketplaces \ {m} : branch'[n] = branch[n]
        BY <1>18, <1>0, SetFacts DEF BranchTimesOut, Typed, BranchStates
    <2> QED  BY <2>1, <2>2, <1>0, HoldOneLess DEF HoldsSlot, Typed
<1>19. ASSUME NEW m \in Marketplaces, SequentialSearch(m) PROVE SlotsExact'
    <2>1. ~research.fork /\ ~research'.fork /\ UNCHANGED <<slots, others>>
        BY <1>19, <1>0 DEF SequentialSearch, Typed, Researches
    <2> QED  BY <2>1, <1>0, HoldNone DEF HoldsSlot
<1>20. ASSUME NEW m \in Marketplaces, BranchUnwinds(m) PROVE SlotsExact'
    <2>1. research.at = "unwind" /\ branch[m] \in {"waiting", "running"}
          /\ UNCHANGED <<others, research>>
        BY <1>20 DEF BranchUnwinds
    <2>2. research.fork
        BY <2>1, <1>0 DEF Quiet
    <2>3. branch'[m] = "cancelled" /\ \A n \in Marketplaces \ {m} : branch'[n] = branch[n]
        BY <1>20, <1>0, SetFacts DEF BranchUnwinds, Typed, BranchStates
    <2>4. CASE branch[m] = "running" /\ slots' = slots + 1
        BY <2>1, <2>2, <2>3, <2>4, <1>0, HoldOneLess DEF HoldsSlot, Typed
    <2>5. CASE branch[m] = "waiting" /\ slots' = slots
        BY <2>1, <2>3, <2>5, <1>0, HoldSame DEF HoldsSlot
    <2> QED  BY <1>20, <2>1, <2>4, <2>5 DEF BranchUnwinds
<1> QED
    BY PipelineCases, <1>1, <1>2, <1>3, <1>4, <1>5, <1>6, <1>7, <1>8, <1>9, <1>10,
       <1>11, <1>12, <1>13, <1>14, <1>15, <1>16, <1>17, <1>18, <1>19, <1>20

\* What is known of the search, and the calls left open, at every stage.
LEMMA EvidenceStep == PipelineInv /\ PipelineNext => Evidence'
<1> SUFFICES ASSUME PipelineInv, PipelineNext PROVE Evidence'
    OBVIOUS
<1>0. Typed /\ Quiet /\ Evidence
    BY DEF PipelineInv
<1>1. ASSUME NEW tool \in InlineTools, CallStarts(tool) PROVE Evidence'
    BY <1>1, <1>0, LeaveFacts, OverMeans, InlineToolNames, StageNames
        DEF CallStarts, Typed, Researches, Quiet, Evidence, SearchKnown, Answered, OpenCall,
            OpenInsight, Missed, Before, After
<1>2. ASSUME NEW move \in Moves, CallEnds(move[1], move[2]) PROVE Evidence'
    BY <1>2, <1>0, OverMeans, InlineToolNames, StageNames
        DEF CallEnds, Typed, Researches, Moves, Quiet, Evidence, SearchKnown, Answered,
            OpenCall, OpenInsight, Missed, Before, After
<1>3. CASE Begin
    BY <1>3, <1>0, OverMeans, InlineToolNames, StageNames
        DEF Begin, Typed, Researches, Quiet, Evidence, SearchKnown, Answered, OpenCall,
            OpenInsight, Missed, Before, After
<1>4. CASE ResolveIntent
    BY <1>4, <1>0, LeaveFacts, OverMeans, InlineToolNames, StageNames
        DEF ResolveIntent, Typed, Researches, Quiet, Evidence, SearchKnown, Answered, OpenCall,
            OpenInsight, Missed, Before, After
<1>5. CASE Advise
    BY <1>5, <1>0, LeaveFacts, OverMeans, InlineToolNames, StageNames
        DEF Advise, Typed, Researches, Quiet, Evidence, SearchKnown, Answered, OpenCall,
            OpenInsight, Missed, Before, After
<1>6. CASE Act
    BY <1>6, <1>0, GotoFacts, OverMeans, InlineToolNames, StageNames
        DEF Act, Typed, Quiet, Evidence, SearchKnown, Answered, OpenCall, OpenInsight, Missed,
            Before, After
<1>7. CASE Dispatch
    BY <1>7, <1>0, LeaveFacts, GotoFacts, OverMeans, InlineToolNames, StageNames
        DEF Dispatch, Typed, Quiet, Evidence, SearchKnown, Answered, OpenCall, OpenInsight,
            Missed, Before, After
<1>8. CASE SearchOver
    <2>1. CASE \E end \in Ends \ {"ok"} : Leave(end)
        BY <2>1, <1>0, LeaveFacts DEF Typed, Evidence, Before, After
    <2>2. CASE insight # "failed" /\ Found # {} /\ Goto("recall")
        <3>1. /\ research.at = "search" /\ insight # "running"
              /\ UNCHANGED <<branch, insight, open>>
              /\ \A m \in Marketplaces : branch[m] \notin {"waiting", "running"}
            BY <1>8, OverMeans DEF SearchOver
        <3>2. /\ research'.at = "recall" /\ research'.end = research.end
              /\ research'.inCall = research.inCall /\ research'.sel = research.sel
            BY <2>2, <1>0, GotoFacts, StageNames DEF Typed
        <3>3. \E m \in Marketplaces : branch[m] = "hit"
            BY <2>2 DEF Found, Branches
        <3>4. \A m \in Marketplaces : m \in research.sel <=> Answered(m)
            BY <3>1, <1>0 DEF Evidence, Answered, Typed, BranchStates
        <3>5. insight \in {"none", "done"}
            BY <2>2, <3>1, <1>0 DEF Evidence, Typed
        <3>6. SearchKnown'
            BY <3>1, <3>2, <3>3, <3>4, <3>5 DEF SearchKnown, Answered
        <3>7. open \subseteq Missed
            BY <3>1, <1>0 DEF Evidence, OpenInsight, Missed
        <3>8. research.end # "ok" /\ ~research.inCall
            BY <3>1, <1>0, InlineToolNames DEF Evidence
        <3> QED  BY <3>1, <3>2, <3>6, <3>7, <3>8 DEF Evidence, Missed, Before, After
    <2> QED  BY <1>8, <2>1, <2>2, StageNames DEF SearchOver
<1>9. CASE CallFails
    BY <1>9, <1>0, LeaveFacts, OverMeans, InlineToolNames, StageNames
        DEF CallFails, Typed, Quiet, Evidence, SearchKnown, Answered, OpenCall, OpenInsight,
            Missed, Before, After
<1>10. CASE InsightUnwinds
    BY <1>10, <1>0, OverMeans, InlineToolNames, StageNames
        DEF InsightUnwinds, Typed, Quiet, Evidence, SearchKnown, Answered, OpenCall,
            OpenInsight, Missed, Before, After
<1>11. CASE Unwound
    BY <1>11, <1>0, GotoFacts, OverMeans, InlineToolNames, StageNames
        DEF Unwound, Typed, Quiet, Evidence, SearchKnown, Answered, OpenCall, OpenInsight,
            Missed, Before, After
<1>12. CASE InsightTaskEnds
    BY <1>12, <1>0, OverMeans, InlineToolNames, StageNames
        DEF InsightTaskEnds, Typed, Quiet, Evidence, SearchKnown, Answered, OpenCall,
            OpenInsight, Missed, Before, After
<1>13. CASE Cancelled
    <2>1. research'.at \in {"unwind", "ended"} /\ research'.end = "cancelled"
          /\ research'.inCall = FALSE
        <3>1. CASE research.fork
            BY <1>13, <3>1, <1>0, LeaveFacts, StageNames DEF Cancelled, Typed
        <3>2. CASE ~research.fork
            BY <1>13, <3>2, <1>0 DEF Cancelled, Typed, Researches
        <3> QED  BY <3>1, <3>2
    <2> QED  BY <2>1 DEF Evidence, Before, After
<1>14. CASE OthersTakeSlot
    BY <1>14, <1>0, OverMeans, InlineToolNames, StageNames
        DEF OthersTakeSlot, Typed, Quiet, Evidence, SearchKnown, Answered, OpenCall,
            OpenInsight, Missed, Before, After
<1>15. CASE OthersGiveSlot
    BY <1>15, <1>0, OverMeans, InlineToolNames, StageNames
        DEF OthersGiveSlot, Typed, Quiet, Evidence, SearchKnown, Answered, OpenCall,
            OpenInsight, Missed, Before, After
<1>16. ASSUME NEW m \in Marketplaces, BranchStarts(m) PROVE Evidence'
    <2>1. research.at = "search" /\ branch[m] = "waiting" /\ insight' = insight
        BY <1>16 DEF BranchStarts, Forked
    <2>2. CASE SetBranch(m, "failed") /\ Leave("error") /\ UNCHANGED open
        BY <2>2, <1>0, LeaveFacts, StageNames DEF Typed, Evidence, Before, After
    <2>3. ASSUME NEW state \in {"running", "miss"}, SetBranch(m, state), UNCHANGED research,
                 open' \subseteq open \cup {m}
          PROVE  Evidence'
        <3>1. branch'[m] = state /\ \A n \in Marketplaces \ {m} : branch'[n] = branch[n]
            BY <2>3, <1>0, SetFacts DEF Typed, BranchStates
        <3> QED  BY <2>1, <2>3, <3>1, <1>0, InlineToolNames
                    DEF Evidence, OpenInsight, Before, After
    <2>4. open \subseteq open \cup {m}
        OBVIOUS
    <2> QED  BY <1>16, <2>2, <2>3, <2>4 DEF BranchStarts, Opens
<1>17. ASSUME NEW m \in Marketplaces, BranchEnds(m) PROVE Evidence'
    BY <1>17, <1>0, ReturnFacts, OverMeans, InlineToolNames, StageNames
        DEF BranchEnds, Typed, Forked, Quiet, Evidence, SearchKnown, Answered, OpenCall,
            OpenInsight, Missed, Before, After
<1>18. ASSUME NEW m \in Marketplaces, BranchTimesOut(m) PROVE Evidence'
    BY <1>18, <1>0, SetFacts, OverMeans, InlineToolNames, StageNames
        DEF BranchTimesOut, Typed, Researches, BranchStates, Forked, Quiet, Evidence,
            SearchKnown, Answered, OpenCall, OpenInsight, Missed, Before, After
<1>19. ASSUME NEW m \in Marketplaces, SequentialSearch(m) PROVE Evidence'
    <2>1. research.at = "search" /\ branch[m] \in {"waiting", "running"} /\ insight' = insight
        BY <1>19 DEF SequentialSearch
    <2>2. /\ research'.at = "search" /\ research'.sel = research.sel
          /\ research'.end = research.end /\ research'.inCall = research.inCall
        BY <1>19, <2>1, <1>0 DEF SequentialSearch, Typed, Researches
    <2>3. /\ branch'[m] \in {"running", "hit", "miss"}
          /\ \A n \in Marketplaces \ {m} : branch'[n] = branch[n]
          /\ open' \subseteq open \cup {m}
          /\ m \in open' => branch'[m] \in {"running", "miss"}
        <3>1. CASE SetBranch(m, "running") /\ Opens(m)
            BY <3>1, <1>0, SetFacts DEF Typed, BranchStates, Opens
        <3>2. CASE SetBranch(m, "miss") /\ UNCHANGED open
            BY <3>2, <1>0, SetFacts DEF Typed, BranchStates
        <3>3. CASE CallReturns(m)
            BY <3>3, <1>0, ReturnFacts
        <3> QED  BY <1>19, <3>1, <3>2, <3>3 DEF SequentialSearch
    <2> QED  BY <2>1, <2>2, <2>3, <1>0, InlineToolNames DEF Evidence, OpenInsight, Before, After
<1>20. ASSUME NEW m \in Marketplaces, BranchUnwinds(m) PROVE Evidence'
    BY <1>20, <1>0, SetFacts, OverMeans, InlineToolNames, StageNames
        DEF BranchUnwinds, Typed, BranchStates, Quiet, Evidence, SearchKnown, Answered,
            OpenCall, OpenInsight, Missed, Before, After
<1> QED
    BY PipelineCases, <1>1, <1>2, <1>3, <1>4, <1>5, <1>6, <1>7, <1>8, <1>9, <1>10,
       <1>11, <1>12, <1>13, <1>14, <1>15, <1>16, <1>17, <1>18, <1>19, <1>20

-----------------------------------------------------------------------------
LEMMA InvInit == PipelineInit => PipelineInv
<1> SUFFICES ASSUME PipelineInit PROVE PipelineInv
    OBVIOUS
<1>1. PICK resumed \in BOOLEAN : research = Fresh(resumed)
    BY DEF PipelineInit
<1>2. Typed
    <2>1. 0 \in 0 .. MaxToolCalls /\ ChildSlots \in Nat
        BY PipelineConstants
    <2>2. research \in Researches /\ research.sel = {}
        BY <1>1, <2>1, StageNames DEF Fresh, Researches, Phases
    <2> QED  BY <2>1, <2>2 DEF PipelineInit, Typed, NoBranches, BranchStates
<1>3. \A m \in Marketplaces : branch[m] = "none"
    BY DEF PipelineInit, NoBranches
<1>4. Quiet /\ PhaseAtStage /\ Evidence
    BY <1>1, <1>3, StageNames
        DEF PipelineInit, Fresh, Quiet, PhaseAtStage, Evidence, OpenCall, Before, After
<1>5. SlotsExact
    <2>1. Holding = {}
        BY <1>3 DEF Holding, HoldsSlot
    <2>2. IsFiniteSet(Holding) /\ Cardinality(Holding) = 0
        BY <2>1, FS_EmptySet
    <2> QED  BY <2>2, PipelineConstants DEF PipelineInit, SlotsExact
<1> QED  BY <1>2, <1>4, <1>5 DEF PipelineInv

LEMMA InvStutters == PipelineInv /\ UNCHANGED pipelineVars => PipelineInv'
<1> SUFFICES ASSUME PipelineInv, UNCHANGED pipelineVars PROVE PipelineInv'
    OBVIOUS
<1>0. PipelineInv
    OBVIOUS
<1>1. Typed' /\ Quiet' /\ PhaseAtStage'
    BY <1>0 DEF PipelineInv, pipelineVars, Typed, Quiet, PhaseAtStage
<1>2. Holding' = Holding
    BY DEF pipelineVars, Holding, HoldsSlot
<1>3. SlotsExact'
    BY <1>0, <1>2 DEF PipelineInv, pipelineVars, SlotsExact
<1>4. Evidence'
    BY <1>0 DEF PipelineInv, pipelineVars, Evidence, SearchKnown, Answered, OpenCall, OpenInsight,
                Missed
<1> QED  BY <1>1, <1>3, <1>4 DEF PipelineInv

\* The five parts are kept together; each step lemma says which of the others it needs.
THEOREM PipelineInvariant == PipelineSpec => []PipelineInv
<1>1. PipelineInv /\ PipelineNext => PipelineInv'
    BY TypeStep, QuietStep, SlotsStep, PhaseStep, EvidenceStep DEF PipelineInv
<1> QED  BY InvInit, <1>1, InvStutters, PTL DEF PipelineSpec

\* The variables of ResearchPipeline keep their types; free and foreign slots are within the limit.
THEOREM PipelineTyped == PipelineSpec => []PipelineTypeOK
<1>1. ASSUME PipelineInv PROVE slots \in 0 .. ChildSlots /\ others \in 0 .. ChildSlots
    <2>1. slots \in Nat /\ others \in Nat /\ ChildSlots \in Nat
        BY <1>1, PipelineConstants DEF PipelineInv, Typed
    <2>2. Cardinality(Holding) \in Nat /\ slots + others + Cardinality(Holding) = ChildSlots
        BY <1>1, FS_CardinalityType DEF PipelineInv, SlotsExact
    <2> QED  BY <2>1, <2>2
<1>2. PipelineInv => PipelineTypeOK
    BY <1>1 DEF PipelineInv, Typed, Researches, BranchStates, Stages, Ends, PipelineTypeOK
<1> QED  BY <1>2, PipelineInvariant, PTL

\* However a research ends, no branch and no category task outlives it and no permit of the
\* semaphore that all researches share is lost or given twice.
THEOREM NothingOutlivesResearch == PipelineSpec => []QuietAfterEnd
<1>1. PipelineInv => QuietAfterEnd
    BY OverMeans DEF PipelineInv, Quiet, SlotsExact, Holding, QuietAfterEnd
<1> QED  BY <1>1, PipelineInvariant, PTL

\* No phase permission refuses a step of the pipeline's own order, on any path.
THEOREM PhasesNeverRefuse == PipelineSpec => []PhasesAdmitThePipeline
<1>1. PipelineInv => PhasesAdmitThePipeline
    BY InlineToolNames
        DEF PipelineInv, PhaseAtStage, PhasesAdmitThePipeline, Allowed, PhaseTools
<1> QED  BY <1>1, PipelineInvariant, PTL

\* A result rests on the answers of all chosen marketplaces, with the calls that gave offers
\* closed in the timeline.
THEOREM ResultsRestOnEvidence == PipelineSpec => []ResultIsComplete
<1>1. ASSUME PipelineInv, research.end = "ok"
      PROVE  /\ Branches("hit") \cup Branches("miss") = research.sel /\ Found # {}
             /\ insight \in {"none", "done"} /\ open \subseteq Branches("miss")
    <2>1. SearchKnown /\ open \subseteq Missed /\ research.sel \subseteq Marketplaces
        BY <1>1 DEF PipelineInv, Evidence, Typed, Researches
    <2> QED  BY <2>1 DEF SearchKnown, Answered, Missed, Branches, Found
<1>2. PipelineInv => ResultIsComplete
    BY <1>1 DEF ResultIsComplete
<1> QED  BY <1>2, PipelineInvariant, PTL
=============================================================================
