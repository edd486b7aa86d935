---------------------------- MODULE Clarification ----------------------------
(***************************************************************************)
(* Blocking questions: what a query leaves open (src/app/tools/            *)
(* clarification.py), the answers the shopper gives (clarify in            *)
(* src/app/api/server.py), the plan the next run makes of both             *)
(* (src/app/agent/main_agent.py, src/app/tools/planner.py) and the window  *)
(* the model is shown of the conversation.  Locks, crashes and the gate    *)
(* are TaskLifecycle's business.                                           *)
(*                                                                         *)
(* Of a query only what the patterns look for counts.  A response is one   *)
(* of the texts below; any may arrive at any time, a repeated or a late    *)
(* one too.                                                                *)
(***************************************************************************)
EXTENDS ContextWindow

CONSTANTS
    Queries,        \* [exact, compares, named, place, chars]: see PlansExact and below
    TextChars,      \* the length of each text
    QuestionChars,  \* the length of the question about each field
    SummarySizes    \* the lengths a rendered summary may have

VARIABLES
    query,          \* the query of the task
    progress,       \* "planning", "awaiting", "planned", "advised" or "unsupported"
    pending_field,  \* the field asked for, or "none"
    timeline,       \* the clarification events: [kind, field, text]
    clarified,      \* clarification_answers: clarified[f], or "none"
    window          \* the model's context of this run

clarificationVars == <<query, progress, pending_field, timeline, clarified, window>>

Fields == {"mode", "product_variant", "destination"}

\* "same": a phrase that names no product ("the same one"); "compare_same": a longer one that
\* no list of the program holds; "model": the name of a product; "home": a mainland city.
Texts == {"same", "compare_same", "different", "model", "home", "vague"}

ASSUME ClarificationAssumption ==
    /\ TextChars \in [Texts -> Nat] /\ QuestionChars \in [Fields -> Nat]
    /\ SummarySizes \subseteq Nat /\ \A q \in Queries : q.chars \in Nat

NoWindow == [status |-> "none", summary |-> 0, messages |-> <<>>]

-----------------------------------------------------------------------------
\* normalize_clarification_response: the value a text has for a field.
Normalized(field, text) ==
    CASE field = "mode" /\ text \in {"same", "compare_same"}  -> "exact_offer_comparison"
      [] field = "mode" /\ text = "different"                 -> "product_research"
      [] field = "destination" /\ text = "home"               -> "mainland"
      [] field = "product_variant" /\ text \in {"compare_same", "model", "home"} -> text
      [] OTHER                                                -> "invalid"

Answered(f) == clarified[f] # "none"

\* The planner reads the query with the answers appended: an exact comparison if either asks
\* for one, and the mainland once a destination was answered.
PlansExact == query.exact \/ clarified["mode"] = "exact_offer_comparison"
PlansMainland == query.place = "mainland" \/ Answered("destination")

\* What the patterns, which read the query alone, leave open under the plan.
LeavesOpen(f) ==
    CASE f = "mode"            -> query.compares /\ ~PlansExact
      [] f = "product_variant" -> PlansExact /\ ~query.named
      [] f = "destination"     -> query.place = "unclear"

OpenThoughAnswered == {f \in Fields : LeavesOpen(f)}
OpenFields == {f \in Fields : LeavesOpen(f) /\ ~Answered(f)}

\* detect_blocking_ambiguity: one question at a time.
Ambiguity ==
    IF "mode" \in OpenFields THEN "mode"
    ELSE IF "product_variant" \in OpenFields THEN "product_variant"
    ELSE IF "destination" \in OpenFields THEN "destination" ELSE "none"

Resolutions(field) == {timeline[i].text : i \in {j \in DOMAIN timeline :
                        timeline[j].kind = "resolved" /\ timeline[j].field = field}}

-----------------------------------------------------------------------------
(* Steps *)

PlanTask ==
    /\ progress = "planning"
    /\ CASE Ambiguity # "none" ->
                /\ progress' = "awaiting" /\ pending_field' = Ambiguity
                /\ timeline' = Append(timeline, [kind |-> "asked", field |-> Ambiguity,
                                                 text |-> "question"])
         [] Ambiguity = "none" /\ PlansMainland ->
                progress' = "planned" /\ UNCHANGED <<pending_field, timeline>>
         [] OTHER -> progress' = "unsupported" /\ UNCHANGED <<pending_field, timeline>>
    /\ UNCHANGED <<query, clarified, window>>

\* A response that is a duplicate of the field's answer, invalid, or comes while nothing is
\* asked changes nothing.
Respond(text) ==
    /\ progress = "awaiting"
    /\ \A old \in Resolutions(pending_field) :
            Normalized(pending_field, text) # Normalized(pending_field, old)
    /\ Normalized(pending_field, text) # "invalid"
    /\ timeline' = Append(timeline, [kind |-> "resolved", field |-> pending_field,
                                     text |-> text])
    /\ clarified' = [clarified EXCEPT ![pending_field] = Normalized(pending_field, text)]
    /\ progress' = "planning" /\ pending_field' = "none"
    /\ UNCHANGED <<query, window>>

\* build_context_messages: the query, then questions and answers as they were recorded.
Conversation ==
    <<[role |-> "user", chars |-> query.chars, cut |-> FALSE]>> \o
    [i \in DOMAIN timeline |->
        IF timeline[i].kind = "asked"
        THEN [role |-> "assistant", chars |-> QuestionChars[timeline[i].field], cut |-> FALSE]
        ELSE [role |-> "user", chars |-> TextChars[timeline[i].text], cut |-> FALSE]]

\* With a model: the window is built, or what fails is replaced by a bounded one.
BuildContext ==
    /\ progress = "planned" /\ progress' = "advised"
    /\ \E summary \in SummarySizes :
        \/ window' = Compressed(Conversation, summary)
        \/ window' = SafelyBounded(Conversation, summary)
    /\ UNCHANGED <<query, pending_field, timeline, clarified>>

ClarificationInit ==
    /\ query \in Queries
    /\ progress = "planning" /\ pending_field = "none" /\ timeline = <<>>
    /\ clarified = [f \in Fields |-> "none"] /\ window = NoWindow

ClarificationNext == PlanTask \/ (\E text \in Texts : Respond(text)) \/ BuildContext

ClarificationSpec == ClarificationInit /\ [][ClarificationNext]_clarificationVars

-----------------------------------------------------------------------------
(* Properties *)

ClarificationTypeOK ==
    /\ query \in Queries
    /\ progress \in {"planning", "awaiting", "planned", "advised", "unsupported"}
    /\ pending_field \in Fields \cup {"none"}
    /\ \A i \in DOMAIN timeline : timeline[i].field \in Fields
    /\ window.status \in {"none", "not_needed", "applied", "degraded"}

\* No question is put twice, whatever earlier answers make the planner read into the query,
\* and no research starts on an exact comparison without a product, nor for a place that is
\* not the mainland (detect_blocking_ambiguity before every run of the task).
QuestionsSettle ==
    /\ \A i, j \in DOMAIN timeline :
            /\ timeline[i].kind = "asked" /\ timeline[j].kind = "asked"
            /\ timeline[i].field = timeline[j].field
            => i = j
    /\ progress \in {"planned", "advised"} =>
            /\ PlansExact => query.named \/ Answered("product_variant")
            /\ PlansMainland

\* The window never exceeds its limit, always ends with the newest message, is an unbroken
\* end of the conversation, cuts no message but one that stands alone, and only calls itself
\* unneeded when it left out and shortened nothing (_fit_model_window with
\* compress_model_context: the roundings, the marker of a cut text and the reserve must agree).
WindowKeeps ==
    window.status # "none" =>
        LET kept == window.messages
            whole == Newest(Conversation, Len(kept))
        IN  /\ Cost(SummaryMessage(window.summary)) + Estimate(kept) <= MaxTokens
            /\ kept # <<>> /\ Len(kept) <= Len(Conversation)
            /\ \/ kept = whole
               \/ Len(kept) = 1 /\ kept[1].cut /\ kept[1].chars <= whole[1].chars
            /\ window.status = "not_needed" => kept = Conversation
=============================================================================
