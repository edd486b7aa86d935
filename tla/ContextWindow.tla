---------------------------- MODULE ContextWindow ----------------------------
(***************************************************************************)
(* The bounded window the model is shown (src/app/compress/compressor.py): *)
(* a rendered summary of the task and the newest messages, cut so that the *)
(* estimate of their tokens stays within a limit.  A message is a record   *)
(* with role, chars (its length) and cut (it was shortened); no message of *)
(* a task is a tool's, so the breakpoint of tool results does nothing.     *)
(***************************************************************************)
EXTENDS Integers, Sequences
LOCAL INSTANCE SequencesExt

CONSTANTS
    MaxTokens,      \* COMPRESS_MAX_TOKENS
    KeepRecent      \* COMPRESS_KEEP_RECENT

ASSUME WindowAssumption == MaxTokens \in Nat /\ MaxTokens >= 32 /\ KeepRecent \in Nat \ {0}

TokenChars == 4
MarkerChars == 28       \* "...[content:<12 digits>]..."
LongestPlain == 24      \* up to this length a text is cut without a marker

AtLeast(n, low) == IF n < low THEN low ELSE n
AtMost(n, high) == IF n > high THEN high ELSE n
Newest(s, n) == SubSeq(s, AtLeast(Len(s) - n, 0) + 1, Len(s))

\* estimate_text_tokens, of a text and of the names of the roles.
Tokens(chars) == (chars + TokenChars - 1) \div TokenChars
RoleTokens(role) == CASE role = "assistant" -> 3 [] role = "system" -> 2 [] OTHER -> 1

Cost(m) == RoleTokens(m.role) + Tokens(m.chars) + 1
Estimate(messages) == FoldSeq(LAMBDA m, sum : sum + Cost(m), 0, messages)
SummaryMessage(chars) == [role |-> "system", chars |-> chars, cut |-> FALSE]

\* _fit_text: between both ends of the text stands a marker, which alone may be too long.
Fit(chars, limit) ==
    CASE chars <= limit                            -> chars
      [] chars > limit /\ limit <= LongestPlain    -> limit
      [] OTHER -> MarkerChars + 2 * AtLeast((limit - MarkerChars) \div 2, 1)

\* A summary that may fill the window.
SummaryRoomUnreserved(recent) == MaxTokens - RoleTokens("system") - 1

\* What the summary may take: what the newest message, whole, leaves of the window.
SummaryRoom(recent) ==
    LET reserved == IF recent = <<>> THEN 0 ELSE Cost(recent[Len(recent)])
    IN  AtLeast(MaxTokens - AtMost(reserved, MaxTokens - 1) - RoleTokens("system") - 1, 1)

\* The newest message alone, shortened to what is left.
Shortened(m, room) ==
    LET content == room - RoleTokens(m.role) - 1
        short == [role |-> m.role, chars |-> Fit(m.chars, content * TokenChars), cut |-> TRUE]
    IN  IF content >= 1 /\ Cost(short) <= room THEN <<short>> ELSE <<>>

\* _fit_model_window: the newest messages that fit beside the summary.
Window(recent, summary) ==
    LET fitted == Fit(summary, SummaryRoom(recent) * TokenChars)
        room == AtLeast(MaxTokens - Cost(SummaryMessage(fitted)), 0)
        fits(n) == Estimate(Newest(recent, n)) <= room
        most == CHOOSE n \in 0 .. Len(recent) :
                    fits(n) /\ \A k \in n + 1 .. Len(recent) : ~fits(k)
    IN  [summary |-> fitted,
         messages |-> IF most = 0 /\ recent # <<>>
                      THEN Shortened(recent[Len(recent)], room) ELSE Newest(recent, most)]

\* compress_model_context: all of it if it is short and fits.
Compressed(messages, summary) ==
    IF /\ Len(messages) <= KeepRecent
       /\ Cost(SummaryMessage(summary)) + Estimate(messages) <= MaxTokens
    THEN [status |-> "not_needed", summary |-> summary, messages |-> messages]
    ELSE LET w == Window(Newest(messages, KeepRecent), summary)
         IN  [status |-> "applied", summary |-> w.summary, messages |-> w.messages]

\* safe_bounded_context, when the compression itself failed.
SafelyBounded(messages, summary) ==
    LET w == Window(Newest(messages, KeepRecent), summary)
    IN  [status |-> "degraded", summary |-> w.summary, messages |-> w.messages]
=============================================================================
