-------------------------- MODULE ConversationProofs --------------------------
(***************************************************************************)
(* Theorems about the questions put to the shopper and the window of the   *)
(* conversation that the model is shown (Clarification, ContextWindow),    *)
(* for any queries, any lengths of texts and any limits of the window.     *)
(***************************************************************************)
EXTENDS Clarification, TLAPS
LOCAL INSTANCE SequencesExt
LOCAL INSTANCE WellFoundedInduction
LOCAL INSTANCE FiniteSetTheorems

-----------------------------------------------------------------------------
(* Questions *)

\* What a question or an answer says.
Said == Texts \cup {"question"}

\* What an answer is understood as.
Values == Texts \cup {"exact_offer_comparison", "product_research", "mainland", "invalid"}

\* The questions and resolutions of a timeline.
Questions == [kind : {"asked", "resolved"}, field : Fields, text : Said]

\* A question that was put has been answered, or the task waits for its answer: with it

\* QuestionsSettle is inductive, since only an open field is asked about.
QuestionsInv ==
    /\ query \in Queries
    /\ timeline \in Seq(Questions)
    /\ clarified \in [Fields -> Values \cup {"none"}]
    /\ progress = "awaiting" => pending_field \in Fields
    /\ \A i \in DOMAIN timeline : timeline[i].kind = "asked" =>
          \/ Answered(timeline[i].field)
          \/ progress = "awaiting" /\ pending_field = timeline[i].field
    /\ QuestionsSettle

\* Every text is understood as something.
LEMMA NormalizedIsValue ==
    ASSUME NEW f \in Fields, NEW t \in Texts
    PROVE  Normalized(f, t) \in Values
BY DEF Normalized, Fields, Texts, Values

\* What is asked about is open, and nothing is asked only when nothing is.
LEMMA AmbiguityOpen ==
    /\ Ambiguity \in Fields \cup {"none"}
    /\ Ambiguity # "none" => ~Answered(Ambiguity)
    /\ Ambiguity = "none" => OpenFields = {}
<1>1. OpenFields \subseteq Fields /\ \A f \in OpenFields : ~Answered(f)
  BY DEF OpenFields
<1> QED  BY <1>1 DEF Ambiguity, Fields

\* A question opens a field and an answer settles it, with whatever the planner reads into it.
LEMMA QuestionsInvariant == ClarificationSpec => []QuestionsInv
<1>1. ClarificationInit => QuestionsInv
  BY DEF ClarificationInit, QuestionsInv, QuestionsSettle, Fields, Values
<1>2. QuestionsInv /\ [ClarificationNext]_clarificationVars => QuestionsInv'
  <2> SUFFICES ASSUME QuestionsInv, [ClarificationNext]_clarificationVars
               PROVE  QuestionsInv'
    OBVIOUS
  <2>1. CASE PlanTask
    <3>1. UNCHANGED <<query, clarified>> /\ progress = "planning"
      BY <2>1 DEF PlanTask
    <3>2. CASE /\ Ambiguity # "none" /\ progress' = "awaiting" /\ pending_field' = Ambiguity
               /\ timeline' = Append(timeline, [kind |-> "asked", field |-> Ambiguity,
                                                text |-> "question"])
      <4>1. Ambiguity \in Fields /\ ~Answered(Ambiguity)
        BY <3>2, AmbiguityOpen
      <4> DEFINE e == [kind |-> "asked", field |-> Ambiguity, text |-> "question"]
      <4>2. e \in Questions
        BY <4>1 DEF Questions, Said
      <4>3. e.kind = "asked" /\ e.field = Ambiguity
        OBVIOUS
      <4>4. timeline' = Append(timeline, e)
        BY <3>2
      <4> HIDE DEF e
      <4>5. /\ DOMAIN timeline' = DOMAIN timeline \cup {Len(timeline) + 1}
            /\ \A i \in DOMAIN timeline : timeline'[i] = timeline[i]
            /\ timeline'[Len(timeline) + 1] = e
        BY <4>2, <4>4 DEF QuestionsInv
      <4>7. \A i \in DOMAIN timeline : timeline[i].kind = "asked" => Answered(timeline[i].field)
        BY <3>1 DEF QuestionsInv
      <4>8. QuestionsSettle'
        BY <3>1, <3>2, <4>1, <4>3, <4>5, <4>7 DEF QuestionsInv, QuestionsSettle
      <4>9. timeline' \in Seq(Questions)
        BY <4>2, <4>4 DEF QuestionsInv
      <4>10. \A i \in DOMAIN timeline' : timeline'[i].kind = "asked" =>
                clarified'[timeline'[i].field] # "none" \/ pending_field' = timeline'[i].field
        BY <3>1, <3>2, <4>3, <4>5, <4>7 DEF Answered
      <4> QED  BY <3>1, <3>2, <4>1, <4>8, <4>9, <4>10 DEF QuestionsInv, Answered
    <3>3. CASE Ambiguity = "none" /\ UNCHANGED <<pending_field, timeline>>
               /\ \/ progress' = "planned" /\ PlansMainland
                  \/ progress' = "unsupported"
      <4>1. "product_variant" \notin OpenFields
        BY <3>3, AmbiguityOpen
      <4>2. PlansExact => query.named \/ Answered("product_variant")
        BY <4>1 DEF OpenFields, LeavesOpen, Fields
      <4>3. QuestionsSettle'
        BY <3>1, <3>3, <4>2 DEF QuestionsInv, QuestionsSettle, PlansExact, PlansMainland, Answered
      <4> QED  BY <3>1, <3>3, <4>3 DEF QuestionsInv, Answered
    <3> QED  BY <2>1, <3>2, <3>3 DEF PlanTask
  <2>2. ASSUME NEW text \in Texts, Respond(text)
        PROVE  QuestionsInv'
    <3>1. /\ progress = "awaiting" /\ progress' = "planning" /\ UNCHANGED query
          /\ pending_field \in Fields
      BY <2>2 DEF Respond, QuestionsInv
    <3> DEFINE f == pending_field
               e == [kind |-> "resolved", field |-> f, text |-> text]
    <3>2. e \in Questions
      BY <3>1 DEF Questions, Said
    <3>3. e.kind = "resolved" /\ timeline' = Append(timeline, e)
      BY <2>2 DEF Respond
    <3> HIDE DEF e
    <3>4. /\ DOMAIN timeline' = DOMAIN timeline \cup {Len(timeline) + 1}
          /\ \A i \in DOMAIN timeline : timeline'[i] = timeline[i]
          /\ timeline'[Len(timeline) + 1] = e
          /\ timeline' \in Seq(Questions)
      BY <3>2, <3>3 DEF QuestionsInv
    <3>5. Normalized(f, text) \in Values /\ "none" \notin Values
      BY <3>1, NormalizedIsValue DEF Values, Texts
    <3>6. clarified' = [clarified EXCEPT ![f] = Normalized(f, text)]
      BY <2>2 DEF Respond
    <3>7. clarified' \in [Fields -> Values \cup {"none"}] /\ clarified'[f] # "none"
          /\ \A g \in Fields : clarified[g] # "none" => clarified'[g] # "none"
      BY <3>1, <3>5, <3>6 DEF QuestionsInv
    <3> HIDE DEF f
    <3>8. \A i \in DOMAIN timeline : timeline[i].field \in Fields
      <4>1. \A i \in DOMAIN timeline : timeline[i] \in Questions
        BY DEF QuestionsInv
      <4> QED  BY <4>1 DEF Questions
    <3>9. \A i \in DOMAIN timeline' : timeline'[i].kind = "asked" =>
              clarified'[timeline'[i].field] # "none"
      BY <3>3, <3>4, <3>7, <3>8 DEF QuestionsInv, Answered, f
    <3>10. QuestionsSettle'
      BY <3>1, <3>3, <3>4 DEF QuestionsInv, QuestionsSettle
    <3> QED  BY <3>1, <3>4, <3>7, <3>9, <3>10 DEF QuestionsInv, Answered
  <2>3. CASE BuildContext
    BY <2>3 DEF BuildContext, QuestionsInv, QuestionsSettle, PlansExact, PlansMainland, Answered
  <2>4. CASE UNCHANGED clarificationVars
    BY <2>4 DEF clarificationVars, QuestionsInv, QuestionsSettle, PlansExact, PlansMainland,
                Answered
  <2> QED  BY <2>1, <2>2, <2>3, <2>4 DEF ClarificationNext
<1> QED  BY <1>1, <1>2, PTL DEF ClarificationSpec

\* No question is put to the shopper twice, and no research starts on an exact comparison
\* without a product or for a place that is not served (detect_blocking_ambiguity).
THEOREM QuestionsAlwaysSettle == ClarificationSpec => []QuestionsSettle
<1>1. QuestionsInv => QuestionsSettle
  BY DEF QuestionsInv
<1> QED  BY <1>1, QuestionsInvariant, PTL

\* What the invariant leaves open of the shape of a state.
PhasesTyped ==
    /\ progress \in {"planning", "awaiting", "planned", "advised", "unsupported"}
    /\ pending_field \in Fields \cup {"none"}
    /\ window.status \in {"none", "not_needed", "applied", "degraded"}

\* The states of a clarification have their shape in every step.
THEOREM ClarificationTyped == ClarificationSpec => []ClarificationTypeOK
<1>1. ClarificationInit => PhasesTyped
  BY DEF ClarificationInit, PhasesTyped, NoWindow
<1>2. PhasesTyped /\ [ClarificationNext]_clarificationVars => PhasesTyped'
  <2> SUFFICES ASSUME PhasesTyped, [ClarificationNext]_clarificationVars
               PROVE  PhasesTyped'
    OBVIOUS
  <2>1. CASE PlanTask
    <3>1. Ambiguity \in Fields \cup {"none"}
      BY AmbiguityOpen
    <3> QED  BY <2>1, <3>1 DEF PlanTask, PhasesTyped
  <2>2. ASSUME NEW text \in Texts, Respond(text)
        PROVE  PhasesTyped'
    BY <2>2 DEF Respond, PhasesTyped
  <2>3. CASE BuildContext
    BY <2>3 DEF BuildContext, Compressed, SafelyBounded, PhasesTyped
  <2>4. CASE UNCHANGED clarificationVars
    BY <2>4 DEF clarificationVars, PhasesTyped
  <2> QED  BY <2>1, <2>2, <2>3, <2>4 DEF ClarificationNext
<1>3. QuestionsInv /\ PhasesTyped => ClarificationTypeOK
  <2> SUFFICES ASSUME QuestionsInv, PhasesTyped, NEW i \in DOMAIN timeline
               PROVE  timeline[i].field \in Fields
    BY DEF ClarificationTypeOK, QuestionsInv, PhasesTyped
  <2>1. timeline[i] \in Questions
    BY DEF QuestionsInv
  <2> QED  BY <2>1 DEF Questions
<1> QED  BY <1>1, <1>2, <1>3, QuestionsInvariant, PTL DEF ClarificationSpec

-----------------------------------------------------------------------------
(* Estimates *)

\* A nonempty set of naturals has a least element.
LEMMA LeastNatural == ASSUME NEW T \in SUBSET Nat, T # {}
                      PROVE  \E n \in T : \A m \in T : n <= m
<1> DEFINE R == OpToRel(<, Nat)
<1>1. \A x, y \in Nat : x < y => <<x, y>> \in R
  BY DEF OpToRel
<1>2. IsWellFoundedOn(R, Nat)
  BY NatLessThanWellFounded
<1> HIDE DEF R
<1>3. PICK x \in T : \A y \in T : ~ (<<y, x>> \in R)
  BY <1>2, WFMin
<1>4. ASSUME NEW y \in T PROVE x <= y
  <2>1. x \in Nat /\ y \in Nat
    OBVIOUS
  <2>2. ~(y < x)
    BY <1>1, <1>3, <2>1, Zenon
  <2> QED  BY <2>1, <2>2
<1> QED  BY <1>3, <1>4

\* A set of positions without the one the fold of the community modules takes next, and what the

\* fold makes of it.
Removed(s) == s \ {CHOOSE j \in s : TRUE}
FoldOf(q, iter, s) ==
    IF s = {} THEN 0 ELSE iter[Removed(s)] + Cost(q[CHOOSE j \in s : TRUE])

\* The function that FoldSeq chooses for the sum of the costs of q.
Folding(q, S, iter) == iter = [s \in SUBSET S |-> FoldOf(q, iter, s)]

\* An estimate is the value of that function at all positions.
LEMMA EstimateFolds ==
    ASSUME NEW q
    PROVE  Estimate(q) = (CHOOSE iter : Folding(q, DOMAIN q, iter))[DOMAIN q]
BY DEF Estimate, FoldSeq, FoldFunction, FoldFunctionOnSet, MapThenFoldSet, Folding, FoldOf, Removed

\* The fold removes one position at a time.
LEMMA RemovedIsSmaller ==
    ASSUME NEW s, IsFiniteSet(s), s # {}
    PROVE  /\ Removed(s) \subseteq s /\ (CHOOSE j \in s : TRUE) \in s
           /\ Cardinality(s) \in Nat \ {0} /\ Cardinality(Removed(s)) = Cardinality(s) - 1
<1> DEFINE x == CHOOSE j \in s : TRUE
<1>1. x \in s
  OBVIOUS
<1> HIDE DEF x
<1>2. Cardinality(s \ {x}) = Cardinality(s) - 1
  BY <1>1, FS_RemoveElement
<1>3. Cardinality(s) \in Nat \ {0}
  BY FS_CardinalityType, FS_EmptySet
<1> QED  BY <1>1, <1>2, <1>3 DEF x, Removed

\* There is such a function for every finite sequence: the least cardinality without one would

\* have one. This is the induction over the sequence, carried out once.
LEMMA FoldExists ==
    ASSUME NEW q, NEW D, IsFiniteSet(D), \A i \in D : Cost(q[i]) \in Int
    PROVE  \E iter : Folding(q, D, iter)
<1> DEFINE Small(n) == {s \in SUBSET D : Cardinality(s) <= n}
           Good(n, f) == \A s \in Small(n) : f[s] = FoldOf(q, f, s)
           Bad == {n \in Nat : ~ \E f : Good(n, f)}
<1>0. \A s \in SUBSET D : IsFiniteSet(s) /\ Cardinality(s) \in Nat
  BY FS_Subset, FS_CardinalityType
<1>1. Bad = {}
  <2> SUFFICES ASSUME Bad # {} PROVE FALSE
    OBVIOUS
  <2>1. PICK n \in Bad : \A m \in Bad : n <= m
    <3>1. Bad \in SUBSET Nat
      OBVIOUS
    <3> HIDE DEF Bad
    <3> QED  BY <3>1, LeastNatural
  <2>2. n \in Nat /\ ~ \E f : Good(n, f)
    OBVIOUS
  <2>3. CASE n = 0
    <3>1. \A s \in Small(0) : s = {}
      BY <1>0, FS_EmptySet
    <3>2. Good(0, [s \in SUBSET D |-> 0])
      BY <3>1 DEF FoldOf
    <3> QED  BY <2>2, <2>3, <3>2
  <2>4. CASE n # 0
    <3>1. n - 1 \in Nat /\ n - 1 \notin Bad
      BY <2>1, <2>2, <2>4
    <3>2. PICK f : Good(n - 1, f)
      BY <3>1
    <3> DEFINE g == [s \in SUBSET D |-> IF Cardinality(s) <= n - 1 THEN f[s] ELSE FoldOf(q, f, s)]
    <3>3. ASSUME NEW s \in Small(n)
          PROVE  g[s] = FoldOf(q, g, s)
      <4>1. s # {} => Removed(s) \in SUBSET D /\ Cardinality(Removed(s)) <= n - 1
        BY <1>0, <2>2, RemovedIsSmaller
      <4>2. FoldOf(q, g, s) = FoldOf(q, f, s)
        BY <4>1 DEF FoldOf
      <4>3. Cardinality(s) <= n - 1 => f[s] = FoldOf(q, f, s)
        BY <3>2
      <4> QED  BY <4>2, <4>3
    <3> HIDE DEF g
    <3> QED  BY <2>2, <3>3
  <2> QED  BY <2>3, <2>4
<1>2. PICK f : Good(Cardinality(D), f)
  <2>1. Cardinality(D) \in Nat
    BY FS_CardinalityType
  <2> QED  BY <1>1, <2>1
<1>3. \A s \in SUBSET D : s \in Small(Cardinality(D))
  BY <1>0, FS_Subset
<1> DEFINE h == [s \in SUBSET D |-> f[s]]
<1>4. \A s \in SUBSET D : h[s] = FoldOf(q, h, s)
  <2> SUFFICES ASSUME NEW s \in SUBSET D PROVE h[s] = FoldOf(q, h, s)
    OBVIOUS
  <2>1. s # {} => Removed(s) \in SUBSET D
    BY <1>0, RemovedIsSmaller
  <2>2. f[s] = FoldOf(q, f, s)
    BY <1>2, <1>3
  <2> QED  BY <2>1, <2>2 DEF FoldOf
<1>5. h = [s \in SUBSET D |-> h[s]]
  OBVIOUS
<1> HIDE DEF h
<1>6. Folding(q, D, h)
  BY <1>4, <1>5 DEF Folding
<1> QED  BY <1>6

\* Its values are integers, by the same argument.
LEMMA FoldTyped ==
    ASSUME NEW q, NEW D, IsFiniteSet(D), \A i \in D : Cost(q[i]) \in Int,
           NEW f, Folding(q, D, f)
    PROVE  \A s \in SUBSET D : f[s] \in Int
<1> DEFINE Bad == {n \in Nat : \E s \in SUBSET D : Cardinality(s) = n /\ f[s] \notin Int}
<1>0. \A s \in SUBSET D : IsFiniteSet(s) /\ Cardinality(s) \in Nat
  BY FS_Subset, FS_CardinalityType
<1>1. Bad = {}
  <2> SUFFICES ASSUME Bad # {} PROVE FALSE
    OBVIOUS
  <2>1. PICK n \in Bad : \A m \in Bad : n <= m
    <3>1. Bad \in SUBSET Nat
      OBVIOUS
    <3> HIDE DEF Bad
    <3> QED  BY <3>1, LeastNatural
  <2>2. PICK s \in SUBSET D : Cardinality(s) = n /\ f[s] \notin Int
    OBVIOUS
  <2>3. f[s] = FoldOf(q, f, s)
    BY DEF Folding
  <2>4. s # {}
    BY <2>2, <2>3 DEF FoldOf
  <2>5. /\ Removed(s) \in SUBSET D /\ (CHOOSE j \in s : TRUE) \in D
        /\ n \in Nat \ {0} /\ Cardinality(Removed(s)) = n - 1
    BY <1>0, <2>2, <2>4, RemovedIsSmaller
  <2>6. f[Removed(s)] \in Int
    BY <2>1, <2>5
  <2> HIDE DEF Bad
  <2> QED  BY <2>2, <2>3, <2>4, <2>5, <2>6 DEF FoldOf
<1> QED  BY <1>0, <1>1

\* An estimate of messages with integer costs is an integer.
LEMMA EstimateTyped ==
    ASSUME NEW q, IsFiniteSet(DOMAIN q), \A i \in DOMAIN q : Cost(q[i]) \in Int
    PROVE  Estimate(q) \in Int
<1> DEFINE f == CHOOSE iter : Folding(q, DOMAIN q, iter)
<1>1. Folding(q, DOMAIN q, f)
  BY FoldExists
<1> HIDE DEF f
<1>2. f[DOMAIN q] \in Int
  BY <1>1, FoldTyped
<1> QED  BY <1>2, EstimateFolds DEF f

\* No message costs nothing.
LEMMA EstimateOfNone == Estimate(<<>>) = 0
<1> DEFINE f == CHOOSE iter : Folding(<<>>, {}, iter)
<1>1. Folding(<<>>, {}, f)
  BY FoldExists, FS_EmptySet
<1> HIDE DEF f
<1>2. f[{}] = 0
  BY <1>1 DEF Folding, FoldOf
<1>3. DOMAIN <<>> = {}
  OBVIOUS
<1> QED  BY <1>2, <1>3, EstimateFolds DEF f

\* One message costs what it costs.
LEMMA EstimateOfOne == ASSUME NEW m, Cost(m) \in Int PROVE Estimate(<<m>>) = Cost(m)
<1> DEFINE q == <<m>>
           f == CHOOSE iter : Folding(q, {1}, iter)
<1>0. q[1] = m /\ DOMAIN q = {1}
  OBVIOUS
<1> HIDE DEF q
<1>1. Folding(q, {1}, f)
  BY <1>0, FoldExists, FS_Singleton
<1> HIDE DEF f
<1>2. f[{}] = 0
  BY <1>1 DEF Folding, FoldOf
<1>3. Removed({1}) = {} /\ (CHOOSE j \in {1} : TRUE) = 1
  BY DEF Removed
<1>4. f[{1}] = f[Removed({1})] + Cost(q[CHOOSE j \in {1} : TRUE])
  BY <1>1 DEF Folding, FoldOf
<1>5. f[{1}] = Cost(m)
  BY <1>0, <1>2, <1>3, <1>4
<1> QED  BY <1>0, <1>5, EstimateFolds DEF f, q

\* The messages a task's conversation is made of.
Messages == [role : {"user", "assistant"}, chars : Nat, cut : {FALSE}]

\* A message costs its role, its text and one token more.
LEMMA CostOfMessage ==
    ASSUME NEW role, NEW chars \in Nat, NEW cut
    PROVE  /\ Cost([role |-> role, chars |-> chars, cut |-> cut]) =
                  RoleTokens(role) + Tokens(chars) + 1
           /\ Tokens(chars) \in Nat /\ RoleTokens(role) \in 1 .. 3
BY DEF Cost, Tokens, RoleTokens, TokenChars

\* A message costs at least one token.
LEMMA CostTyped == ASSUME NEW m \in Messages PROVE Cost(m) \in Nat /\ Cost(m) >= 1
<1>1. m.chars \in Nat /\ m = [role |-> m.role, chars |-> m.chars, cut |-> m.cut]
  BY DEF Messages
<1> QED  BY <1>1, CostOfMessage

\* A text that is cut fits the tokens it is cut to, the marker included, but for the one length

\* at which the marker is rounded up.
LEMMA FitTokens ==
    ASSUME NEW chars \in Nat, NEW n \in Nat \ {0}
    PROVE  LET t == Fit(chars, n * TokenChars)
           IN  /\ t \in Nat /\ Tokens(t) \in Nat
               /\ Tokens(t) <= n \/ (n = 7 /\ Tokens(t) = 8)
               /\ n > 7 /\ Tokens(chars) > n => t <= chars
BY DEF Fit, Tokens, TokenChars, MarkerChars, LongestPlain, AtLeast

\* The newest n messages: an end of the list, no longer than n.
LEMMA NewestFacts ==
    ASSUME NEW S, NEW s \in Seq(S), NEW n \in Nat
    PROVE  /\ Newest(s, n) \in Seq(S)
           /\ n <= Len(s) => Len(Newest(s, n)) = n
           /\ n > Len(s) => Newest(s, n) = s
           /\ Len(Newest(s, n)) = AtMost(n, Len(s))
           /\ \A i \in 1 .. Len(Newest(s, n)) :
                  Newest(s, n)[i] = s[AtLeast(Len(s) - n, 0) + i]
BY DEF Newest, AtLeast, AtMost

\* What is left out and what is kept make up the whole.
LEMMA SplitAt ==
    ASSUME NEW a \in Nat, NEW n \in Nat
    PROVE  AtLeast(a - n, 0) + AtMost(n, a) = a
BY DEF AtLeast, AtMost

\* The newest of the newest are the newest.
LEMMA NewestOfNewest ==
    ASSUME NEW S, NEW s \in Seq(S), NEW n \in Nat, NEW k \in Nat, k <= Len(Newest(s, n))
    PROVE  Newest(Newest(s, n), k) = Newest(s, k)
<1> DEFINE t == Newest(s, n)
<1>1. t \in Seq(S)
  BY NewestFacts
<1>2. Len(t) = AtMost(n, Len(s))
  BY NewestFacts
<1>3. \A i \in 1 .. Len(t) : t[i] = s[AtLeast(Len(s) - n, 0) + i]
  BY NewestFacts
<1> HIDE DEF t
<1>4. Len(t) \in Nat /\ Len(s) \in Nat /\ k <= Len(t) /\ k <= Len(s)
  <2>1. k <= Len(t)
    BY DEF t
  <2>2. Len(t) \in Nat /\ Len(s) \in Nat
    BY <1>1
  <2> QED  BY <1>2, <2>1, <2>2 DEF AtMost
<1>5. AtLeast(Len(t) - k, 0) = Len(t) - k /\ AtLeast(Len(s) - k, 0) = Len(s) - k
  BY <1>4 DEF AtLeast
<1>6. Newest(t, k) = SubSeq(t, Len(t) - k + 1, Len(t))
  BY <1>5 DEF Newest
<1>7. Newest(s, k) = SubSeq(s, Len(s) - k + 1, Len(s))
  BY <1>5 DEF Newest
<1> DEFINE u == SubSeq(t, Len(t) - k + 1, Len(t))
           v == SubSeq(s, Len(s) - k + 1, Len(s))
<1>8. u \in Seq(S) /\ Len(u) = k /\ \A i \in 1 .. k : u[i] = t[Len(t) - k + i]
  BY <1>1, <1>4
<1>9. v \in Seq(S) /\ Len(v) = k /\ \A i \in 1 .. k : v[i] = s[Len(s) - k + i]
  BY <1>4
<1> HIDE DEF u, v
<1>10. \A i \in 1 .. k : u[i] = v[i]
  <2> SUFFICES ASSUME NEW i \in 1 .. k PROVE u[i] = v[i]
    OBVIOUS
  <2>1. Len(t) - k + i \in 1 .. Len(t)
    BY <1>4
  <2>2. t[Len(t) - k + i] = s[AtLeast(Len(s) - n, 0) + (Len(t) - k + i)]
    BY <1>3, <2>1
  <2>3. AtLeast(Len(s) - n, 0) + Len(t) = Len(s)
    BY <1>2, <1>4, SplitAt
  <2>4. AtLeast(Len(s) - n, 0) + (Len(t) - k + i) = Len(s) - k + i
    <3>1. AtLeast(Len(s) - n, 0) \in Int
      BY <1>4 DEF AtLeast
    <3> QED  BY <1>4, <2>3, <3>1
  <2> QED  BY <1>8, <1>9, <2>2, <2>4
<1>11. u = v
  BY <1>8, <1>9, <1>10
<1> QED  BY <1>6, <1>7, <1>11 DEF t, u, v

\* The newest message, and none.
LEMMA NewestOne ==
    ASSUME NEW S, NEW s \in Seq(S), s # <<>>
    PROVE  Newest(s, 0) = <<>> /\ Newest(s, 1) = <<s[Len(s)]>>
<1> DEFINE u == SubSeq(s, Len(s), Len(s))
           x == s[Len(s)]
<1>1. Len(s) \in Nat \ {0} /\ x \in S
  OBVIOUS
<1>2. /\ AtLeast(Len(s) - 0, 0) = Len(s)
      /\ AtLeast(Len(s) - 1, 0) = Len(s) - 1 /\ Len(s) - 1 + 1 = Len(s)
  BY <1>1 DEF AtLeast
<1>3. Newest(s, 0) = <<>>
  BY <1>1, <1>2 DEF Newest
<1>4. Newest(s, 1) = u
  BY <1>2 DEF Newest
<1>5. u \in Seq(S) /\ Len(u) = 1 /\ u[1] = x
  BY <1>1
<1> HIDE DEF u, x
<1>6. <<x>> \in Seq(S) /\ Len(<<x>>) = 1 /\ <<x>>[1] = x
  BY <1>1
<1>7. u = <<x>>
  BY <1>5, <1>6
<1> QED  BY <1>3, <1>4, <1>7 DEF x

\* Conversations have integer estimates.
LEMMA EstimateOfMessages ==
    ASSUME NEW s \in Seq(Messages)
    PROVE  Estimate(s) \in Int
<1>1. IsFiniteSet(DOMAIN s)
  BY FS_Interval
<1>2. \A i \in DOMAIN s : Cost(s[i]) \in Int
  BY CostTyped
<1> QED  BY <1>1, <1>2, EstimateTyped

\* What the summary and a message that stands alone leave of the window.
LEMMA RoomLeft ==
    ASSUME NEW recent \in Seq(Messages), recent # <<>>, NEW summary \in Nat
    PROVE  LET last == recent[Len(recent)]
               taken == Cost(SummaryMessage(Fit(summary, SummaryRoom(recent) * TokenChars)))
           IN  /\ taken \in Nat /\ taken <= MaxTokens
               /\ Cost(last) <= MaxTokens - taken \/ MaxTokens - taken >= 21
<1> DEFINE c == Cost(recent[Len(recent)])
           n == SummaryRoom(recent)
           t == Fit(summary, n * TokenChars)
<1>1. c \in Nat /\ c >= 1
  BY CostTyped
<1>2. n = AtLeast(MaxTokens - AtMost(c, MaxTokens - 1) - 2 - 1, 1)
  BY DEF SummaryRoom, RoleTokens
<1> HIDE DEF c
<1>3. n \in Nat \ {0}
  BY <1>1, <1>2, WindowAssumption DEF AtLeast, AtMost
<1> HIDE DEF n
<1>4. t \in Nat /\ Tokens(t) \in Nat /\ (Tokens(t) <= n \/ (n = 7 /\ Tokens(t) = 8))
  BY <1>3, FitTokens
<1> HIDE DEF t
<1>5. Cost(SummaryMessage(t)) = 2 + Tokens(t) + 1
  BY <1>4, CostOfMessage DEF SummaryMessage, RoleTokens
<1>6. /\ Cost(SummaryMessage(t)) \in Nat /\ Cost(SummaryMessage(t)) <= MaxTokens
      /\ c <= MaxTokens - Cost(SummaryMessage(t)) \/ MaxTokens - Cost(SummaryMessage(t)) >= 21
  BY <1>1, <1>2, <1>4, <1>5, WindowAssumption DEF AtLeast, AtMost
<1> QED  BY <1>6 DEF c, n, t

\* A message that is shortened fits the room, is marked as cut and is no longer than it was.
LEMMA ShortenedFits ==
    ASSUME NEW m \in Messages, NEW room \in Nat, room >= 21, Cost(m) > room
    PROVE  /\ Shortened(m, room) # <<>> /\ Len(Shortened(m, room)) = 1
           /\ Estimate(Shortened(m, room)) \in Int /\ Estimate(Shortened(m, room)) <= room
           /\ Shortened(m, room)[1].cut /\ Shortened(m, room)[1].chars <= m.chars
<1> DEFINE content == room - RoleTokens(m.role) - 1
           f == Fit(m.chars, content * TokenChars)
           short == [role |-> m.role, chars |-> f, cut |-> TRUE]
<1>1. m.chars \in Nat /\ m = [role |-> m.role, chars |-> m.chars, cut |-> m.cut]
  BY DEF Messages
<1>2. /\ Cost(m) = RoleTokens(m.role) + Tokens(m.chars) + 1
      /\ RoleTokens(m.role) \in 1 .. 3 /\ Tokens(m.chars) \in Nat
  BY <1>1, CostOfMessage
<1>3. content \in Nat /\ content > 7 /\ Tokens(m.chars) > content
  BY <1>2
<1>4. f \in Nat /\ Tokens(f) \in Nat /\ Tokens(f) <= content /\ f <= m.chars
  BY <1>1, <1>3, FitTokens
<1> HIDE DEF f
<1>6. Cost(short) = RoleTokens(m.role) + Tokens(f) + 1
  BY <1>4, CostOfMessage
<1>7. Cost(short) \in Int /\ Cost(short) <= room /\ content >= 1
  BY <1>2, <1>3, <1>4, <1>6
<1>8. Shortened(m, room) = <<short>>
  BY <1>7 DEF Shortened, f
<1>9. short.cut /\ short.chars = f
  OBVIOUS
<1> HIDE DEF short
<1>10. Estimate(<<short>>) = Cost(short)
  BY <1>7, EstimateOfOne
<1> QED  BY <1>4, <1>7, <1>8, <1>9, <1>10

\* A fitting number of messages, the largest.
LEMMA MostExists ==
    ASSUME NEW n \in Nat, NEW F \in SUBSET (0 .. n), 0 \in F
    PROVE  \E k \in 0 .. n : k \in F /\ \A j \in k + 1 .. n : j \notin F
<1> DEFINE T == {n - k : k \in F}
<1>1. T \in SUBSET Nat /\ T # {}
  OBVIOUS
<1>2. PICK x \in T : \A y \in T : x <= y
  BY <1>1, LeastNatural
<1>3. PICK k \in F : x = n - k
  OBVIOUS
<1>4. k \in 0 .. n /\ \A j \in F : j \in 0 .. n /\ n - k <= n - j
  BY <1>2, <1>3
<1>5. \A j \in F : j <= k
  BY <1>4
<1> QED  BY <1>4, <1>5

\* What _fit_model_window returns.
LEMMA WindowFits ==
    ASSUME NEW recent \in Seq(Messages), recent # <<>>, NEW summary \in Nat
    PROVE  LET w == Window(recent, summary)
           IN  /\ Cost(SummaryMessage(w.summary)) + Estimate(w.messages) <= MaxTokens
               /\ w.messages # <<>> /\ Len(w.messages) <= Len(recent) /\ Len(w.messages) \in Nat
               /\ \/ w.messages = Newest(recent, Len(w.messages))
                  \/ /\ Len(w.messages) = 1 /\ w.messages[1].cut
                     /\ w.messages[1].chars <= recent[Len(recent)].chars
<1> DEFINE fitted == Fit(summary, SummaryRoom(recent) * TokenChars)
           taken == Cost(SummaryMessage(fitted))
           room == AtLeast(MaxTokens - taken, 0)
           fits(n) == Estimate(Newest(recent, n)) <= room
           most == CHOOSE n \in 0 .. Len(recent) :
                       fits(n) /\ \A k \in n + 1 .. Len(recent) : ~fits(k)
           last == recent[Len(recent)]
           messages == IF most = 0 /\ recent # <<>> THEN Shortened(last, room)
                                                   ELSE Newest(recent, most)
<1>1. Window(recent, summary) = [summary |-> fitted, messages |-> messages]
  BY DEF Window
<1>2. /\ taken \in Nat /\ room \in Nat /\ taken + room = MaxTokens
      /\ Cost(last) <= room \/ room >= 21
  <2>1. taken \in Nat /\ taken <= MaxTokens
    BY RoomLeft
  <2>2. Cost(last) <= MaxTokens - taken \/ MaxTokens - taken >= 21
    BY RoomLeft
  <2> HIDE DEF taken, last
  <2> QED  BY <2>1, <2>2, WindowAssumption DEF AtLeast
<1>3. Len(recent) \in Nat \ {0} /\ last \in Messages
  OBVIOUS
<1> HIDE DEF room, last, taken, fitted
<1>4. Newest(recent, 0) = <<>>
  BY NewestOne
<1>5. fits(0)
  BY <1>2, <1>4, EstimateOfNone
<1>6. most \in 0 .. Len(recent) /\ fits(most) /\ \A k \in most + 1 .. Len(recent) : ~fits(k)
  <2> DEFINE F == {n \in 0 .. Len(recent) : fits(n)}
  <2>1. F \in SUBSET (0 .. Len(recent)) /\ 0 \in F
    BY <1>3, <1>5
  <2> HIDE DEF fits
  <2>2. \E k \in 0 .. Len(recent) : k \in F /\ \A j \in k + 1 .. Len(recent) : j \notin F
    <3> HIDE DEF F
    <3> QED  BY <1>3, <2>1, MostExists
  <2>3. \E k \in 0 .. Len(recent) : fits(k) /\ \A j \in k + 1 .. Len(recent) : ~fits(j)
    BY <1>3, <2>2
  <2> QED  BY <2>3
<1> HIDE DEF most
<1>7. /\ Estimate(messages) \in Int /\ Estimate(messages) <= room
      /\ messages # <<>> /\ Len(messages) <= Len(recent) /\ Len(messages) \in Nat
      /\ \/ messages = Newest(recent, Len(messages))
         \/ Len(messages) = 1 /\ messages[1].cut /\ messages[1].chars <= last.chars
  <2>1. CASE most = 0
    <3>1. messages = Shortened(last, room)
      BY <2>1
    <3>2. Newest(recent, 1) = <<last>>
      BY NewestOne DEF last
    <3>3. ~(Cost(last) <= room) /\ Cost(last) \in Nat
      BY <1>3, <1>6, <2>1, <3>2, CostTyped, EstimateOfOne
    <3> HIDE DEF messages
    <3>4. room \in Nat /\ room >= 21 /\ Cost(last) > room
      BY <1>2, <3>3
    <3>5. /\ messages # <<>> /\ Len(messages) = 1
          /\ Estimate(messages) \in Int /\ Estimate(messages) <= room
          /\ messages[1].cut /\ messages[1].chars <= last.chars
      BY <1>3, <3>1, <3>4, ShortenedFits
    <3> QED  BY <1>3, <3>5
  <2>2. CASE most # 0
    <3>1. messages = Newest(recent, most)
      BY <2>2
    <3>2. Len(Newest(recent, most)) = most /\ Newest(recent, most) \in Seq(Messages)
      BY <1>3, <1>6, NewestFacts
    <3>3. Estimate(Newest(recent, most)) \in Int
      BY <3>2, EstimateOfMessages
    <3> HIDE DEF messages
    <3> QED  BY <1>3, <1>6, <2>2, <3>1, <3>2, <3>3
  <2> QED  BY <2>1, <2>2
<1> HIDE DEF messages
<1>8. Cost(SummaryMessage(fitted)) + Estimate(messages) <= MaxTokens
  BY <1>2, <1>7, WindowAssumption DEF taken
<1> QED  BY <1>1, <1>7, <1>8 DEF last

-----------------------------------------------------------------------------
(* The window *)

\* What the conversation is made of, and that the last window is kept.
WindowInv ==
    /\ query \in Queries
    /\ timeline \in Seq(Questions)
    /\ \A i \in DOMAIN timeline : timeline[i].kind = "resolved" => timeline[i].text \in Texts
    /\ progress = "awaiting" => pending_field \in Fields
    /\ window # NoWindow => progress = "advised" /\ WindowKeeps

\* The conversation is a list of messages, and not empty.
LEMMA ConversationTyped ==
    ASSUME WindowInv
    PROVE  Conversation \in Seq(Messages) /\ Conversation # <<>>
<1> DEFINE first == [role |-> "user", chars |-> query.chars, cut |-> FALSE]
           rest == [i \in DOMAIN timeline |->
                       IF timeline[i].kind = "asked"
                       THEN [role |-> "assistant", chars |-> QuestionChars[timeline[i].field],
                             cut |-> FALSE]
                       ELSE [role |-> "user", chars |-> TextChars[timeline[i].text],
                             cut |-> FALSE]]
<1>1. first \in Messages
  BY ClarificationAssumption DEF WindowInv, Messages
<1>2. \A i \in DOMAIN timeline : rest[i] \in Messages
  <2> SUFFICES ASSUME NEW i \in DOMAIN timeline PROVE rest[i] \in Messages
    OBVIOUS
  <2>1. timeline[i] \in Questions
    BY DEF WindowInv
  <2>2. timeline[i].field \in Fields /\ timeline[i].kind \in {"asked", "resolved"}
    BY <2>1 DEF Questions
  <2>3. timeline[i].kind = "resolved" => timeline[i].text \in Texts
    BY DEF WindowInv
  <2> QED  BY <2>2, <2>3, ClarificationAssumption DEF Messages
<1>3. rest \in Seq(Messages)
  <2>1. DOMAIN timeline = 1 .. Len(timeline) /\ Len(timeline) \in Nat
    BY DEF WindowInv
  <2> HIDE DEF rest
  <2>2. rest \in [1 .. Len(timeline) -> Messages]
    BY <1>2, <2>1 DEF rest
  <2> QED  BY <2>1, <2>2
<1>4. <<first>> \in Seq(Messages) /\ Len(<<first>>) = 1
  BY <1>1
<1> HIDE DEF first, rest
<1>5. <<first>> \o rest \in Seq(Messages) /\ Len(<<first>> \o rest) = 1 + Len(rest)
      /\ Len(rest) \in Nat
  BY <1>3, <1>4
<1>6. <<first>> \o rest # <<>>
  BY <1>5
<1> QED  BY <1>5, <1>6 DEF Conversation, first, rest

\* Both ways a window is built.
LEMMA BuiltWindowKeeps ==
    ASSUME NEW messages \in Seq(Messages), messages # <<>>, NEW summary \in Nat,
           NEW w \in {Compressed(messages, summary), SafelyBounded(messages, summary)}
    PROVE  /\ Cost(SummaryMessage(w.summary)) + Estimate(w.messages) <= MaxTokens
           /\ w.messages # <<>> /\ Len(w.messages) <= Len(messages)
           /\ \/ w.messages = Newest(messages, Len(w.messages))
              \/ /\ Len(w.messages) = 1 /\ w.messages[1].cut
                 /\ w.messages[1].chars <= Newest(messages, Len(w.messages))[1].chars
           /\ w.status = "not_needed" => w.messages = messages
<1> DEFINE recent == Newest(messages, KeepRecent)
           v == Window(recent, summary)
<1>1. KeepRecent \in Nat \ {0} /\ Len(messages) \in Nat \ {0}
  BY WindowAssumption
<1>2. recent \in Seq(Messages)
  BY <1>1, NewestFacts
<1>3. Len(recent) = AtMost(KeepRecent, Len(messages))
  BY <1>1, NewestFacts
<1>4. Newest(recent, 1) = Newest(messages, 1)
  <2>1. 1 <= Len(recent)
    BY <1>1, <1>3 DEF AtMost
  <2> QED  BY <1>1, <2>1, NewestOfNewest
<1> HIDE DEF recent
<1>5. Len(recent) \in Nat \ {0} /\ Len(recent) <= Len(messages) /\ recent # <<>>
  BY <1>1, <1>2, <1>3 DEF AtMost
<1>6. Newest(messages, 1)[1] = recent[Len(recent)]
  <2>1. Newest(recent, 1) = <<recent[Len(recent)]>>
    BY <1>2, <1>5, NewestOne
  <2> QED  BY <1>4, <2>1
<1>7. /\ Cost(SummaryMessage(v.summary)) + Estimate(v.messages) <= MaxTokens
      /\ v.messages # <<>> /\ Len(v.messages) <= Len(recent) /\ Len(v.messages) \in Nat
      /\ \/ v.messages = Newest(recent, Len(v.messages))
         \/ /\ Len(v.messages) = 1 /\ v.messages[1].cut
            /\ v.messages[1].chars <= recent[Len(recent)].chars
  BY <1>2, <1>5, WindowFits
<1> HIDE DEF v
<1>8. Newest(recent, Len(v.messages)) = Newest(messages, Len(v.messages))
  BY <1>1, <1>7, NewestOfNewest DEF recent
<1>9. CASE w.summary = v.summary /\ w.messages = v.messages /\ w.status # "not_needed"
  <2>1. Len(w.messages) <= Len(messages)
    <3>1. Len(recent) <= Len(messages) /\ Len(w.messages) <= Len(recent)
      BY <1>5, <1>7, <1>9
    <3> QED  BY <1>1, <1>5, <1>7, <1>9, <3>1
  <2>2. \/ w.messages = Newest(messages, Len(w.messages))
        \/ /\ Len(w.messages) = 1 /\ w.messages[1].cut
           /\ w.messages[1].chars <= Newest(messages, Len(w.messages))[1].chars
    BY <1>6, <1>7, <1>8, <1>9
  <2>3. Cost(SummaryMessage(w.summary)) + Estimate(w.messages) <= MaxTokens /\ w.messages # <<>>
    BY <1>7, <1>9
  <2> QED  BY <1>9, <2>1, <2>2, <2>3
<1>10. CASE /\ Cost(SummaryMessage(summary)) + Estimate(messages) <= MaxTokens
            /\ w = [status |-> "not_needed", summary |-> summary, messages |-> messages]
  <2>1. Newest(messages, Len(messages)) = messages
    <3>1. AtLeast(Len(messages) - Len(messages), 0) + 1 = 1
      BY <1>1 DEF AtLeast
    <3>2. SubSeq(messages, 1, Len(messages)) = messages
      OBVIOUS
    <3> QED  BY <3>1, <3>2 DEF Newest
  <2> QED  BY <1>1, <1>10, <2>1
<1> QED  BY <1>9, <1>10 DEF Compressed, SafelyBounded, v, recent

\* The window the model is shown never exceeds its limit, ends with the newest message and
\* leaves out only older ones, for any limit of 32 tokens or more (_fit_model_window,

\* compress_model_context).
THEOREM WindowAlwaysKeeps == ClarificationSpec => []WindowKeeps
<1>1. ClarificationInit => WindowInv
  BY DEF ClarificationInit, WindowInv
<1>2. WindowInv /\ [ClarificationNext]_clarificationVars => WindowInv'
  <2> SUFFICES ASSUME WindowInv, [ClarificationNext]_clarificationVars
               PROVE  WindowInv'
    OBVIOUS
  <2>1. CASE PlanTask
    <3>1. /\ UNCHANGED <<query, window>> /\ window = NoWindow
          /\ \/ UNCHANGED timeline
             \/ Ambiguity # "none" /\ timeline' = Append(timeline,
                       [kind |-> "asked", field |-> Ambiguity, text |-> "question"])
          /\ progress' = "awaiting" => pending_field' = Ambiguity /\ Ambiguity # "none"
      BY <2>1 DEF PlanTask, WindowInv
    <3>2. Ambiguity # "none" => Ambiguity \in Fields
      BY AmbiguityOpen
    <3> DEFINE e == [kind |-> "asked", field |-> Ambiguity, text |-> "question"]
    <3>3. e.kind = "asked" /\ (Ambiguity # "none" => e \in Questions)
      BY <3>2 DEF Questions, Said
    <3>4. UNCHANGED timeline \/ (e \in Questions /\ timeline' = Append(timeline, e))
      BY <3>1, <3>3
    <3> HIDE DEF e
    <3>5. /\ timeline' \in Seq(Questions)
          /\ \A i \in DOMAIN timeline' :
                \/ i \in DOMAIN timeline /\ timeline'[i] = timeline[i]
                \/ timeline'[i] = e
      BY <3>4 DEF WindowInv
    <3> QED  BY <3>1, <3>2, <3>3, <3>5 DEF WindowInv
  <2>2. ASSUME NEW text \in Texts, Respond(text)
        PROVE  WindowInv'
    <3> DEFINE e == [kind |-> "resolved", field |-> pending_field, text |-> text]
    <3>1. /\ UNCHANGED <<query, window>> /\ window = NoWindow /\ progress' = "planning"
          /\ timeline' = Append(timeline, e) /\ pending_field \in Fields
      BY <2>2 DEF Respond, WindowInv
    <3>2. e \in Questions /\ e.text \in Texts
      BY <2>2, <3>1 DEF Questions, Said
    <3> HIDE DEF e
    <3>3. /\ timeline' \in Seq(Questions)
          /\ \A i \in DOMAIN timeline' :
                \/ i \in DOMAIN timeline /\ timeline'[i] = timeline[i]
                \/ timeline'[i] = e
      BY <3>1, <3>2 DEF WindowInv
    <3> QED  BY <3>1, <3>2, <3>3 DEF WindowInv
  <2>3. CASE BuildContext
    <3>1. /\ UNCHANGED <<query, timeline>> /\ progress' = "advised"
      BY <2>3 DEF BuildContext
    <3>2. PICK summary \in SummarySizes :
              window' \in {Compressed(Conversation, summary), SafelyBounded(Conversation, summary)}
      BY <2>3 DEF BuildContext
    <3>3. summary \in Nat
      BY ClarificationAssumption
    <3>4. Conversation \in Seq(Messages) /\ Conversation # <<>>
      BY ConversationTyped
    <3>5. Conversation' = Conversation
      BY <3>1 DEF Conversation
    <3> DEFINE w == window'
    <3>6. /\ Cost(SummaryMessage(w.summary)) + Estimate(w.messages) <= MaxTokens
          /\ w.messages # <<>> /\ Len(w.messages) <= Len(Conversation)
          /\ \/ w.messages = Newest(Conversation, Len(w.messages))
             \/ /\ Len(w.messages) = 1 /\ w.messages[1].cut
                /\ w.messages[1].chars <= Newest(Conversation, Len(w.messages))[1].chars
          /\ w.status = "not_needed" => w.messages = Conversation
      BY <3>2, <3>3, <3>4, BuiltWindowKeeps
    <3>7. WindowKeeps'
      BY <3>5, <3>6 DEF WindowKeeps
    <3> QED  BY <3>1, <3>7 DEF WindowInv
  <2>4. CASE UNCHANGED clarificationVars
    <3>1. UNCHANGED <<query, progress, pending_field, timeline, window>>
      BY <2>4 DEF clarificationVars
    <3>2. WindowKeeps => WindowKeeps'
      BY <3>1 DEF WindowKeeps, Conversation
    <3> QED  BY <3>1, <3>2 DEF WindowInv
  <2> QED  BY <2>1, <2>2, <2>3, <2>4 DEF ClarificationNext
<1>3. WindowInv => WindowKeeps
  BY DEF WindowInv, WindowKeeps, NoWindow
<1> QED  BY <1>1, <1>2, <1>3, PTL DEF ClarificationSpec
=============================================================================
