--------------------------- MODULE ShoppingProofs ---------------------------
(***************************************************************************)
(* Theorems about the shopping tools, for any settings, offers, plans,     *)
(* preferences, queries and answers of the channels: what the search of    *)
(* the marketplaces may show (ProductSearch), what recall may select and   *)
(* hide (Recall), and what becomes of every offer on its way through       *)
(* prices, costs and the decision (OfferFlow).                             *)
(*                                                                         *)
(* Lists are sorted by choosing, for every rank, the element that exactly  *)
(* so many others come before (Ordering).  The lemmas about that come      *)
(* first: the rank of an element is one more than the cardinality of the   *)
(* set before it, so that no induction over the list is needed.            *)
(***************************************************************************)
EXTENDS ProductSearch, OfferFlow, Recall, FiniteSetTheorems, TLAPS
LOCAL INSTANCE ImportTax

-----------------------------------------------------------------------------
(* Orders and ranks *)

\* A nonempty set of naturals has a least element: how a rank that is not taken, or a reference
\* that is not chosen, is found without induction over a list.
LEMMA LeastNatural == ASSUME NEW T \in SUBSET Nat, T # {}
                      PROVE  \E n \in T : \A m \in T : n <= m
<1> DEFINE R == OpToRel(<, Nat)
<1>1. \A x, y \in Nat : x < y => <<x, y>> \in R
  BY DEF OpToRel
<1>2. IsWellFoundedOn(R, Nat)
  BY NatLessThanWellFounded
<1> HIDE DEF R
<1>3. PICK x \in T : \A y \in T : ~ (<<y, x>> \in R)
  BY <1>2, WFMin
<1>4. ASSUME NEW y \in T PROVE x <= y
  <2>1. x \in Nat /\ y \in Nat
    OBVIOUS
  <2>2. ~(y < x)
    BY <1>1, <1>3, <2>1, Zenon
  <2> QED  BY <2>1, <2>2
<1> QED  BY <1>3, <1>4

\* Of each member of P, the members that come before it, all in a strict total order.
Orders(P, before) ==
    /\ before \in [P -> SUBSET P]
    /\ \A i \in P : i \notin before[i]
    /\ \A i, j \in P : i # j => i \in before[j] \/ j \in before[i]
    /\ \A i, j, k \in P : i \in before[j] /\ j \in before[k] => i \in before[k]

\* The position of a member of P in that order.
Rank(before, i) == Cardinality(before[i]) + 1

\* Ranks are positions of a list as long as P is large, and follow the order.
LEMMA RanksOrder ==
    ASSUME NEW P, IsFiniteSet(P), NEW before, Orders(P, before)
    PROVE  /\ \A i \in P : Rank(before, i) \in 1 .. Cardinality(P)
           /\ \A i, j \in P : i \in before[j] => Rank(before, i) < Rank(before, j)
           /\ \A i, j \in P : Rank(before, i) = Rank(before, j) => i = j
<1>0. \A i \in P : /\ IsFiniteSet(before[i]) /\ Cardinality(before[i]) \in Nat
                   /\ before[i] \subseteq P /\ i \notin before[i]
  BY FS_Subset, FS_CardinalityType DEF Orders
<1>1. \A i \in P : Rank(before, i) \in 1 .. Cardinality(P)
  <2> SUFFICES ASSUME NEW i \in P PROVE Rank(before, i) \in 1 .. Cardinality(P)
    OBVIOUS
  <2>1. before[i] \in SUBSET (P \ {i})
    BY <1>0
  <2>2. IsFiniteSet(P \ {i}) /\ Cardinality(P \ {i}) = Cardinality(P) - 1
    BY FS_RemoveElement
  <2>3. Cardinality(before[i]) <= Cardinality(P) - 1
    BY <2>1, <2>2, FS_Subset
  <2>4. Cardinality(P) \in Nat
    BY FS_CardinalityType
  <2> QED  BY <1>0, <2>3, <2>4 DEF Rank
<1>2. ASSUME NEW i \in P, NEW j \in P, i \in before[j]
      PROVE  Rank(before, i) < Rank(before, j)
  <2>1. before[i] \subseteq before[j] \ {i}
    BY <1>0, <1>2 DEF Orders
  <2>2. IsFiniteSet(before[j] \ {i}) /\ Cardinality(before[j] \ {i}) = Cardinality(before[j]) - 1
    BY <1>0, <1>2, FS_RemoveElement
  <2>3. Cardinality(before[i]) <= Cardinality(before[j]) - 1
    BY <2>1, <2>2, FS_Subset
  <2> QED  BY <1>0, <2>3 DEF Rank
<1>3. ASSUME NEW i \in P, NEW j \in P, Rank(before, i) = Rank(before, j), i # j
      PROVE  FALSE
  <2>1. i \in before[j] \/ j \in before[i]
    BY <1>3 DEF Orders
  <2>2. Rank(before, i) \in Nat /\ Rank(before, j) \in Nat
    BY <1>0 DEF Rank
  <2> QED  BY <1>2, <1>3, <2>1, <2>2
<1> QED  BY <1>1, <1>2, <1>3

\* Every position is the rank of one member of P, and Nth (Ordering) finds it.
LEMMA EveryRankTaken ==
    ASSUME NEW P, IsFiniteSet(P), NEW before, Orders(P, before)
    PROVE  /\ \A k \in 1 .. Cardinality(P) :
                  Nth(P, before, k) \in P /\ Rank(before, Nth(P, before, k)) = k
           /\ \A i \in P : Nth(P, before, Rank(before, i)) = i
<1> DEFINE r == [i \in P |-> Rank(before, i)]
           N == 1 .. Cardinality(P)
<1>1. \A i \in P : Cardinality(before[i]) \in Nat
  BY FS_Subset, FS_CardinalityType DEF Orders
<1>2. Cardinality(P) \in Nat
  BY FS_CardinalityType
<1>3. r \in Injection(P, N)
  BY RanksOrder DEF Injection, IsInjective
<1>4. IsFiniteSet(N) /\ Cardinality(N) = Cardinality(P)
  BY <1>2, FS_Interval
<1>5. r \in Surjection(P, N)
  BY <1>3, <1>4, FS_Injection
<1>6. \A k \in N : \E i \in P : Rank(before, i) = k
  BY <1>5 DEF Surjection
<1>7. \A k \in N : \E i \in P : Cardinality(before[i]) = k - 1
  BY <1>1, <1>2, <1>6 DEF Rank
<1>8. \A k \in N : Nth(P, before, k) \in P /\ Cardinality(before[Nth(P, before, k)]) = k - 1
  BY <1>7 DEF Nth
<1>9. \A k \in N : Nth(P, before, k) \in P /\ Rank(before, Nth(P, before, k)) = k
  BY <1>8 DEF Rank
<1>10. \A i \in P : Nth(P, before, Rank(before, i)) = i
  BY <1>9, RanksOrder
<1> QED  BY <1>9, <1>10

\* t has the members of s at the positions P, each position once, in the order pos.
Arranges(t, s, P, pos) ==
    /\ DOMAIN t = 1 .. Cardinality(P) /\ Cardinality(P) \in Nat
    /\ t = [k \in 1 .. Cardinality(P) |-> s[pos[k]]]
    /\ pos \in [1 .. Cardinality(P) -> P]
    /\ \A k, l \in 1 .. Cardinality(P) : pos[k] = pos[l] => k = l
    /\ \A i \in P : \E k \in 1 .. Cardinality(P) : pos[k] = i

\* An arrangement is a sequence of what s has at those positions.
LEMMA ArrangedFacts ==
    ASSUME NEW t, NEW s, NEW P, NEW pos, Arranges(t, s, P, pos)
    PROVE  /\ Elements(t) = {s[i] : i \in P}
           /\ t \in Seq(Elements(t)) /\ Len(t) = Cardinality(P)
<1>1. Elements(t) = {s[i] : i \in P}
  <2>1. \A k \in DOMAIN t : t[k] \in {s[i] : i \in P}
    BY DEF Arranges
  <2>2. ASSUME NEW i \in P PROVE \E k \in DOMAIN t : t[k] = s[i]
    BY DEF Arranges
  <2> QED  BY <2>1, <2>2 DEF Elements
<1>2. t \in [1 .. Cardinality(P) -> Elements(t)]
  BY DEF Arranges, Elements
<1>3. Cardinality(P) \in Nat
  BY DEF Arranges
<1> QED  BY <1>1, <1>2, <1>3

\* Listing the members of P by rank arranges them in their order.
LEMMA ByRank ==
    ASSUME NEW s, NEW P, IsFiniteSet(P), NEW before, Orders(P, before), NEW n, n = Cardinality(P)
    PROVE  LET pos == [k \in 1 .. n |-> Nth(P, before, k)]
           IN  /\ Arranges([k \in 1 .. n |-> s[Nth(P, before, k)]], s, P, pos)
               /\ \A k, l \in 1 .. n : pos[k] \in before[pos[l]] => k < l
               /\ \A k, l \in 1 .. n : k < l => pos[k] \in before[pos[l]]
<1> DEFINE pos == [k \in 1 .. n |-> Nth(P, before, k)]
           t == [k \in 1 .. n |-> s[Nth(P, before, k)]]
           N == 1 .. n
<1>1. \A k \in N : pos[k] \in P /\ Rank(before, pos[k]) = k
  BY EveryRankTaken
<1>2. \A i \in P : Rank(before, i) \in N /\ pos[Rank(before, i)] = i
  BY EveryRankTaken, RanksOrder
<1>3. t = [k \in N |-> s[pos[k]]] /\ DOMAIN t = N /\ pos = [k \in N |-> pos[k]]
  OBVIOUS
<1> HIDE DEF pos, t
<1>4. Cardinality(P) \in Nat
  BY FS_CardinalityType
<1>5. Arranges(t, s, P, pos)
  <2>1. pos \in [N -> P]
    BY <1>1, <1>3
  <2>2. \A k, l \in N : pos[k] = pos[l] => k = l
    BY <1>1
  <2>3. \A i \in P : \E k \in N : pos[k] = i
    BY <1>2
  <2> QED  BY <1>3, <1>4, <2>1, <2>2, <2>3 DEF Arranges
<1>6. \A k, l \in N : pos[k] \in before[pos[l]] => k < l
  BY <1>1, RanksOrder
<1>7. ASSUME NEW k \in N, NEW l \in N, k < l
      PROVE  pos[k] \in before[pos[l]]
  <2>1. pos[k] # pos[l]
    BY <1>1, <1>7
  <2>2. pos[k] \in before[pos[l]] \/ pos[l] \in before[pos[k]]
    BY <1>1, <2>1 DEF Orders
  <2> QED  BY <1>6, <1>7, <2>2
<1> QED  BY <1>5, <1>6, <1>7 DEF pos, t

\* AtPositions, the filter of the code's comprehensions, keeps the order of the list.
LEMMA AtPositionsArranges ==
    ASSUME NEW s, NEW P \in SUBSET Int, IsFiniteSet(P)
    PROVE  \E pos : /\ Arranges(AtPositions(s, P), s, P, pos)
                    /\ \A k, l \in 1 .. Cardinality(P) : k < l => pos[k] < pos[l]
<1> DEFINE before == [i \in P |-> {j \in P : j < i}]
           pos == [k \in 1 .. Cardinality(P) |-> Nth(P, before, k)]
<1>1. Orders(P, before)
  BY DEF Orders
<1>3. AtPositions(s, P) = [k \in 1 .. Cardinality(P) |-> s[Nth(P, before, k)]]
  BY DEF AtPositions
<1>4. \A k, l \in 1 .. Cardinality(P) : k < l => pos[k] \in before[pos[l]]
  <2> HIDE DEF before
  <2> QED  BY <1>1, ByRank
<1>5. Arranges(AtPositions(s, P), s, P, pos)
  <2> HIDE DEF before
  <2>1. Arranges([k \in 1 .. Cardinality(P) |-> s[Nth(P, before, k)]], s, P, pos)
    BY <1>1, ByRank
  <2> QED  BY <1>3, <2>1
<1>6. \A k \in 1 .. Cardinality(P) : pos[k] \in P
  BY <1>5 DEF Arranges
<1> HIDE DEF pos
<1>7. \A k, l \in 1 .. Cardinality(P) : k < l => pos[k] < pos[l]
  BY <1>4, <1>6
<1> QED  BY <1>5, <1>7

\* Keys of one length are strictly and totally ordered (Python's comparison of tuples).
LEMMA Lexicographic ==
    ASSUME NEW m \in Nat, NEW a \in [1 .. m -> Int], NEW b \in [1 .. m -> Int],
           NEW c \in [1 .. m -> Int]
    PROVE  /\ ~Precedes(a, a)
           /\ Precedes(a, b) /\ Precedes(b, c) => Precedes(a, c)
           /\ a # b => Precedes(a, b) \/ Precedes(b, a)
<1>1. ~Precedes(a, a)
  BY DEF Precedes
<1>2. ASSUME Precedes(a, b), Precedes(b, c) PROVE Precedes(a, c)
  <2>1. PICK i \in 1 .. m : a[i] < b[i] /\ \A k \in 1 .. i - 1 : a[k] = b[k]
    BY <1>2 DEF Precedes
  <2>2. PICK j \in 1 .. m : b[j] < c[j] /\ \A k \in 1 .. j - 1 : b[k] = c[k]
    BY <1>2 DEF Precedes
  <2>3. CASE i <= j
    <3>1. a[i] < c[i]
      BY <2>1, <2>2, <2>3
    <3>2. \A k \in 1 .. i - 1 : a[k] = c[k]
      BY <2>1, <2>2, <2>3
    <3> QED  BY <3>1, <3>2 DEF Precedes
  <2>4. CASE j < i
    <3>1. a[j] < c[j]
      BY <2>1, <2>2, <2>4
    <3>2. \A k \in 1 .. j - 1 : a[k] = c[k]
      BY <2>1, <2>2, <2>4
    <3> QED  BY <3>1, <3>2 DEF Precedes
  <2> QED  BY <2>3, <2>4
<1>3. ASSUME a # b PROVE Precedes(a, b) \/ Precedes(b, a)
  <2> DEFINE T == {i \in 1 .. m : a[i] # b[i]}
  <2>1. T \in SUBSET Nat /\ T # {}
    <3>1. T = {} => \A i \in 1 .. m : a[i] = b[i]
      OBVIOUS
    <3>2. (\A i \in 1 .. m : a[i] = b[i]) => a = b
      <4>1. a = [i \in 1 .. m |-> a[i]] /\ b = [i \in 1 .. m |-> b[i]]
        OBVIOUS
      <4> QED  BY <4>1
    <3>3. T \in SUBSET Nat
      OBVIOUS
    <3> HIDE DEF T
    <3> QED  BY <1>3, <3>1, <3>2, <3>3
  <2>2. PICK i \in T : \A j \in T : i <= j
    <3> HIDE DEF T
    <3> QED  BY <2>1, LeastNatural
  <2>3. i \in 1 .. m /\ (a[i] < b[i] \/ b[i] < a[i])
    OBVIOUS
  <2>4. \A k \in 1 .. i - 1 : a[k] = b[k]
    BY <2>2, <2>3
  <2> QED  BY <2>3, <2>4 DEF Precedes
<1> QED  BY <1>1, <1>2, <1>3

\* The same of a family of keys.
KeysOrdered(N, keys) ==
    \A i, j, k \in N :
        /\ ~Precedes(keys[i], keys[i])
        /\ Precedes(keys[i], keys[j]) /\ Precedes(keys[j], keys[k]) => Precedes(keys[i], keys[k])
        /\ keys[i] # keys[j] => Precedes(keys[i], keys[j]) \/ Precedes(keys[j], keys[i])

LEMMA LexicographicKeys ==
    ASSUME NEW m \in Nat, NEW N, NEW keys \in [N -> [1 .. m -> Int]]
    PROVE  KeysOrdered(N, keys)
<1> SUFFICES ASSUME NEW i \in N, NEW j \in N, NEW k \in N
             PROVE  /\ ~Precedes(keys[i], keys[i])
                    /\ Precedes(keys[i], keys[j]) /\ Precedes(keys[j], keys[k])
                         => Precedes(keys[i], keys[k])
                    /\ keys[i] # keys[j]
                         => Precedes(keys[i], keys[j]) \/ Precedes(keys[j], keys[i])
  BY DEF KeysOrdered
<1>1. keys[i] \in [1 .. m -> Int] /\ keys[j] \in [1 .. m -> Int] /\ keys[k] \in [1 .. m -> Int]
  OBVIOUS
<1> QED  BY <1>1, Lexicographic

\* Keys, ties broken by the position: a strict total order of the positions (a stable sort).
LEMMA BeforeOrders ==
    ASSUME NEW n \in Nat, NEW m \in Nat, NEW keys \in [1 .. n -> [1 .. m -> Int]]
    PROVE  Orders(1 .. n, [i \in 1 .. n |-> Before(keys, i)])
<1> DEFINE before == [i \in 1 .. n |-> Before(keys, i)]
           N == 1 .. n
<1>1. \A i, j \in N : i \in before[j] <=> \/ Precedes(keys[i], keys[j])
                                          \/ ~Precedes(keys[j], keys[i]) /\ i < j
  BY DEF Before
<1>2. before \in [N -> SUBSET N]
  BY DEF Before
<1> HIDE DEF before
<1>3. \A i, j, k \in N :
          /\ ~Precedes(keys[i], keys[i])
          /\ Precedes(keys[i], keys[j]) /\ Precedes(keys[j], keys[k]) => Precedes(keys[i], keys[k])
          /\ keys[i] # keys[j] => Precedes(keys[i], keys[j]) \/ Precedes(keys[j], keys[i])
  <2>1. KeysOrdered(N, keys)
    BY LexicographicKeys
  <2> QED  BY <2>1 DEF KeysOrdered
<1>4. \A i, j \in N : ~(Precedes(keys[i], keys[j]) /\ Precedes(keys[j], keys[i]))
  BY <1>3
<1>5. \A i, j \in N : i \in before[j] <=> \/ Precedes(keys[i], keys[j])
                                          \/ keys[i] = keys[j] /\ i < j
  BY <1>1, <1>3, <1>4
<1>6. \A i \in N : i \notin before[i]
  BY <1>3, <1>5
<1>7. \A i, j \in N : i # j => i \in before[j] \/ j \in before[i]
  BY <1>3, <1>5
<1>8. ASSUME NEW i \in N, NEW j \in N, NEW k \in N, i \in before[j], j \in before[k]
      PROVE  i \in before[k]
  <2>1. CASE Precedes(keys[i], keys[j]) /\ Precedes(keys[j], keys[k])
    BY <1>3, <1>5, <2>1
  <2>2. CASE Precedes(keys[i], keys[j]) /\ keys[j] = keys[k]
    BY <1>5, <2>2
  <2>3. CASE keys[i] = keys[j] /\ Precedes(keys[j], keys[k])
    BY <1>5, <2>3
  <2>4. CASE keys[i] = keys[j] /\ i < j /\ keys[j] = keys[k] /\ j < k
    <3>1. i < k
      BY <2>4
    <3> QED  BY <1>5, <2>4, <3>1
  <2> QED  BY <1>5, <1>8, <2>1, <2>2, <2>3, <2>4
<1> QED  BY <1>2, <1>6, <1>7, <1>8 DEF Orders, before

\* Sorted returns every element of the list once, and none before one with a smaller key.
LEMMA SortedArranges ==
    ASSUME NEW n \in Nat, NEW m \in Nat, NEW keys \in [1 .. n -> [1 .. m -> Int]],
           NEW s, DOMAIN s = 1 .. n
    PROVE  \E pos : /\ Arranges(Sorted(s, keys), s, 1 .. n, pos)
                    /\ \A k, l \in 1 .. n : k < l => ~Precedes(keys[pos[l]], keys[pos[k]])
<1> DEFINE before == [i \in 1 .. n |-> Before(keys, i)]
           pos == [k \in 1 .. n |-> Nth(1 .. n, before, k)]
<1>1. Orders(1 .. n, before)
  BY BeforeOrders
<1>2. IsFiniteSet(1 .. n) /\ Cardinality(1 .. n) = n
  BY FS_Interval
<1>4. Sorted(s, keys) = [k \in 1 .. n |-> s[Nth(1 .. n, before, k)]]
  BY DEF Sorted
<1>5. \A k, l \in 1 .. n : k < l => pos[k] \in before[pos[l]]
  <2> HIDE DEF before
  <2> QED  BY <1>1, <1>2, ByRank
<1>6. Arranges(Sorted(s, keys), s, 1 .. n, pos)
  <2> HIDE DEF before
  <2>1. Arranges([k \in 1 .. n |-> s[Nth(1 .. n, before, k)]], s, 1 .. n, pos)
    BY <1>1, <1>2, ByRank
  <2> QED  BY <1>4, <2>1
<1>7. \A k \in 1 .. n : pos[k] \in 1 .. n
  BY <1>2, <1>6 DEF Arranges
<1> HIDE DEF pos
<1>8. ASSUME NEW k \in 1 .. n, NEW l \in 1 .. n, k < l
      PROVE  ~Precedes(keys[pos[l]], keys[pos[k]])
  <2>1. pos[k] \in Before(keys, pos[l])
    BY <1>5, <1>7, <1>8
  <2>2. keys[pos[k]] \in [1 .. m -> Int] /\ keys[pos[l]] \in [1 .. m -> Int]
    BY <1>7
  <2> QED  BY <2>1, <2>2, Lexicographic DEF Before
<1> QED  BY <1>6, <1>8

-----------------------------------------------------------------------------
(* Offers, their taxes and their prices *)

\* An offer as the marketplaces and the customs evidence make them, with finitely many facts.
Sound(o) == o \in Offers /\ IsFiniteSet(o.variant) /\ IsFiniteSet(o.attributes)
\* No offer is listed twice.
DistinctIds(s) == \A i, j \in DOMAIN s : s[i].id = s[j].id => i = j
\* A list of different offers, as Product Evidence holds them.
SoundOffers(s) == s \in Seq(Offers) /\ (\A i \in DOMAIN s : Sound(s[i])) /\ DistinctIds(s)

\* Prices are rounded to whole cents.
LEMMA MoneyTyped == ASSUME NEW n \in Nat, NEW d \in Nat \ {0} PROVE Money(n, d) \in Nat
BY DEF Money

\* Import tax on a price and freight that are not negative is a whole number of cents.
LEMMA TaxTyped ==
    ASSUME NEW e \in CustomsEvidence, NEW price \in Int, NEW freight \in Nat, price >= 0
    PROVE  ImportTax(e, price, freight) \in Int
<1> DEFINE v == CustomsValue(e, price, freight)
<1>1. /\ e.value \in Nat /\ e.insurance \in Nat /\ e.tariff \in Nat /\ e.vat \in Nat
      /\ e.consumption \in 0 .. 99 /\ e.postal \in Nat /\ e.threshold \in Nat
      /\ e.collected \in Nat
  BY DEF CustomsEvidence
<1>2. v \in Nat
  BY <1>1 DEF CustomsValue
<1> HIDE DEF v
<1>3. GeneralTrade(e, v) \in Int
  <2> DEFINE t == Money(v * e.tariff, 100)
             c == Money((v + t) * e.consumption, 100 - e.consumption)
             a == Money((v + t + c) * e.vat, 100)
  <2>1. t \in Nat
    <3>1. v * e.tariff \in Nat
      BY <1>1, <1>2
    <3> QED  BY <3>1, MoneyTyped
  <2> HIDE DEF t
  <2>2. c \in Nat
    <3>1. (v + t) * e.consumption \in Nat /\ 100 - e.consumption \in Nat \ {0}
      BY <1>1, <1>2, <2>1
    <3> QED  BY <3>1, MoneyTyped
  <2> HIDE DEF c
  <2>3. a \in Nat
    <3>1. (v + t + c) * e.vat \in Nat
      BY <1>1, <1>2, <2>1, <2>2
    <3> QED  BY <3>1, MoneyTyped
  <2> HIDE DEF a
  <2>4. GeneralTrade(e, v) = t + c + a
    BY DEF GeneralTrade, t, c, a
  <2> QED  BY <2>1, <2>2, <2>3, <2>4
<1>4. CrossBorder(e, v) \in Int
  <2> DEFINE base == 100 * (100 - e.consumption)
             c == Money(v * e.consumption * PolicyPercent, base)
             a == Money(v * e.vat * PolicyPercent, base)
  <2>1. base \in Nat \ {0} /\ v * e.consumption * 70 \in Nat /\ v * e.vat * 70 \in Nat
    BY <1>1, <1>2
  <2> HIDE DEF base
  <2>2. c \in Nat /\ a \in Nat
    BY <2>1, MoneyTyped DEF PolicyPercent
  <2> HIDE DEF c, a
  <2>3. CrossBorder(e, v) = c + a
    BY DEF CrossBorder, c, a, base
  <2> QED  BY <2>2, <2>3
<1>5. PersonalPostal(e) \in Int
  <2>1. e.value * e.postal \in Nat
    BY <1>1
  <2>2. Money(e.value * e.postal, 100) \in Nat
    BY <2>1, MoneyTyped
  <2> QED  BY <2>2 DEF PersonalPostal
<1> QED  BY <1>1, <1>3, <1>4, <1>5 DEF ImportTax, v

\* Adding customs or conversion evidence keeps an offer sound and keeps its id.
LEMMA EnrichedOffers ==
    ASSUME NEW o, Sound(o), NEW official \in CustomsEvidence \cup {NoCustoms}, NEW available
    PROVE  /\ Sound(EnrichCustoms(o, official)) /\ EnrichCustoms(o, official).id = o.id
           /\ Sound(EnrichConversion(o, available)) /\ EnrichConversion(o, available).id = o.id
<1>1. ASSUME AsksCustoms(o), official # NoCustoms, NEW value \in Nat
      PROVE  [official EXCEPT !.value = value] \in CustomsEvidence
  BY <1>1 DEF CustomsEvidence
<1>2. ASSUME NEW c \in CustomsEvidence
      PROVE  Sound([o EXCEPT !.customs = c]) /\ [o EXCEPT !.customs = c].id = o.id
  BY DEF Sound, Offers
<1>3. Sound([o EXCEPT !.fx = "good"]) /\ [o EXCEPT !.fx = "good"].id = o.id
  BY DEF Sound, Offers
<1>4. ASSUME AsksCustoms(o)
      PROVE  (IF o.currency = "CNY" THEN o.amount ELSE o.amount * RateToCny) + o.freight \in Nat
  BY <1>4 DEF AsksCustoms, Sound, Offers, Invalid, RateToCny
<1>5. Sound(EnrichCustoms(o, official)) /\ EnrichCustoms(o, official).id = o.id
  BY <1>1, <1>2, <1>4 DEF EnrichCustoms
<1>6. Sound(EnrichConversion(o, available)) /\ EnrichConversion(o, available).id = o.id
  BY <1>3 DEF EnrichConversion
<1> QED  BY <1>5, <1>6

\* Choosing or reordering offers of a sound list gives a sound list.
LEMMA ArrangedOffers ==
    ASSUME NEW s, SoundOffers(s), NEW P, P \subseteq DOMAIN s, NEW t, NEW pos,
           Arranges(t, s, P, pos)
    PROVE  SoundOffers(t)
<1>1. \A k \in DOMAIN t : pos[k] \in P /\ t[k] = s[pos[k]]
  BY DEF Arranges
<1>2. \A i \in DOMAIN s : s[i] \in Offers
  BY DEF SoundOffers
<1>3. t \in Seq(Elements(t)) /\ Elements(t) = {s[i] : i \in P}
  BY ArrangedFacts
<1>4. Elements(t) \subseteq Offers
  BY <1>2, <1>3
<1>5. t \in Seq(Offers)
  BY <1>3, <1>4
<1>6. DistinctIds(t)
  BY <1>1 DEF SoundOffers, DistinctIds, Arranges
<1>7. \A k \in DOMAIN t : Sound(t[k])
  BY <1>1 DEF SoundOffers
<1> QED  BY <1>5, <1>6, <1>7 DEF SoundOffers

\* The positions of a list are finitely many integers.
LEMMA KeptAreFinite ==
    ASSUME NEW S, NEW s \in Seq(S), NEW P \in SUBSET DOMAIN s
    PROVE  P \in SUBSET Int /\ IsFiniteSet(P)
<1>1. DOMAIN s = 1 .. Len(s) /\ Len(s) \in Nat
  OBVIOUS
<1>2. IsFiniteSet(1 .. Len(s))
  BY <1>1, FS_Interval
<1> QED  BY <1>1, <1>2, FS_Subset

\* A price key has three numbers and ends with the id of the offer (price_compare).
LEMMA PriceKeyTyped ==
    ASSUME NEW o \in Offers
    PROVE  /\ PriceKey(o) \in [1 .. 3 -> Int] /\ PriceKey(o)[3] = o.id
           /\ PriceVerdict(o) = "ok" => PriceCny(o) \in Nat
<1>1. PriceCny(o) \in Int /\ o.platform \in Int /\ o.id \in Int
  BY DEF PriceCny, Offers, Invalid, RateToCny
<1>2. PriceVerdict(o) = "ok" => PriceCny(o) \in Nat
  BY DEF PriceVerdict, PriceCny, Offers, Invalid, RateToCny
<1>3. ASSUME NEW x \in Int, NEW y \in Int, NEW z \in Int
      PROVE  <<x, y, z>> \in [1 .. 3 -> Int] /\ <<x, y, z>>[3] = z
  <2>1. DOMAIN <<x, y, z>> = 1 .. 3
    OBVIOUS
  <2> QED  BY <2>1
<1> QED  BY <1>1, <1>2, <1>3 DEF PriceKey

\* A list of offers in the strict order of their prices.
InPriceOrder(s) == \A k, l \in DOMAIN s : k < l => Precedes(PriceKey(s[k]), PriceKey(s[l]))

\* price_compare lists every comparable offer once, strictly by price, condition and id.
LEMMA PricedFacts ==
    ASSUME NEW e, SoundOffers(e)
    PROVE  /\ SoundOffers(Priced(e)) /\ InPriceOrder(Priced(e))
           /\ Elements(Priced(e)) = {o \in Elements(e) : PriceVerdict(o) = "ok"}
<1> DEFINE P == {i \in DOMAIN e : PriceVerdict(e[i]) = "ok"}
           A == AtPositions(e, P)
           n == Len(A)
           keys == [i \in DOMAIN A |-> PriceKey(A[i])]
           t == Sorted(A, keys)
<1>1. Priced(e) = t
  BY DEF Priced, SortBy, Keep
<1>2. P \subseteq DOMAIN e /\ P \in SUBSET Int /\ IsFiniteSet(P)
  BY KeptAreFinite DEF SoundOffers
<1>3. PICK pos : Arranges(A, e, P, pos)
  <2> HIDE DEF P
  <2> QED  BY <1>2, AtPositionsArranges
<1>4. SoundOffers(A) /\ Elements(A) = {e[i] : i \in P}
  <2> HIDE DEF P, A
  <2> QED  BY <1>2, <1>3, ArrangedOffers, ArrangedFacts
<1> HIDE DEF A
<1>5. n \in Nat /\ DOMAIN A = 1 .. n /\ \A i \in 1 .. n : A[i] \in Offers
  BY <1>4 DEF SoundOffers
<1>6. keys \in [1 .. n -> [1 .. 3 -> Int]]
  BY <1>5, PriceKeyTyped
<1>7. PICK sort : /\ Arranges(t, A, 1 .. n, sort)
                  /\ \A k, l \in 1 .. n : k < l => ~Precedes(keys[sort[l]], keys[sort[k]])
  <2> HIDE DEF keys
  <2> QED  BY <1>5, <1>6, SortedArranges
<1>8. DOMAIN t = 1 .. n /\ \A k \in 1 .. n : sort[k] \in 1 .. n /\ t[k] = A[sort[k]]
  <2>1. Cardinality(1 .. n) = n
    BY <1>5, FS_Interval
  <2> QED  BY <1>7, <2>1 DEF Arranges
<1>9. SoundOffers(t) /\ Elements(t) = {A[i] : i \in 1 .. n}
  <2> HIDE DEF t
  <2> QED  BY <1>4, <1>5, <1>7, ArrangedOffers, ArrangedFacts
<1>10. Elements(t) = {o \in Elements(e) : PriceVerdict(o) = "ok"}
  <2>1. Elements(t) = Elements(A)
    BY <1>5, <1>9 DEF Elements
  <2> HIDE DEF t
  <2> QED  BY <1>4, <2>1 DEF Elements
<1>11. InPriceOrder(t)
  <2> SUFFICES ASSUME NEW k \in 1 .. n, NEW l \in 1 .. n, k < l
               PROVE  Precedes(PriceKey(t[k]), PriceKey(t[l]))
    BY <1>8 DEF InPriceOrder
  <2>1. t[k].id # t[l].id
    <3> HIDE DEF t
    <3> QED  BY <1>5, <1>8, <1>9 DEF SoundOffers, DistinctIds
  <2>2. /\ PriceKey(t[k]) = keys[sort[k]] /\ PriceKey(t[l]) = keys[sort[l]]
        /\ t[k] \in Offers /\ t[l] \in Offers
    <3> HIDE DEF t
    <3> QED  BY <1>5, <1>8
  <2>3. ~Precedes(PriceKey(t[l]), PriceKey(t[k]))
    BY <1>7, <2>2
  <2> HIDE DEF t, keys
  <2>4. /\ PriceKey(t[k]) \in [1 .. 3 -> Int] /\ PriceKey(t[l]) \in [1 .. 3 -> Int]
        /\ PriceKey(t[k])[3] = t[k].id /\ PriceKey(t[l])[3] = t[l].id
    BY <2>2, PriceKeyTyped
  <2>5. PriceKey(t[k]) # PriceKey(t[l])
    BY <2>1, <2>4
  <2> QED  BY <2>3, <2>4, <2>5, Lexicographic
<1> HIDE DEF t
<1> QED  BY <1>1, <1>9, <1>10, <1>11

\* Two lists of the same offers in price order are the same list: the key decides every tie.
LEMMA SameOrder ==
    ASSUME NEW s, NEW t, SoundOffers(s), SoundOffers(t), InPriceOrder(s), InPriceOrder(t),
           Elements(s) = Elements(t)
    PROVE  s = t
<1> DEFINE n == Len(s)
           m == Len(t)
           Differ(k) == k \notin 1 .. n \/ k \notin 1 .. m \/ s[k] # t[k]
           T == {k \in (1 .. n) \cup (1 .. m) : Differ(k)}
<1>1. /\ n \in Nat /\ DOMAIN s = 1 .. n /\ m \in Nat /\ DOMAIN t = 1 .. m
      /\ (\A k \in 1 .. n : s[k] \in Offers) /\ (\A k \in 1 .. m : t[k] \in Offers)
      /\ s = [k \in 1 .. n |-> s[k]] /\ t = [k \in 1 .. m |-> t[k]]
  BY DEF SoundOffers
<1> HIDE DEF n, m
<1>2. \A a, b \in Offers : /\ ~Precedes(PriceKey(a), PriceKey(a))
                           /\ ~(/\ Precedes(PriceKey(a), PriceKey(b))
                                /\ Precedes(PriceKey(b), PriceKey(a)))
  <2> SUFFICES ASSUME NEW a \in Offers, NEW b \in Offers
               PROVE  /\ ~Precedes(PriceKey(a), PriceKey(a))
                      /\ ~(/\ Precedes(PriceKey(a), PriceKey(b))
                                /\ Precedes(PriceKey(b), PriceKey(a)))
    OBVIOUS
  <2>1. PriceKey(a) \in [1 .. 3 -> Int] /\ PriceKey(b) \in [1 .. 3 -> Int]
    BY PriceKeyTyped
  <2> QED  BY <2>1, Lexicographic
<1>9. /\ \A k \in 1 .. n : \E j \in 1 .. m : t[j] = s[k]
      /\ \A k \in 1 .. m : \E j \in 1 .. n : s[j] = t[k]
  <2>1. {s[i] : i \in 1 .. n} = {t[i] : i \in 1 .. m}
    BY <1>1 DEF Elements
  <2> QED  BY <2>1
<1>3. CASE T = {}
  <2>1. \A k \in (1 .. n) \cup (1 .. m) : k \in 1 .. n /\ k \in 1 .. m /\ s[k] = t[k]
    BY <1>3
  <2>2. 1 .. n = 1 .. m
    BY <2>1
  <2> HIDE DEF T
  <2> QED  BY <1>1, <2>1, <2>2
<1>4. CASE T # {}
  <2>1. T \in SUBSET Nat
    BY <1>1
  <2>2. PICK k \in T : \A j \in T : k <= j
    <3> HIDE DEF T
    <3> QED  BY <1>4, <2>1, LeastNatural
  <2>3. k \in Nat /\ k >= 1 /\ \A j \in 1 .. k - 1 : j \in 1 .. n /\ j \in 1 .. m /\ s[j] = t[j]
    <3>1. k \in Nat /\ k >= 1 /\ (k <= n \/ k <= m)
      BY <1>1
    <3>2. \A j \in 1 .. k - 1 : j \notin T
      BY <2>2, <3>1
    <3>3. \A j \in 1 .. k - 1 : j \in (1 .. n) \cup (1 .. m)
      BY <1>1, <3>1
    <3> QED  BY <3>1, <3>2, <3>3
  <2>11. k \in (1 .. n) \cup (1 .. m) /\ Differ(k)
    OBVIOUS
  <2> HIDE DEF T
  <2>12. k \in Nat /\ k >= 1
    BY <2>3
  <2>4. ASSUME k \in 1 .. n
        PROVE  \E j \in 1 .. m : j >= k /\ s[k] = t[j]
    <3>1. PICK j \in 1 .. m : t[j] = s[k]
      BY <1>9, <2>4
    <3>2. CASE j < k
      <4>3. j \in 1 .. k - 1
        BY <1>1, <2>12, <3>2
      <4>1. s[j] = s[k] /\ j \in 1 .. n
        BY <2>3, <3>1, <4>3
      <4>2. Precedes(PriceKey(s[j]), PriceKey(s[k]))
        BY <1>1, <2>4, <3>2, <4>1 DEF InPriceOrder
      <4> QED  BY <1>1, <1>2, <2>4, <4>1, <4>2
    <3>3. CASE ~(j < k)
      <4>1. j >= k
        BY <1>1, <2>12, <3>3
      <4> QED  BY <3>1, <4>1
    <3> QED  BY <3>2, <3>3
  <2>5. ASSUME k \in 1 .. m
        PROVE  \E j \in 1 .. n : j >= k /\ t[k] = s[j]
    <3>1. PICK j \in 1 .. n : s[j] = t[k]
      BY <1>9, <2>5
    <3>2. CASE j < k
      <4>3. j \in 1 .. k - 1
        BY <1>1, <2>12, <3>2
      <4>1. t[j] = t[k] /\ j \in 1 .. m
        BY <2>3, <3>1, <4>3
      <4>2. Precedes(PriceKey(t[j]), PriceKey(t[k]))
        BY <1>1, <2>5, <3>2, <4>1 DEF InPriceOrder
      <4> QED  BY <1>1, <1>2, <2>5, <4>1, <4>2
    <3>3. CASE ~(j < k)
      <4>1. j >= k
        BY <1>1, <2>12, <3>3
      <4> QED  BY <3>1, <4>1
    <3> QED  BY <3>2, <3>3
  <2>6. k \in 1 .. n /\ k \in 1 .. m /\ s[k] # t[k]
    <3>2. k \in 1 .. n => k \in 1 .. m
      BY <1>1, <2>3, <2>4
    <3>3. k \in 1 .. m => k \in 1 .. n
      BY <1>1, <2>3, <2>5
    <3> QED  BY <2>11, <3>2, <3>3
  <2>7. PICK j \in 1 .. m : j >= k /\ s[k] = t[j]
    BY <2>4, <2>6
  <2>8. PICK i \in 1 .. n : i >= k /\ t[k] = s[i]
    BY <2>5, <2>6
  <2>9. k < j /\ k < i
    BY <1>1, <2>3, <2>6, <2>7, <2>8
  <2>10. Precedes(PriceKey(t[k]), PriceKey(s[k])) /\ Precedes(PriceKey(s[k]), PriceKey(t[k]))
    BY <1>1, <2>6, <2>7, <2>8, <2>9 DEF InPriceOrder
  <2> QED  BY <1>1, <1>2, <2>6, <2>10
<1> QED  BY <1>3, <1>4

\* Evidence in another order is the same evidence.
LEMMA Rearranged ==
    ASSUME NEW e, SoundOffers(e), NEW p \in Bijection(DOMAIN e, DOMAIN e)
    PROVE  LET t == [i \in DOMAIN e |-> e[p[i]]]
           IN  SoundOffers(t) /\ Elements(t) = Elements(e)
<1> DEFINE t == [i \in DOMAIN e |-> e[p[i]]]
           n == Len(e)
<1>1. n \in Nat /\ DOMAIN e = 1 .. n /\ e \in [1 .. n -> Offers]
  BY DEF SoundOffers
<1>2. /\ p \in [1 .. n -> 1 .. n] /\ (\A w \in 1 .. n : \E v \in 1 .. n : p[v] = w)
      /\ \A i, j \in 1 .. n : p[i] = p[j] => i = j
  BY <1>1 DEF Bijection, Injection, Surjection, IsInjective
<1> HIDE DEF n
<1>4. DOMAIN t = 1 .. n /\ \A i \in 1 .. n : p[i] \in 1 .. n /\ t[i] = e[p[i]]
  BY <1>1, <1>2
<1>5. t \in Seq(Offers)
  <2>1. t \in [1 .. n -> Offers]
    BY <1>1, <1>2
  <2> QED  BY <1>1, <2>1
<1> HIDE DEF t
<1>6. (\A i \in DOMAIN t : Sound(t[i])) /\ DistinctIds(t)
  <2>1. \A i \in 1 .. n : Sound(e[i])
    BY <1>1 DEF SoundOffers
  <2>2. \A i, j \in 1 .. n : e[i].id = e[j].id => i = j
    BY <1>1 DEF SoundOffers, DistinctIds
  <2>3. \A i, j \in 1 .. n : t[i].id = t[j].id => p[i] = p[j]
    BY <1>4, <2>2
  <2>4. \A i \in 1 .. n : Sound(t[i])
    BY <1>4, <2>1
  <2>5. \A i, j \in 1 .. n : t[i].id = t[j].id => i = j
    BY <1>2, <2>3
  <2> QED  BY <1>4, <2>4, <2>5 DEF DistinctIds
<1>7. Elements(t) = Elements(e)
  <2>1. \A i \in 1 .. n : t[i] \in Elements(e)
    BY <1>1, <1>4 DEF Elements
  <2>2. \A i \in 1 .. n : e[i] \in Elements(t)
    BY <1>2, <1>4 DEF Elements
  <2> QED  BY <1>1, <1>4, <2>1, <2>2 DEF Elements
<1> QED  BY <1>5, <1>6, <1>7 DEF SoundOffers, t

\* The costs of the offers, in their order, do not depend on the order of the evidence.
LEMMA CostsDisregardOrder ==
    ASSUME NEW e, SoundOffers(e), NEW p \in Bijection(DOMAIN e, DOMAIN e), NEW limit
    PROVE  CostedOffers([i \in DOMAIN e |-> e[p[i]]], limit) = CostedOffers(e, limit)
<1> DEFINE t == [i \in DOMAIN e |-> e[p[i]]]
<1>1. SoundOffers(t) /\ Elements(t) = Elements(e)
  BY Rearranged
<1> HIDE DEF t
<1>2. /\ SoundOffers(Priced(t)) /\ InPriceOrder(Priced(t))
      /\ SoundOffers(Priced(e)) /\ InPriceOrder(Priced(e))
      /\ Elements(Priced(t)) = Elements(Priced(e))
  BY <1>1, PricedFacts
<1>3. Priced(t) = Priced(e)
  BY <1>2, SameOrder
<1> QED  BY <1>3 DEF CostedOffers, Compared, t

\* What every node of the graph can rely on: which evidence it has, that prices could be
\* compared, and that costs, decision and answer are those the tools compute from it. It is
\* inductive because each node computes from what the one before it stored.
OfferInv ==
    /\ step \in {"customs", "price_compare", "shipping_calc", "item_picker",
                "shopping_summary", "done", "failed"}
    /\ task.offers \in OfferInputs /\ task.plan \in Plans /\ task.remembered \in RememberedChoices
    /\ step \notin {"customs", "failed"} => SoundOffers(evidence) /\ evidence # <<>>
    /\ step \in {"shipping_calc", "item_picker", "shopping_summary", "done"} =>
          ~NoExchangeRates(evidence)
    /\ step \in {"item_picker", "shopping_summary", "done"} =>
          costs = CostedOffers(evidence, CompareLimit)
    /\ step \in {"shopping_summary", "done"} =>
          \E semantic \in ScoreChoices(costs) :
              picks = Decision(costs, task.plan, task.remembered, semantic)
    /\ step = "done" => answer = Answer(picks, PriceExclusions(evidence) # <<>>)

\* Evidence that is enriched offer by offer stays a sound list.
LEMMA EnrichedList ==
    ASSUME NEW s, SoundOffers(s), NEW t, DOMAIN t = DOMAIN s,
           t = [i \in DOMAIN t |-> t[i]],
           \A i \in DOMAIN s : Sound(t[i]) /\ t[i].id = s[i].id
    PROVE  SoundOffers(t)
<1>1. \A i \in DOMAIN t : t[i] \in Offers
  BY DEF Sound
<1>2. PICK n \in Nat : DOMAIN s = 1 .. n
  BY DEF SoundOffers
<1>3. t \in [1 .. n -> Offers]
  BY <1>1, <1>2
<1>4. t \in Seq(Offers)
  BY <1>3
<1>5. DistinctIds(t)
  BY DEF SoundOffers, DistinctIds
<1> QED  BY <1>4, <1>5 DEF SoundOffers

\* The invariant holds from the search's evidence to the answer, a failing node included.
LEMMA OfferInvariant == OfferSpec => []OfferInv
<1>1. OfferInit => OfferInv
  <2> SUFFICES ASSUME OfferInit PROVE OfferInv
    OBVIOUS
  <2>1. task.offers \in OfferInputs /\ task.plan \in Plans /\ task.remembered \in RememberedChoices
    BY DEF OfferInit
  <2> QED  BY <2>1 DEF OfferInit, OfferInv
<1>2. OfferInv /\ [OfferNext]_offerVars => OfferInv'
  <2> SUFFICES ASSUME OfferInv, [OfferNext]_offerVars PROVE OfferInv'
    OBVIOUS
  <2>1. CASE AddCustoms
    <3>1. CASE Fails
      BY <3>1 DEF Fails, OfferInv
    <3>2. CASE \E official \in OfficialRates \cup {NoCustoms} :
                 /\ evidence' = [i \in DOMAIN task.offers |->
                                    IF i <= CustomsLimit
                                    THEN EnrichCustoms(task.offers[i], official)
                                    ELSE task.offers[i]]
                 /\ step' = "price_compare" /\ UNCHANGED <<task, costs, picks, answer>>
      <4>1. PICK official \in OfficialRates \cup {NoCustoms} :
                 /\ evidence' = [i \in DOMAIN task.offers |->
                                    IF i <= CustomsLimit
                                    THEN EnrichCustoms(task.offers[i], official)
                                    ELSE task.offers[i]]
                 /\ step' = "price_compare" /\ UNCHANGED <<task, costs, picks, answer>>
        BY <3>2
      <4>2. task.offers \in Seq(Offers) /\ SoundOffers(task.offers) /\ task.offers # <<>>
        BY OfferAssumption DEF OfferInv, SoundOffers, Sound, DistinctIds
      <4>3. official \in CustomsEvidence \cup {NoCustoms}
        BY OfferAssumption
      <4>4. \A i \in DOMAIN task.offers : Sound(evidence'[i]) /\ evidence'[i].id = task.offers[i].id
        BY <4>1, <4>2, <4>3, EnrichedOffers DEF SoundOffers
      <4>5. /\ DOMAIN evidence' = DOMAIN task.offers
            /\ evidence' = [i \in DOMAIN evidence' |-> evidence'[i]]
        BY <4>1
      <4>6. SoundOffers(evidence')
        BY <4>2, <4>4, <4>5, EnrichedList
      <4>7. evidence' # <<>>
        BY <4>2, <4>5
      <4> QED  BY <4>1, <4>6, <4>7 DEF OfferInv
    <3> QED  BY <2>1, <3>1, <3>2 DEF AddCustoms
  <2>2. CASE ComparePrices
    <3>1. PICK available \in BOOLEAN :
              LET offers == [i \in DOMAIN evidence |-> EnrichConversion(evidence[i], available)]
              IN  \/ /\ ~NoExchangeRates(offers)
                     /\ evidence' = offers /\ step' = "shipping_calc"
                     /\ UNCHANGED <<task, costs, picks, answer>>
                  \/ NoExchangeRates(offers) /\ Fails
      BY <2>2 DEF ComparePrices
    <3>2. CASE Fails
      BY <3>2 DEF Fails, OfferInv
    <3>3. CASE ~Fails
      <4>1. /\ evidence' = [i \in DOMAIN evidence |-> EnrichConversion(evidence[i], available)]
            /\ ~NoExchangeRates(evidence') /\ step' = "shipping_calc"
            /\ UNCHANGED <<task, costs, picks, answer>>
        BY <3>1, <3>3
      <4>2. SoundOffers(evidence) /\ evidence # <<>>
        BY <2>2 DEF ComparePrices, OfferInv
      <4>3. \A i \in DOMAIN evidence : Sound(evidence'[i]) /\ evidence'[i].id = evidence[i].id
        BY <4>1, <4>2, EnrichedOffers DEF SoundOffers
      <4>4. /\ DOMAIN evidence' = DOMAIN evidence
            /\ evidence' = [i \in DOMAIN evidence' |-> evidence'[i]]
        BY <4>1
      <4>5. SoundOffers(evidence')
        BY <4>2, <4>3, <4>4, EnrichedList
      <4>6. evidence' # <<>>
        BY <4>2, <4>4 DEF SoundOffers
      <4> QED  BY <4>1, <4>5, <4>6 DEF OfferInv
    <3> QED  BY <3>2, <3>3
  <2>3. CASE CalculateCosts
    BY <2>3 DEF CalculateCosts, OfferInv
  <2>4. CASE PickItems
    BY <2>4 DEF PickItems, OfferInv
  <2>5. CASE Summarize
    BY <2>5 DEF Summarize, OfferInv
  <2>6. CASE UNCHANGED offerVars
    BY <2>6 DEF offerVars, OfferInv
  <2> QED  BY <2>1, <2>2, <2>3, <2>4, <2>5, <2>6 DEF OfferNext
<1> QED  BY <1>1, <1>2, PTL DEF OfferSpec

\* Whatever order the marketplaces answer in, the same evidence gets the same costs in the same
\* order, and with that the same decision (price_compare, shipping_calc).
THEOREM OrderNeverMatters == OfferSpec => []OrderIndependent
<1>1. OfferInv => OrderIndependent
  <2> SUFFICES ASSUME OfferInv, step = "item_picker",
                      NEW p \in Bijection(DOMAIN evidence, DOMAIN evidence)
               PROVE  CostedOffers([i \in DOMAIN evidence |-> evidence[p[i]]], CompareLimit) = costs
    BY DEF OrderIndependent
  <2> QED  BY CostsDisregardOrder DEF OfferInv
<1> QED  BY <1>1, OfferInvariant, PTL

-----------------------------------------------------------------------------
(* Costs *)

\* The first n elements of a list.
LEMMA TakenFacts ==
    ASSUME NEW S, NEW s \in Seq(S), NEW n \in Nat
    PROVE  /\ DOMAIN Take(s, n) = 1 .. (IF Len(s) < n THEN Len(s) ELSE n)
           /\ Take(s, n) \in Seq(S)
           /\ Len(Take(s, n)) = IF Len(s) < n THEN Len(s) ELSE n
           /\ \A k \in DOMAIN Take(s, n) : k \in DOMAIN s /\ Take(s, n)[k] = s[k]
           /\ Len(s) <= n => Take(s, n) = s
BY DEF Take

\* An offer with its landed cost and its time of arrival.
Costed(c) == Sound(c.offer) /\ c.landed \in Int /\ c.eta \in Int
\* A list of costs of different offers.
SoundItems(s) ==
    /\ s \in Seq(Elements(s)) /\ \A c \in Elements(s) : Costed(c)
    /\ \A i, j \in DOMAIN s : s[i].offer.id = s[j].offer.id => i = j

\* Choosing or reordering costs of a sound list gives a sound list.
LEMMA ArrangedItems ==
    ASSUME NEW s, SoundItems(s), NEW P, P \subseteq DOMAIN s, NEW t, NEW pos,
           Arranges(t, s, P, pos)
    PROVE  SoundItems(t) /\ Elements(t) = {s[i] : i \in P}
<1>1. \A k \in DOMAIN t : pos[k] \in P /\ t[k] = s[pos[k]]
  BY DEF Arranges
<1>3. t \in Seq(Elements(t)) /\ Elements(t) = {s[i] : i \in P}
  BY ArrangedFacts
<1>4. Elements(t) \subseteq Elements(s)
  BY <1>3 DEF Elements
<1>6. \A k, l \in DOMAIN t : t[k].offer.id = t[l].offer.id => k = l
  BY <1>1 DEF SoundItems, Arranges
<1> QED  BY <1>3, <1>4, <1>6 DEF SoundItems

\* Filtering costs keeps exactly the chosen ones.
LEMMA ItemsAtPositions ==
    ASSUME NEW s, SoundItems(s), NEW P \in SUBSET DOMAIN s
    PROVE  /\ SoundItems(AtPositions(s, P)) /\ Elements(AtPositions(s, P)) = {s[i] : i \in P}
           /\ IsFiniteSet(P) /\ Len(AtPositions(s, P)) = Cardinality(P)
<1>1. P \in SUBSET Int /\ IsFiniteSet(P)
  BY KeptAreFinite DEF SoundItems
<1>2. PICK pos : Arranges(AtPositions(s, P), s, P, pos)
  BY <1>1, AtPositionsArranges
<1> QED  BY <1>1, <1>2, ArrangedItems, ArrangedFacts

\* Sorting costs neither loses nor repeats one.
LEMMA ItemsSorted ==
    ASSUME NEW s, SoundItems(s), NEW m \in Nat, NEW keys \in [DOMAIN s -> [1 .. m -> Int]]
    PROVE  /\ SoundItems(Sorted(s, keys)) /\ Elements(Sorted(s, keys)) = Elements(s)
           /\ Len(Sorted(s, keys)) = Len(s)
<1> DEFINE n == Len(s)
<1>1. n \in Nat /\ DOMAIN s = 1 .. n
  BY DEF SoundItems
<1> HIDE DEF n
<1>2. PICK pos : Arranges(Sorted(s, keys), s, 1 .. n, pos)
  BY <1>1, SortedArranges
<1>3. SoundItems(Sorted(s, keys)) /\ Elements(Sorted(s, keys)) = {s[i] : i \in 1 .. n}
  BY <1>1, <1>2, ArrangedItems
<1>4. Len(Sorted(s, keys)) = n
  <2>1. Cardinality(1 .. n) = n
    BY <1>1, FS_Interval
  <2> QED  BY <1>2, <2>1, ArrangedFacts
<1> QED  BY <1>1, <1>3, <1>4 DEF Elements, n

\* Two lists of costs of different offers, one after the other.
LEMMA ItemsJoined ==
    ASSUME NEW s, NEW t, SoundItems(s), SoundItems(t), Ids(s) \cap Ids(t) = {}
    PROVE  SoundItems(s \o t) /\ Elements(s \o t) = Elements(s) \cup Elements(t)
<1> DEFINE n == Len(s)
           m == Len(t)
           u == s \o t
<1>1. /\ n \in Nat /\ m \in Nat /\ DOMAIN s = 1 .. n /\ DOMAIN t = 1 .. m
      /\ s \in Seq(Elements(s)) /\ t \in Seq(Elements(t))
  BY DEF SoundItems
<1>2. /\ DOMAIN u = 1 .. n + m /\ u \in Seq(Elements(s) \cup Elements(t))
      /\ \A i \in 1 .. n : u[i] = s[i]
      /\ \A i \in n + 1 .. n + m : u[i] = t[i - n]
  <2>1. s \in Seq(Elements(s) \cup Elements(t)) /\ t \in Seq(Elements(s) \cup Elements(t))
    BY <1>1
  <2> QED  BY <1>1, <2>1
<1> HIDE DEF u, n, m
<1>3. Elements(u) = Elements(s) \cup Elements(t)
  <2>1. ASSUME NEW i \in 1 .. n + m PROVE u[i] \in Elements(s) \cup Elements(t)
    <3>1. i \in 1 .. n \/ (i \in n + 1 .. n + m /\ i - n \in 1 .. m)
      BY <1>1
    <3> QED  BY <1>1, <1>2, <3>1 DEF Elements
  <2>2. ASSUME NEW i \in 1 .. n PROVE s[i] \in Elements(u)
    <3>1. i \in 1 .. n + m
      BY <1>1
    <3>2. u[i] = s[i]
      BY <1>2
    <3> QED  BY <1>2, <3>1, <3>2 DEF Elements
  <2>3. ASSUME NEW i \in 1 .. m PROVE t[i] \in Elements(u)
    <3>1. \E j \in n + 1 .. n + m : j - n = i /\ j \in 1 .. n + m
      <4>1. i + n \in n + 1 .. n + m /\ i + n - n = i /\ i + n \in 1 .. n + m
        BY <1>1
      <4>2. n \in Int /\ m \in Int /\ i \in Int
        BY <1>1
      <4> QED  BY <4>1, <4>2
    <3>2. PICK j \in n + 1 .. n + m : j - n = i /\ j \in 1 .. n + m
      BY <3>1
    <3> QED  BY <1>2, <3>2 DEF Elements
  <2>4. Elements(u) \subseteq Elements(s) \cup Elements(t)
    BY <1>2, <2>1 DEF Elements
  <2>5. Elements(s) \subseteq Elements(u) /\ Elements(t) \subseteq Elements(u)
    <3>1. Elements(s) \subseteq Elements(u)
      BY <1>1, <2>2 DEF Elements
    <3>2. Elements(t) \subseteq Elements(u)
      BY <1>1, <2>3 DEF Elements
    <3> QED  BY <3>1, <3>2
  <2> QED  BY <2>4, <2>5
<1>4. u \in Seq(Elements(u))
  BY <1>2, <1>3
<1>5. ASSUME NEW i \in 1 .. n + m, NEW j \in 1 .. n + m, u[i].offer.id = u[j].offer.id
      PROVE  i = j
  <2>1. \A k \in 1 .. n : s[k].offer.id \in Ids(s)
    BY <1>1 DEF Ids, Elements
  <2>2. \A k \in 1 .. m : t[k].offer.id \in Ids(t)
    BY <1>1 DEF Ids, Elements
  <2>3. \A k \in 1 .. n + m : k \in 1 .. n \/ (k \in n + 1 .. n + m /\ k - n \in 1 .. m)
    BY <1>1
  <2>4. CASE i \in 1 .. n /\ j \in 1 .. n
    BY <1>1, <1>2, <1>5, <2>4 DEF SoundItems
  <2>5. CASE i \in 1 .. n /\ j \in n + 1 .. n + m /\ j - n \in 1 .. m
    BY <1>2, <1>5, <2>1, <2>2, <2>5
  <2>6. CASE j \in 1 .. n /\ i \in n + 1 .. n + m /\ i - n \in 1 .. m
    BY <1>2, <1>5, <2>1, <2>2, <2>6
  <2>7. CASE /\ i \in n + 1 .. n + m /\ i - n \in 1 .. m
             /\ j \in n + 1 .. n + m /\ j - n \in 1 .. m
    <3>1. t[i - n].offer.id = t[j - n].offer.id
      BY <1>2, <1>5, <2>7
    <3>2. i - n = j - n
      BY <1>1, <2>7, <3>1 DEF SoundItems
    <3> QED  BY <1>1, <3>2
  <2> QED  BY <2>3, <2>4, <2>5, <2>6, <2>7
<1>6. \A c \in Elements(u) : Costed(c)
  BY <1>3 DEF SoundItems
<1> QED  BY <1>2, <1>3, <1>4, <1>5, <1>6 DEF SoundItems, u

\* Filtering offers keeps exactly the chosen ones.
LEMMA OffersAtPositions ==
    ASSUME NEW s, SoundOffers(s), NEW P \in SUBSET DOMAIN s
    PROVE  SoundOffers(AtPositions(s, P)) /\ Elements(AtPositions(s, P)) = {s[i] : i \in P}
<1>1. P \in SUBSET Int /\ IsFiniteSet(P)
  BY KeptAreFinite DEF SoundOffers
<1>2. PICK pos : Arranges(AtPositions(s, P), s, P, pos)
  BY <1>1, AtPositionsArranges
<1> QED  BY <1>2, ArrangedOffers, ArrangedFacts

\* What is left for costing: comparable offers, and none only if none is comparable.
LEMMA ComparedFacts ==
    ASSUME NEW e, SoundOffers(e), NEW limit \in Nat \ {0}
    PROVE  /\ SoundOffers(Compared(e, limit))
           /\ \A o \in Elements(Compared(e, limit)) : Sound(o) /\ PriceVerdict(o) = "ok"
           /\ Compared(e, limit) = <<>> <=> \A o \in Elements(e) : PriceVerdict(o) # "ok"
           /\ Len(Compared(e, limit)) <= limit
<1> DEFINE p == Priced(e)
           r == Compared(e, limit)
<1>1. SoundOffers(p) /\ Elements(p) = {o \in Elements(e) : PriceVerdict(o) = "ok"}
  BY PricedFacts
<1> HIDE DEF p
<1>2. /\ r \in Seq(Offers) /\ Len(r) = (IF Len(p) < limit THEN Len(p) ELSE limit)
      /\ \A k \in DOMAIN r : k \in DOMAIN p /\ r[k] = p[k]
  BY <1>1, TakenFacts DEF Compared, SoundOffers, p
<1> HIDE DEF r
<1>3. SoundOffers(r)
  <2>1. \A k \in DOMAIN r : Sound(r[k])
    BY <1>1, <1>2 DEF SoundOffers
  <2>2. DistinctIds(r)
    BY <1>1, <1>2 DEF SoundOffers, DistinctIds
  <2> QED  BY <1>2, <2>1, <2>2 DEF SoundOffers
<1>4. Elements(r) \subseteq Elements(p)
  BY <1>2 DEF Elements
<1>5. \A o \in Elements(r) : Sound(o) /\ PriceVerdict(o) = "ok"
  BY <1>1, <1>3, <1>4 DEF SoundOffers, Elements
<1>6. r = <<>> <=> p = <<>>
  BY <1>1, <1>2 DEF SoundOffers
<1>7. p = <<>> <=> Elements(p) = {}
  BY <1>1 DEF SoundOffers, Elements
<1>8. Len(r) <= limit
  <2>1. Len(p) \in Nat
    BY <1>1 DEF SoundOffers
  <2> QED  BY <1>2, <2>1
<1> QED  BY <1>1, <1>3, <1>5, <1>6, <1>7, <1>8 DEF r

\* Both kinds of cost, exact and of the price alone, are costs of the offer they are made from.
LEMMA LandedItem ==
    ASSUME NEW o, Sound(o), PriceVerdict(o) = "ok"
    PROVE  /\ Gap(o) = "none" => Costed(LandedCost(o))
           /\ \A gaps : Costed(PriceOnly(o, gaps))
           /\ LandedCost(o).offer = o /\ \A gaps : PriceOnly(o, gaps).offer = o
<1>1. PriceCny(o) \in Nat /\ o.eta \in Int
  BY PriceKeyTyped DEF Sound, Offers
<1>2. ASSUME Gap(o) = "none" PROVE Costed(LandedCost(o))
  <2>1. o.customs \in CustomsEvidence
    BY <1>2 DEF Gap, TaxVerdict, Sound, Offers
  <2>2. o.customs.insurance \in Int /\ Freight(o) \in Nat
    BY <2>1 DEF CustomsEvidence, Freight, Sound, Offers, RateToCny
  <2>3. ImportTax(o.customs, PriceCny(o), Freight(o)) \in Int
    BY <1>1, <2>1, <2>2, TaxTyped
  <2>4. PriceCny(o) + Freight(o) + o.customs.insurance
          + ImportTax(o.customs, PriceCny(o), Freight(o)) \in Int
    BY <1>1, <2>2, <2>3
  <2> QED  BY <1>1, <2>4 DEF LandedCost, Costed
<1>3. \A gaps : Costed(PriceOnly(o, gaps))
  BY <1>1 DEF PriceOnly, Costed
<1> QED  BY <1>2, <1>3 DEF LandedCost, PriceOnly

\* Exact costs are those of the offers without a gap in their evidence.
LEMMA LandedCostsFacts ==
    ASSUME NEW r, SoundOffers(r), \A o \in Elements(r) : Sound(o) /\ PriceVerdict(o) = "ok"
    PROVE  /\ SoundItems(LandedCosts(r))
           /\ Ids(LandedCosts(r)) = {o.id : o \in {p \in Elements(r) : Gap(p) = "none"}}
<1> DEFINE P == {i \in DOMAIN r : Gap(r[i]) = "none"}
           complete == AtPositions(r, P)
           c == [i \in DOMAIN complete |-> LandedCost(complete[i])]
           keys == [i \in DOMAIN c |-> LandedKey(c[i])]
<1>1. SoundOffers(complete) /\ Elements(complete) = {r[i] : i \in P}
  BY OffersAtPositions
<1>2. LandedCosts(r) = Sorted(c, keys)
  BY DEF LandedCosts, SortBy, Keep
<1>3. Elements(complete) = {o \in Elements(r) : Gap(o) = "none"}
  BY <1>1 DEF Elements
<1> HIDE DEF complete
<1>4. \A i \in DOMAIN complete : /\ Costed(LandedCost(complete[i]))
                                 /\ LandedCost(complete[i]).offer = complete[i]
  <2>1. \A i \in DOMAIN complete : complete[i] \in Elements(complete)
    BY DEF Elements
  <2> QED  BY <1>3, <2>1, LandedItem
<1>5. DOMAIN c = DOMAIN complete /\ \A i \in DOMAIN c : Costed(c[i]) /\ c[i].offer = complete[i]
  BY <1>4
<1>6. c \in Seq(Elements(c))
  <2>1. PICK n \in Nat : DOMAIN complete = 1 .. n
    BY <1>1 DEF SoundOffers
  <2>2. c \in [1 .. n -> Elements(c)]
    BY <2>1 DEF Elements
  <2> QED  BY <2>1, <2>2
<1> HIDE DEF c
<1>7. SoundItems(c)
  <2>1. \A i, j \in DOMAIN c : c[i].offer.id = c[j].offer.id => i = j
    BY <1>1, <1>5 DEF SoundOffers, DistinctIds
  <2> QED  BY <1>5, <1>6, <2>1 DEF SoundItems, Elements
<1>8. keys \in [DOMAIN c -> [1 .. 3 -> Int]]
  <2>1. ASSUME NEW i \in DOMAIN c PROVE LandedKey(c[i]) \in [1 .. 3 -> Int]
    <3>1. c[i].landed \in Int /\ c[i].offer.platform \in Int /\ c[i].offer.id \in Int
      BY <1>5 DEF Costed, Sound, Offers
    <3> QED  BY <3>1 DEF LandedKey
  <2> QED  BY <2>1
<1> HIDE DEF keys
<1>9. SoundItems(Sorted(c, keys)) /\ Elements(Sorted(c, keys)) = Elements(c)
  BY <1>7, <1>8, ItemsSorted
<1>10. Ids(Sorted(c, keys)) = {o.id : o \in Elements(complete)}
  <2>1. Ids(Sorted(c, keys)) = Ids(c)
    BY <1>9 DEF Ids
  <2>2. Ids(c) = {o.id : o \in Elements(complete)}
    BY <1>5 DEF Ids, Elements
  <2> QED  BY <2>1, <2>2
<1> QED  BY <1>2, <1>3, <1>9, <1>10

\* Provisional costs are those of the offers with such a gap, each once.
LEMMA ProvisionalFacts ==
    ASSUME NEW r, SoundOffers(r), \A o \in Elements(r) : Sound(o) /\ PriceVerdict(o) = "ok"
    PROVE  /\ SoundItems(Provisional(r))
           /\ Ids(Provisional(r)) = {o.id : o \in {p \in Elements(r) : Gap(p) # "none"}}
<1> DEFINE done == {o.id : o \in {p \in Elements(r) : Gap(p) = "none"}}
           P == {i \in DOMAIN r : r[i].id \notin done /\ GapsOfId(r, r[i].id) # {}}
           kept == AtPositions(r, P)
           c == [i \in DOMAIN kept |-> PriceOnly(kept[i], GapsOfId(r, kept[i].id))]
<1>1. SoundOffers(kept) /\ Elements(kept) = {r[i] : i \in P}
  BY OffersAtPositions
<1>2. Provisional(r) = c
  BY DEF Provisional, Keep
<1>3. Elements(kept) = {o \in Elements(r) : Gap(o) # "none"}
  <2>1. \A p, q \in Elements(r) : p.id = q.id => p = q
    BY DEF SoundOffers, DistinctIds, Elements
  <2>2. \A o \in Elements(r) : o.id \notin done /\ GapsOfId(r, o.id) # {} <=> Gap(o) # "none"
    BY <2>1 DEF GapsOfId
  <2>3. \A i \in DOMAIN r : r[i] \in Elements(r)
    BY DEF Elements
  <2>4. P = {i \in DOMAIN r : Gap(r[i]) # "none"}
    BY <2>2, <2>3
  <2> QED  BY <1>1, <2>4 DEF Elements
<1> HIDE DEF kept
<1>4. \A i \in DOMAIN kept : \A gaps : /\ Costed(PriceOnly(kept[i], gaps))
                                       /\ PriceOnly(kept[i], gaps).offer = kept[i]
  <2>1. \A i \in DOMAIN kept : kept[i] \in Elements(kept)
    BY DEF Elements
  <2> QED  BY <1>3, <2>1, LandedItem
<1>5. DOMAIN c = DOMAIN kept /\ \A i \in DOMAIN c : Costed(c[i]) /\ c[i].offer = kept[i]
  BY <1>4
<1>6. c \in Seq(Elements(c))
  <2>1. PICK n \in Nat : DOMAIN kept = 1 .. n
    BY <1>1 DEF SoundOffers
  <2>2. c \in [1 .. n -> Elements(c)]
    BY <2>1 DEF Elements
  <2> QED  BY <2>1, <2>2
<1> HIDE DEF c
<1>7. SoundItems(c)
  <2>1. \A i, j \in DOMAIN c : c[i].offer.id = c[j].offer.id => i = j
    BY <1>1, <1>5 DEF SoundOffers, DistinctIds
  <2> QED  BY <1>5, <1>6, <2>1 DEF SoundItems, Elements
<1>8. Ids(c) = {o.id : o \in Elements(kept)}
  BY <1>5 DEF Ids, Elements
<1> QED  BY <1>2, <1>3, <1>7, <1>8

\* Every compared offer has one cost, exact or provisional, and nothing else has.
LEMMA CostedFacts ==
    ASSUME NEW e, SoundOffers(e), NEW limit \in Nat \ {0}
    PROVE  /\ SoundItems(CostedOffers(e, limit))
           /\ Ids(CostedOffers(e, limit)) = {o.id : o \in Elements(Compared(e, limit))}
<1> DEFINE r == Compared(e, limit)
<1>1. SoundOffers(r) /\ \A o \in Elements(r) : Sound(o) /\ PriceVerdict(o) = "ok"
  BY ComparedFacts
<1>2. CostedOffers(e, limit) = LandedCosts(r) \o Provisional(r)
  BY DEF CostedOffers
<1> HIDE DEF r
<1>3. /\ SoundItems(LandedCosts(r)) /\ SoundItems(Provisional(r))
      /\ Ids(LandedCosts(r)) = {o.id : o \in {p \in Elements(r) : Gap(p) = "none"}}
      /\ Ids(Provisional(r)) = {o.id : o \in {p \in Elements(r) : Gap(p) # "none"}}
  BY <1>1, LandedCostsFacts, ProvisionalFacts
<1>4. Ids(LandedCosts(r)) \cap Ids(Provisional(r)) = {}
  <2>1. \A p, q \in Elements(r) : p.id = q.id => p = q
    BY <1>1 DEF SoundOffers, DistinctIds, Elements
  <2> QED  BY <1>3, <2>1
<1>5. /\ SoundItems(LandedCosts(r) \o Provisional(r))
      /\ Elements(LandedCosts(r) \o Provisional(r))
           = Elements(LandedCosts(r)) \cup Elements(Provisional(r))
  BY <1>3, <1>4, ItemsJoined
<1>6. Ids(LandedCosts(r) \o Provisional(r)) = Ids(LandedCosts(r)) \cup Ids(Provisional(r))
  BY <1>5 DEF Ids
<1>7. Ids(LandedCosts(r)) \cup Ids(Provisional(r)) = {o.id : o \in Elements(r)}
  BY <1>3
<1> QED  BY <1>2, <1>5, <1>6, <1>7 DEF r

-----------------------------------------------------------------------------
(* The matching offers *)

\* The length and the elements of two sequences of numbers, one after the other.
LEMMA Joined ==
    ASSUME NEW s \in Seq(Int), NEW t \in Seq(Int)
    PROVE  /\ s \o t \in Seq(Int) /\ Len(s \o t) = Len(s) + Len(t)
           /\ \A k \in 1 .. Len(t) : (s \o t)[Len(s) + k] = t[k]
OBVIOUS

\* What a function with a finite domain returns is a finite set.
LEMMA ImageIsFinite ==
    ASSUME NEW S, IsFiniteSet(S), NEW f, DOMAIN f = S
    PROVE  IsFiniteSet({f[x] : x \in S})
<1> DEFINE T == {f[x] : x \in S}
           g == [x \in S |-> f[x]]
<1>1. g \in Surjection(S, T)
  BY DEF Surjection
<1> HIDE DEF T
<1> QED  BY <1>1, FS_Surjection DEF T

\* An offer states finitely many facts of its identity.
LEMMA FactsAreFinite ==
    ASSUME NEW o, Sound(o)
    PROVE  IsFiniteSet(Keys(IdentityFacts(o)))
<1> DEFINE S == IdentityFacts(o)
           f == [x \in S |-> x[1]]
           stated == {x \in {<<"brand", o.brand>>, <<"model", o.model>>} : x[2] # Unstated}
<1>1. IsFiniteSet(VariantFacts(o))
  <2>1. VariantFacts(o) \in SUBSET (o.variant \cup o.attributes)
    BY DEF VariantFacts
  <2>2. IsFiniteSet(o.variant \cup o.attributes)
    BY FS_Union DEF Sound
  <2> QED  BY <2>1, <2>2, FS_Subset
<1>2. IsFiniteSet(stated)
  <2>1. stated \in SUBSET ({} \cup {<<"brand", o.brand>>} \cup {<<"model", o.model>>})
    OBVIOUS
  <2>2. IsFiniteSet({} \cup {<<"brand", o.brand>>})
    BY FS_EmptySet, FS_AddElement
  <2>3. IsFiniteSet({} \cup {<<"brand", o.brand>>} \cup {<<"model", o.model>>})
    BY <2>2, FS_AddElement
  <2> QED  BY <2>1, <2>3, FS_Subset
<1>3. S = VariantFacts(o) \cup stated
  BY DEF IdentityFacts
<1> HIDE DEF stated
<1>4. IsFiniteSet(S)
  BY <1>1, <1>2, <1>3, FS_Union
<1> HIDE DEF S
<1>5. DOMAIN f = S /\ Keys(S) = {f[x] : x \in S}
  BY DEF Keys
<1> HIDE DEF f
<1>6. IsFiniteSet(Keys(S))
  BY <1>4, <1>5, ImageIsFinite
<1> QED  BY <1>6 DEF S

\* The identity matcher finds a reference among the offers: one with the strongest facts, the
\* first of several (identity_matcher).
LEMMA ReferenceExists ==
    ASSUME NEW n \in Nat \ {0}, NEW offers, DOMAIN offers = 1 .. n,
           \A i \in 1 .. n : Sound(offers[i])
    PROVE  Reference(offers) \in 1 .. n
<1> DEFINE N == 1 .. n
           key == [i \in N |-> ReferenceKey(offers, i)]
           before == [i \in N |-> {j \in N : Precedes(key[i], key[j])}]
<1>1. IsFiniteSet(N) /\ Cardinality(N) = n
  BY FS_Interval
<1>2. ASSUME NEW i \in N
      PROVE  key[i] \in [1 .. 5 -> Int] /\ key[i][5] = -i
  <2>1. MatchesOf(offers, i) \in SUBSET N
    BY DEF MatchesOf
  <2>2. Cardinality(MatchesOf(offers, i)) \in Nat
    BY <1>1, <2>1, FS_Subset, FS_CardinalityType
  <2>3. Cardinality(Keys(IdentityFacts(offers[i]))) \in Nat
    BY FactsAreFinite, FS_CardinalityType
  <2>4. PICK a, b \in Int :
           Strength(offers[i]) = <<a, b, Cardinality(Keys(IdentityFacts(offers[i])))>>
    BY DEF Strength
  <2>5. -i \in Int
    OBVIOUS
  <2> DEFINE head == <<Cardinality(MatchesOf(offers, i))>>
             body == Strength(offers[i])
  <2>6. /\ head \in Seq(Int) /\ Len(head) = 1 /\ body \in Seq(Int) /\ Len(body) = 3
        /\ <<-i>> \in Seq(Int) /\ Len(<<-i>>) = 1 /\ <<-i>>[1] = -i
    BY <2>2, <2>3, <2>4, <2>5
  <2>7. key[i] = head \o body \o <<-i>>
    BY DEF ReferenceKey
  <2> HIDE DEF key, head, body
  <2>8. head \o body \in Seq(Int) /\ Len(head \o body) = 4
    <3>1. head \o body \in Seq(Int) /\ Len(head \o body) = Len(head) + Len(body)
      BY <2>6, Joined
    <3> QED  BY <2>6, <3>1
  <2>9. key[i] \in Seq(Int) /\ Len(key[i]) = 5 /\ key[i][4 + 1] = -i
    BY <2>6, <2>7, <2>8, Joined
  <2> QED  BY <2>9
<1> HIDE DEF N
<1>3. ASSUME NEW i \in N, NEW j \in N
      PROVE  Exceeds(ReferenceKey(offers, i), ReferenceKey(offers, j)) <=> Precedes(key[j], key[i])
  <2>1. key[i] = ReferenceKey(offers, i) /\ key[j] = ReferenceKey(offers, j)
    OBVIOUS
  <2> HIDE DEF key
  <2>2. key[i] \in [1 .. 5 -> Int] /\ key[j] \in [1 .. 5 -> Int]
    BY <1>2
  <2>3. Exceeds(key[i], key[j]) <=> Precedes(key[j], key[i])
    BY <2>2 DEF Exceeds, Precedes
  <2> QED  BY <2>1, <2>3
<1> HIDE DEF key
<1>4. Orders(N, before)
  <2>1. \A i, j \in N : i # j => key[i] # key[j]
    <3>1. \A i \in N : i \in Int
      BY DEF N
    <3> QED  BY <1>2, <3>1
  <2>2. \A i, j, k \in N :
            /\ ~Precedes(key[i], key[i])
            /\ Precedes(key[i], key[j]) /\ Precedes(key[j], key[k]) => Precedes(key[i], key[k])
            /\ key[i] # key[j] => Precedes(key[i], key[j]) \/ Precedes(key[j], key[i])
    <3>1. [i \in N |-> key[i]] \in [N -> [1 .. 5 -> Int]]
      BY <1>2
    <3>2. \A i \in N : [j \in N |-> key[j]][i] = key[i]
      OBVIOUS
    <3> DEFINE keys == [i \in N |-> key[i]]
    <3> HIDE DEF keys
    <3>3. KeysOrdered(N, keys)
      <4>1. keys \in [N -> [1 .. 5 -> Int]]
        BY <3>1 DEF keys
      <4> QED  BY <4>1, LexicographicKeys
    <3>4. \A i \in N : keys[i] = key[i]
      BY <3>2 DEF keys
    <3> QED  BY <3>3, <3>4 DEF KeysOrdered
  <2>3. \A i \in N : i \notin before[i]
    BY <2>2
  <2>4. \A i, j \in N : i # j => i \in before[j] \/ j \in before[i]
    BY <2>1, <2>2
  <2>5. \A i, j, k \in N : i \in before[j] /\ j \in before[k] => i \in before[k]
    BY <2>2
  <2>6. before \in [N -> SUBSET N]
    OBVIOUS
  <2> HIDE DEF before
  <2> QED  BY <2>3, <2>4, <2>5, <2>6 DEF Orders
<1>5. PICK r \in N : Rank(before, r) = 1
  <2> HIDE DEF before
  <2>1. 1 \in 1 .. Cardinality(N)
    BY <1>1
  <2> QED  BY <1>1, <1>4, <2>1, EveryRankTaken
<1>6. \A j \in N \ {r} : Precedes(key[j], key[r])
  <2> SUFFICES ASSUME NEW j \in N \ {r} PROVE Precedes(key[j], key[r])
    OBVIOUS
  <2>1. j \in before[r] \/ r \in before[j]
    BY <1>4 DEF Orders
  <2>2. CASE j \in before[r]
    <3> HIDE DEF before
    <3>1. Rank(before, j) < Rank(before, r) /\ Rank(before, j) \in 1 .. Cardinality(N)
      BY <1>1, <1>4, <2>2, RanksOrder
    <3> QED  BY <1>5, <3>1
  <2> QED  BY <2>1, <2>2
<1>7. \E i \in DOMAIN offers : \A j \in DOMAIN offers \ {i} :
          Exceeds(ReferenceKey(offers, i), ReferenceKey(offers, j))
  BY <1>3, <1>6 DEF N
<1> QED  BY <1>7 DEF Reference

\* The matching offers are some of the costed ones.
LEMMA MatchingIsChosen ==
    ASSUME NEW items, SoundItems(items), NEW plan
    PROVE  MatchingPositions(items, plan) \in SUBSET DOMAIN items
<1> DEFINE offers == [i \in DOMAIN items |-> items[i].offer]
<1>1. PICK n \in Nat : DOMAIN items = 1 .. n
  BY DEF SoundItems
<1>2. DOMAIN offers = 1 .. n /\ \A i \in 1 .. n : Sound(offers[i])
  BY <1>1 DEF SoundItems, Costed, Elements
<1> HIDE DEF offers
<1>3. MatchingGroup(offers) \in SUBSET (1 .. n)
  <2>1. CASE n = 0
    <3>1. \A i : MatchesOf(offers, i) = {}
      BY <1>2, <2>1 DEF MatchesOf
    <3> QED  BY <3>1 DEF MatchingGroup
  <2>2. CASE n # 0
    <3>1. Reference(offers) \in 1 .. n
      BY <1>2, <2>2, ReferenceExists
    <3>2. MatchesOf(offers, Reference(offers)) \in SUBSET (1 .. n)
      BY <1>2 DEF MatchesOf
    <3> QED  BY <3>1, <3>2 DEF MatchingGroup
  <2> QED  BY <2>1, <2>2
<1> QED  BY <1>1, <1>3 DEF MatchingPositions, offers

-----------------------------------------------------------------------------
(* Decisions *)

\* A plan with a list of priorities and finitely many preferences.
Reasonable(plan, remembered) ==
    /\ plan.priority \in Seq(STRING) /\ IsFiniteSet(plan.preferences) /\ IsFiniteSet(remembered)

\* A sequence is a function on its positions.
LEMMA AsFunction ==
    ASSUME NEW S, NEW s \in Seq(S)
    PROVE  /\ Len(s) \in Nat /\ DOMAIN s = 1 .. Len(s) /\ s \in [1 .. Len(s) -> S]
           /\ s = [k \in 1 .. Len(s) |-> s[k]]
OBVIOUS

\* The keys the recommendations are ranked by are numbers, and of one length for one plan.
LEMMA RankKeyTyped ==
    ASSUME NEW c, Costed(c), NEW plan, NEW remembered, Reasonable(plan, remembered),
           NEW semantic, semantic[c.offer.id] \in Int
    PROVE  RankKey(c, plan, remembered, semantic) \in [1 .. Len(plan.priority) + 5 -> Int]
<1> DEFINE head == <<-semantic[c.offer.id]>>
           wanted == [i \in DOMAIN plan.priority |->
                          Dimension(c, plan, remembered, plan.priority[i])]
           rest == <<c.landed, c.eta, c.offer.platform, c.offer.id>>
           n == Len(plan.priority)
<1>1. n \in Nat /\ DOMAIN plan.priority = 1 .. n
  BY DEF Reasonable
<1>2. MatchedTerms(c, plan, remembered) \in Int
  <2> DEFINE T == {p \in Terms(plan, remembered) :
                     p.wanted <=> \E t \in EvidenceTexts(c.offer) : p.text \subseteq t}
             own == {q \in plan.preferences : q.field \in {"style", "soft"}}
             all == own \cup EffectiveRemembered(plan, remembered)
             term(p) == [text |-> p.text, wanted |-> p.wanted]
  <2>1. EffectiveRemembered(plan, remembered) \in SUBSET remembered
    BY DEF EffectiveRemembered
  <2>2. IsFiniteSet(EffectiveRemembered(plan, remembered))
    BY <2>1, FS_Subset DEF Reasonable
  <2>3. IsFiniteSet(Terms(plan, remembered))
    <3>1. IsFiniteSet(own)
      <4>1. own \in SUBSET plan.preferences
        OBVIOUS
      <4> HIDE DEF own
      <4> QED  BY <4>1, FS_Subset DEF Reasonable
    <3>2. IsFiniteSet(all)
      BY <2>2, <3>1, FS_Union
    <3> DEFINE g == [p \in all |-> term(p)]
    <3>3. Terms(plan, remembered) = {g[p] : p \in all}
      BY DEF Terms
    <3>4. DOMAIN g = all
      OBVIOUS
    <3> HIDE DEF all, g
    <3> QED  BY <3>2, <3>3, <3>4, ImageIsFinite
  <2>4. T \in SUBSET Terms(plan, remembered)
    OBVIOUS
  <2>5. Cardinality(T) \in Nat
    <3> HIDE DEF T
    <3> QED  BY <2>3, <2>4, FS_Subset, FS_CardinalityType
  <2> QED  BY <2>5 DEF MatchedTerms
<1>3. /\ c.landed \in Int /\ c.eta \in Int /\ c.offer.platform \in Int /\ c.offer.id \in Int
      /\ Quality(c.offer) \in Int
  BY DEF Costed, Sound, Offers, Quality
<1>4. \A d : Dimension(c, plan, remembered, d) \in Int
  BY <1>2, <1>3 DEF Dimension
<1>5. head \in Seq(Int) /\ Len(head) = 1
  OBVIOUS
<1>6. wanted \in Seq(Int) /\ Len(wanted) = n
  <2>1. wanted \in [1 .. n -> Int]
    BY <1>1, <1>4
  <2> QED  BY <1>1, <2>1
<1>7. rest \in Seq(Int) /\ Len(rest) = 4
  BY <1>3
<1>8. RankKey(c, plan, remembered, semantic) = head \o wanted \o rest
  BY DEF RankKey
<1> HIDE DEF head, wanted, rest, n
<1>9. head \o wanted \in Seq(Int) /\ Len(head \o wanted) = n + 1
  <2>1. head \o wanted \in Seq(Int) /\ Len(head \o wanted) = Len(head) + Len(wanted)
    BY <1>5, <1>6, Joined
  <2> QED  BY <1>1, <1>5, <1>6, <2>1
<1>10. head \o wanted \o rest \in Seq(Int) /\ Len(head \o wanted \o rest) = n + 5
  <2>1. /\ head \o wanted \o rest \in Seq(Int)
        /\ Len(head \o wanted \o rest) = Len(head \o wanted) + Len(rest)
    BY <1>7, <1>9, Joined
  <2> QED  BY <1>1, <1>7, <1>9, <2>1
<1>11. RankKey(c, plan, remembered, semantic) \in [1 .. n + 5 -> Int]
  <2> DEFINE k == head \o wanted \o rest
  <2>1. k \in [1 .. Len(k) -> Int]
    <3> HIDE DEF k
    <3>1. k \in Seq(Int)
      BY <1>10 DEF k
    <3> QED  BY <3>1, AsFunction
  <2> HIDE DEF k
  <2>2. Len(k) = n + 5
    BY <1>10 DEF k
  <2> QED  BY <1>8, <2>1, <2>2 DEF k
<1> QED  BY <1>11 DEF n

\* A semantic score is known for every costed offer.
LEMMA ScoresTyped ==
    ASSUME NEW items, NEW semantic \in ScoreChoices(items), NEW c \in Elements(items)
    PROVE  semantic[c.offer.id] \in Int
<1>1. c.offer.id \in DOMAIN NoScores(items)
  BY DEF NoScores
<1>2. \A id \in DOMAIN NoScores(items) : NoScores(items)[id] = 0
  BY DEF NoScores
<1>3. CASE semantic = NoScores(items)
  BY <1>1, <1>2, <1>3
<1>4. CASE \E d \in Elements(items) : semantic = [NoScores(items) EXCEPT ![d.offer.id] = 100]
  BY <1>1, <1>2, <1>4
<1> QED  BY <1>3, <1>4 DEF ScoreChoices

\* Recommendations are eligible offers, and three of them when an eligible one is left out.
LEMMA RecommendedFacts ==
    ASSUME NEW matching, SoundItems(matching), NEW plan, NEW remembered,
           Reasonable(plan, remembered), NEW semantic,
           \A c \in Elements(matching) : semantic[c.offer.id] \in Int
    PROVE  LET r == Recommended(matching, plan, remembered, semantic)
               eligible == {c \in Elements(matching) : Class(c, plan.constraints) = "eligible"}
           IN  /\ r \in Seq(Elements(r)) /\ Elements(r) \subseteq eligible
               /\ Elements(r) # eligible => Len(r) = Limit(3)
<1> DEFINE eligible == {c \in Elements(matching) : Class(c, plan.constraints) = "eligible"}
           P == {i \in DOMAIN matching : Class(matching[i], plan.constraints) = "eligible"}
           kept == AtPositions(matching, P)
           keys == [i \in DOMAIN kept |-> RankKey(kept[i], plan, remembered, semantic)]
           m == Len(plan.priority) + 5
           sorted == Sorted(kept, keys)
           r == Recommended(matching, plan, remembered, semantic)
<1>1. r = Take(sorted, 3)
  BY DEF Recommended, SortBy, Keep, Limit
<1>2. SoundItems(kept) /\ Elements(kept) = eligible
  <2>1. SoundItems(kept) /\ Elements(kept) = {matching[i] : i \in P}
    BY ItemsAtPositions
  <2> HIDE DEF kept
  <2> QED  BY <2>1 DEF Elements
<1> HIDE DEF kept
<1>3. m \in Nat
  BY DEF Reasonable
<1>4. keys \in [DOMAIN kept -> [1 .. m -> Int]]
  <2>1. \A i \in DOMAIN kept : Costed(kept[i]) /\ semantic[kept[i].offer.id] \in Int
    <3>1. \A i \in DOMAIN kept : kept[i] \in Elements(kept)
      BY DEF Elements
    <3> QED  BY <1>2, <3>1 DEF SoundItems
  <2>2. \A i \in DOMAIN kept : RankKey(kept[i], plan, remembered, semantic) \in [1 .. m -> Int]
    BY <2>1, RankKeyTyped
  <2> QED  BY <2>2
<1> HIDE DEF keys, m
<1>5. SoundItems(sorted) /\ Elements(sorted) = eligible
  BY <1>2, <1>3, <1>4, ItemsSorted
<1> HIDE DEF sorted, r
<1>6. sorted \in Seq(Elements(sorted))
  BY <1>5 DEF SoundItems
<1>7. /\ r \in Seq(Elements(sorted)) /\ Len(r) = IF Len(sorted) < 3 THEN Len(sorted) ELSE 3
      /\ \A k \in DOMAIN r : k \in DOMAIN sorted /\ r[k] = sorted[k]
      /\ Len(sorted) <= 3 => r = sorted
  <2> DEFINE S == Elements(sorted)
  <2>1. sorted \in Seq(S) /\ 3 \in Nat
    BY <1>6
  <2> HIDE DEF S
  <2>2. /\ Take(sorted, 3) \in Seq(S)
        /\ Len(Take(sorted, 3)) = IF Len(sorted) < 3 THEN Len(sorted) ELSE 3
        /\ \A k \in DOMAIN Take(sorted, 3) : k \in DOMAIN sorted /\ Take(sorted, 3)[k] = sorted[k]
        /\ Len(sorted) <= 3 => Take(sorted, 3) = sorted
    BY <2>1, TakenFacts
  <2> QED  BY <1>1, <2>2 DEF S
<1>8. Elements(r) \subseteq eligible
  BY <1>5, <1>7 DEF Elements
<1>9. r \in Seq(Elements(r))
  <2>1. Len(r) \in Nat /\ DOMAIN r = 1 .. Len(r) /\ r = [k \in 1 .. Len(r) |-> r[k]]
    BY <1>7, AsFunction
  <2>2. \A k \in 1 .. Len(r) : r[k] \in Elements(r)
    BY <2>1 DEF Elements
  <2> QED  BY <2>1, <2>2
<1>10. Elements(r) # eligible => Len(r) = 3
  <2>1. Len(sorted) \in Nat
    BY <1>6
  <2> QED  BY <1>5, <1>7, <2>1
<1>11. Limit(3) = 3
  BY DEF Limit
<1> QED  BY <1>8, <1>9, <1>10, <1>11 DEF r, eligible

\* What a decision d says of the costed offers.
Accounts(d, items) ==
    LET judged == {c.offer.id : c \in d.unverified \cup d.exclusions}
    IN  /\ Ids(d.matching) \cup Ids(d.alternatives) = Ids(items)
        /\ Ids(d.matching) \cap Ids(d.alternatives) = {}
        /\ Ids(d.recommendations) \cup judged \subseteq Ids(d.matching)
        /\ Ids(d.matching) # Ids(d.recommendations) \cup judged
             => Len(d.recommendations) = Limit(3)
        /\ items # <<>> => d.matching # <<>> \/ d.alternatives # <<>>
        /\ items = <<>> => /\ d.matching = <<>> /\ d.alternatives = <<>>
                           /\ d.recommendations = <<>>
                           /\ d.unverified = {} /\ d.exclusions = {}

\* decision_engine accounts for every costed offer: as matching or as an alternative, and of the
\* matching ones recommended, unverified, excluded or past the three that are shown.
LEMMA DecisionAccounts ==
    ASSUME NEW items, SoundItems(items), NEW plan, NEW remembered, Reasonable(plan, remembered),
           NEW semantic \in ScoreChoices(items),
           NEW d, d = Decision(items, plan, remembered, semantic)
    PROVE  Accounts(d, items)
<1> DEFINE group == MatchingPositions(items, plan)
           matching == AtPositions(items, group)
           rest == DOMAIN items \ group
           alternatives == AtPositions(items, rest)
           InClass(class) == {c \in Elements(matching) : Class(c, plan.constraints) = class}
           judged == InClass("unverified") \cup InClass("excluded")
           r == Recommended(matching, plan, remembered, semantic)
<1>1. /\ d.matching = matching /\ d.alternatives = alternatives /\ d.recommendations = r
      /\ d.unverified = InClass("unverified") /\ d.exclusions = InClass("excluded")
  BY DEF Decision
<1>2. group \in SUBSET DOMAIN items /\ rest \in SUBSET DOMAIN items
  BY MatchingIsChosen
<1> HIDE DEF group
<1>3. /\ SoundItems(matching) /\ Elements(matching) = {items[i] : i \in group}
      /\ SoundItems(alternatives) /\ Elements(alternatives) = {items[i] : i \in rest}
  <2> HIDE DEF rest
  <2> QED  BY <1>2, ItemsAtPositions
<1> HIDE DEF matching, alternatives
<1>4. \A c \in Elements(matching) : semantic[c.offer.id] \in Int
  BY <1>2, <1>3, ScoresTyped DEF Elements
<1>5. /\ r \in Seq(Elements(r)) /\ Elements(r) \subseteq InClass("eligible")
      /\ Elements(r) # InClass("eligible") => Len(r) = Limit(3)
  BY <1>3, <1>4, RecommendedFacts
<1> HIDE DEF r
<1>6. Ids(matching) \cup Ids(alternatives) = Ids(items)
  BY <1>2, <1>3 DEF Ids, Elements
<1>7. Ids(matching) \cap Ids(alternatives) = {}
  <2>1. \A i, j \in DOMAIN items : items[i].offer.id = items[j].offer.id => i = j
    BY DEF SoundItems
  <2> QED  BY <1>2, <1>3, <2>1 DEF Ids
<1>8. Elements(matching) = InClass("eligible") \cup judged
  BY DEF Class
<1>9. Ids(r) \cup {c.offer.id : c \in judged} \subseteq Ids(matching)
  BY <1>5 DEF Ids
<1>10. ASSUME Elements(r) = InClass("eligible")
       PROVE  Ids(matching) = Ids(r) \cup {c.offer.id : c \in judged}
  BY <1>8, <1>10 DEF Ids
<1>11. ASSUME items # <<>> PROVE matching # <<>> \/ alternatives # <<>>
  <2>1. PICK i \in DOMAIN items : TRUE
    BY <1>11 DEF SoundItems
  <2>2. items[i] \in Elements(matching) \/ items[i] \in Elements(alternatives)
    BY <1>3
  <2> QED  BY <2>2 DEF Elements
<1>12. ASSUME items = <<>>
       PROVE  /\ matching = <<>> /\ alternatives = <<>> /\ r = <<>>
              /\ InClass("unverified") = {} /\ InClass("excluded") = {}
  <2>1. Elements(matching) = {} /\ Elements(alternatives) = {}
    BY <1>2, <1>3, <1>12
  <2>2. matching = <<>> /\ alternatives = <<>>
    BY <1>3, <2>1 DEF SoundItems, Elements
  <2>3. Elements(r) = {}
    BY <1>5, <2>1
  <2>4. r = <<>>
    BY <1>5, <2>3 DEF Elements
  <2> QED  BY <2>1, <2>2, <2>4
<1> HIDE DEF Of
<1>13. /\ Ids(d.matching) \cup Ids(d.alternatives) = Ids(items)
       /\ Ids(d.matching) \cap Ids(d.alternatives) = {}
       /\ Ids(d.recommendations) \cup {c.offer.id : c \in d.unverified \cup d.exclusions}
            \subseteq Ids(d.matching)
       /\ Ids(d.matching) # Ids(d.recommendations)
                               \cup {c.offer.id : c \in d.unverified \cup d.exclusions}
            => Len(d.recommendations) = Limit(3)
  BY <1>1, <1>5, <1>6, <1>7, <1>9, <1>10
<1> QED  BY <1>1, <1>11, <1>12, <1>13 DEF Accounts

\* No compared offer disappears on the way to the answer: it is matching or an alternative, and
\* a matching one is recommended, unverified or excluded unless three better ones are shown; the
\* answer says that nothing could be priced exactly when nothing has a cost (price_compare,
\* shipping_calc, decision_engine).
THEOREM NothingEverVanishes == OfferSpec => []NothingVanishes
<1>1. OfferInv => NothingVanishes
  <2> SUFFICES ASSUME OfferInv, Done PROVE NothingVanishes
    BY DEF NothingVanishes
  <2>1. /\ SoundOffers(evidence) /\ evidence # <<>> /\ CompareLimit \in Nat \ {0}
        /\ costs = CostedOffers(evidence, CompareLimit)
        /\ answer = Answer(picks, PriceExclusions(evidence) # <<>>)
        /\ Reasonable(task.plan, task.remembered)
    BY OfferAssumption DEF OfferInv, Done, Reasonable
  <2>2. PICK semantic \in ScoreChoices(costs) :
            picks = Decision(costs, task.plan, task.remembered, semantic)
    BY DEF OfferInv, Done
  <2>3. /\ SoundItems(costs)
        /\ Ids(costs) = {o.id : o \in Elements(Compared(evidence, CompareLimit))}
    BY <2>1, CostedFacts
  <2>4. Accounts(picks, costs)
    BY <2>1, <2>2, <2>3, DecisionAccounts
  <2>5. CASE costs # <<>>
    <3>1. answer # "no_price" /\ answer # "no_candidates"
      BY <2>1, <2>4, <2>5 DEF Answer, Accounts
    <3> QED  BY <2>3, <2>4, <2>5, <3>1 DEF NothingVanishes, Accounts
  <2>6. CASE costs = <<>>
    <3>1. Compared(evidence, CompareLimit) = <<>>
      <4>1. Ids(costs) = {}
        BY <2>6 DEF Ids, Elements
      <4>2. Elements(Compared(evidence, CompareLimit)) = {}
        BY <2>3, <4>1
      <4>3. SoundOffers(Compared(evidence, CompareLimit))
        BY <2>1, ComparedFacts
      <4> QED  BY <4>2, <4>3 DEF SoundOffers, Elements
    <3>2. \A o \in Elements(evidence) : PriceVerdict(o) # "ok"
      BY <2>1, <3>1, ComparedFacts
    <3>3. PriceExclusions(evidence) # <<>>
      <4> DEFINE P == {i \in DOMAIN evidence : PriceVerdict(evidence[i]) # "ok"}
      <4>1. Elements(AtPositions(evidence, P)) = {evidence[i] : i \in P}
        BY <2>1, OffersAtPositions
      <4>2. PICK i \in DOMAIN evidence : TRUE
        BY <2>1 DEF SoundOffers
      <4>3. evidence[i] \in Elements(AtPositions(evidence, P))
        BY <3>2, <4>1 DEF Elements
      <4>4. PriceExclusions(evidence) = AtPositions(evidence, P)
        BY DEF PriceExclusions, Keep
      <4> HIDE DEF P
      <4> QED  BY <4>3, <4>4 DEF Elements
    <3>4. answer = "no_price"
      BY <2>1, <2>4, <2>6, <3>3 DEF Answer, Accounts
    <3> QED  BY <2>3, <2>4, <2>6, <3>4 DEF NothingVanishes, Accounts
  <2> QED  BY <2>5, <2>6
<1> QED  BY <1>1, OfferInvariant, PTL

\* A remembered preference that applies excludes nothing the shopper asks for now.
LEMMA AppliedIsUncontradicted ==
    ASSUME NEW plan, NEW p, PreferenceStatus(plan, p) = "applied",
           NEW q \in CurrentPreferences(plan), AboutMaterials(p, q)
    PROVE  ~Contradicts(p, q)
<1>1. p.text \notin CurrentMaterial(plan)
  BY DEF PreferenceStatus, AboutMaterials
<1>2. q.text \in CurrentMaterial(plan)
  BY DEF CurrentMaterial, AboutMaterials
<1> QED  BY <1>1, <1>2 DEF Contradicts

\* A remembered preference in effect never says the opposite of the current request about the
\* same material, the value compared as a whole (resolve_preferences).
THEOREM CurrentRequestAlwaysWins == OfferSpec => []CurrentRequestWins
<1>1. OfferInv => CurrentRequestWins
  <2> SUFFICES ASSUME OfferInv, Done,
                      NEW p \in picks.effective, NEW q \in CurrentPreferences(task.plan),
                      AboutMaterials(p, q)
               PROVE  ~Contradicts(p, q)
    BY DEF CurrentRequestWins
  <2>1. PICK semantic : picks = Decision(costs, task.plan, task.remembered, semantic)
    BY DEF OfferInv, Done
  <2>2. picks.effective = EffectiveRemembered(task.plan, task.remembered)
    BY <2>1 DEF Decision
  <2>3. PreferenceStatus(task.plan, p) = "applied"
    BY <2>2 DEF EffectiveRemembered
  <2> QED  BY <2>3, AppliedIsUncontradicted
<1> QED  BY <1>1, OfferInvariant, PTL

\* A matching offer becomes eligible once every constraint it violates is relaxed.
LEMMA RelaxedIsEligible ==
    ASSUME NEW constraints, NEW c, Class(c, constraints) = "excluded", NEW changes,
           \A ch \in changes : ch.replacement = {},
           \A k \in WithVerdict(c, constraints, "violated") : \E ch \in changes : ch.id = k.id
    PROVE  Class(c, Relaxed(constraints, changes)) = "eligible"
<1>1. WithVerdict(c, constraints, "unknown") = {}
  BY DEF Class
<1>2. Relaxed(constraints, changes) = {k \in constraints : \A ch \in changes : ch.id # k.id}
  <2>1. UNION {ch.replacement : ch \in changes} = {}
    OBVIOUS
  <2> QED  BY <2>1 DEF Relaxed
<1>3. /\ WithVerdict(c, Relaxed(constraints, changes), "unknown") = {}
      /\ WithVerdict(c, Relaxed(constraints, changes), "violated") = {}
  BY <1>1, <1>2 DEF WithVerdict
<1> QED  BY <1>3 DEF Class

\* A shopper who confirms every relaxation that is offered makes every excluded offer eligible:
\* none of the constraints it violates is left out, and none is unknown to the plan
\* (decision_engine, _apply_constraint_relaxations).
THEOREM RelaxationsAlwaysSuffice == OfferSpec => []RelaxationsSuffice
<1>1. OfferInv => RelaxationsSuffice
  <2> SUFFICES ASSUME OfferInv, Done
               PROVE  RelaxationsSuffice
    BY DEF RelaxationsSuffice
  <2> DEFINE constraints == task.plan.constraints
             changes == {[id |-> k.id, replacement |-> {}] : k \in picks.relaxations}
  <2>1. PICK semantic : picks = Decision(costs, task.plan, task.remembered, semantic)
    BY DEF OfferInv, Done
  <2>2. \A c \in picks.exclusions : Class(c, constraints) = "excluded"
    BY <2>1 DEF Decision
  <2>3. picks.relaxations = UNION {WithVerdict(c, constraints, "violated") : c \in picks.exclusions}
    BY <2>1 DEF Decision
  <2>4. picks.relaxations \subseteq constraints
    BY <2>3 DEF WithVerdict
  <2>5. /\ \A ch \in changes : ch.replacement = {}
        /\ \A k \in picks.relaxations : \E ch \in changes : ch.id = k.id
    <3>1. \A ch \in changes : ch.replacement = {}
      OBVIOUS
    <3>2. ASSUME NEW k \in picks.relaxations
          PROVE  \E ch \in changes : ch.id = k.id
      <4>1. [id |-> k.id, replacement |-> {}] \in changes
        OBVIOUS
      <4>2. [id |-> k.id, replacement |-> {}].id = k.id
        OBVIOUS
      <4> HIDE DEF changes
      <4> QED  BY <4>1, <4>2
    <3> QED  BY <3>1, <3>2
  <2>6. KnownChanges(constraints, changes)
    BY <2>4 DEF KnownChanges
  <2> HIDE DEF changes, constraints
  <2>7. \A c \in picks.exclusions : Class(c, Relaxed(constraints, changes)) = "eligible"
    BY <2>2, <2>3, <2>5, RelaxedIsEligible
  <2> QED  BY <2>6, <2>7 DEF RelaxationsSuffice, changes, constraints
<1> QED  BY <1>1, OfferInvariant, PTL

-----------------------------------------------------------------------------
(* The lengths of the lists *)

\* A list of costs of different offers is no longer than a list its offers come from.
LEMMA NoLonger ==
    ASSUME NEW s, SoundItems(s), NEW r \in Seq(Offers), Ids(s) \subseteq {o.id : o \in Elements(r)}
    PROVE  Len(s) \in Nat /\ Len(s) <= Len(r)
<1> DEFINE n == Len(s)
           m == Len(r)
           f == [i \in 1 .. n |-> CHOOSE j \in 1 .. m : r[j].id = s[i].offer.id]
<1>1. n \in Nat /\ m \in Nat /\ DOMAIN s = 1 .. n /\ DOMAIN r = 1 .. m
  BY DEF SoundItems
<1> HIDE DEF n, m
<1>2. ASSUME NEW i \in 1 .. n
      PROVE  f[i] \in 1 .. m /\ r[f[i]].id = s[i].offer.id
  <2>1. s[i].offer.id \in Ids(s)
    BY <1>1 DEF Ids, Elements
  <2>2. \E j \in 1 .. m : r[j].id = s[i].offer.id
    BY <1>1, <2>1 DEF Elements
  <2> QED  BY <2>2
<1>3. f \in [1 .. n -> 1 .. m]
  BY <1>2
<1> HIDE DEF f
<1>4. \A i, j \in 1 .. n : f[i] = f[j] => i = j
  BY <1>1, <1>2 DEF SoundItems
<1>5. f \in Injection(1 .. n, 1 .. m)
  BY <1>3, <1>4 DEF Injection, IsInjective
<1>6. IsFiniteSet(1 .. m) /\ Cardinality(1 .. m) = m /\ Cardinality(1 .. n) = n
  <2>1. ASSUME NEW k \in Nat PROVE IsFiniteSet(1 .. k) /\ Cardinality(1 .. k) = k
    <3>1. 1 \in Int /\ k \in Int /\ (IF 1 > k THEN 0 ELSE k - 1 + 1) = k
      OBVIOUS
    <3>2. IsFiniteSet(1 .. k) /\ Cardinality(1 .. k) = IF 1 > k THEN 0 ELSE k - 1 + 1
      BY <3>1, FS_Interval, Zenon
    <3> QED  BY ONLY <3>1, <3>2, k \in Nat
  <2> QED  BY <1>1, <2>1, Zenon
<1>7. Cardinality(1 .. n) <= Cardinality(1 .. m)
  BY <1>5, <1>6, FS_Injection
<1> QED  BY <1>1, <1>6, <1>7 DEF n, m

\* Lists with the same positions are of one length.
LEMMA SameLength ==
    ASSUME NEW S, NEW s \in Seq(S), NEW t, DOMAIN t = DOMAIN s, t = [i \in DOMAIN t |-> t[i]]
    PROVE  t \in Seq(Elements(t)) /\ Len(t) = Len(s)
<1>1. Len(s) \in Nat /\ DOMAIN s = 1 .. Len(s)
  OBVIOUS
<1>2. \A i \in DOMAIN t : t[i] \in Elements(t)
  BY DEF Elements
<1>3. t \in Seq(Elements(t))
  BY <1>1, <1>2
<1> QED  BY <1>1, <1>3

\* No more than three offers are recommended.
LEMMA AtMostThree ==
    ASSUME NEW items, SoundItems(items), NEW plan, NEW remembered, NEW semantic
    PROVE  Len(Decision(items, plan, remembered, semantic).recommendations) <= 3
<1> DEFINE group == MatchingPositions(items, plan)
           matching == AtPositions(items, group)
           P == {i \in DOMAIN matching : Class(matching[i], plan.constraints) = "eligible"}
           kept == AtPositions(matching, P)
           keys == [i \in DOMAIN kept |-> RankKey(kept[i], plan, remembered, semantic)]
           sorted == Sorted(kept, keys)
<1>1. Decision(items, plan, remembered, semantic).recommendations = Take(sorted, 3)
  BY DEF Decision, Recommended, SortBy, Keep, Limit
<1>2. group \in SUBSET DOMAIN items
  BY MatchingIsChosen
<1> HIDE DEF group
<1>3. SoundItems(matching)
  BY <1>2, ItemsAtPositions
<1> HIDE DEF matching
<1>4. SoundItems(kept)
  BY <1>3, ItemsAtPositions
<1> HIDE DEF kept, keys
<1>5. kept \in Seq(Elements(kept)) /\ DOMAIN sorted = DOMAIN kept
      /\ sorted = [k \in DOMAIN sorted |-> sorted[k]]
  BY <1>4 DEF SoundItems, Sorted
<1> HIDE DEF sorted
<1>6. sorted \in Seq(Elements(sorted)) /\ Len(sorted) \in Nat
  BY <1>5, SameLength
<1> DEFINE S == Elements(sorted)
           r == Decision(items, plan, remembered, semantic).recommendations
           l == Len(sorted)
           k == Len(r)
<1>7. sorted \in Seq(S) /\ 3 \in Nat /\ l \in Nat
  BY <1>6
<1> HIDE DEF S
<1>8. Len(Take(sorted, 3)) = IF Len(sorted) < 3 THEN Len(sorted) ELSE 3
  BY <1>7, TakenFacts
<1>9. k = IF l < 3 THEN l ELSE 3
  BY <1>1, <1>8
<1> HIDE DEF r, l, k
<1>10. k <= 3
  BY <1>7, <1>9
<1> QED  BY <1>10 DEF k, r

\* What is kept of the lists beside the invariant.
ListsTyped ==
    /\ Len(evidence) \in {0, Len(task.offers)}
    /\ step = "price_compare" => Len(evidence) = Len(task.offers)
    /\ Len(costs) <= CompareLimit /\ Len(picks.recommendations) <= 3

\* The states of the graph have their shape in every step: evidence of every offer or of none,
\* costs of as many offers as are compared, and at most three recommendations.
THEOREM OfferTyped == OfferSpec => []OfferTypeOK
<1>1. OfferInit => ListsTyped
  <2>1. SoundItems(<<>>)
    BY DEF SoundItems, Elements
  <2>2. Len(NoPicks.recommendations) <= 3
    BY <2>1, AtMostThree DEF NoPicks
  <2>3. Len(<<>>) = 0 /\ CompareLimit \in Nat
    BY OfferAssumption
  <2> QED  BY <2>2, <2>3 DEF OfferInit, ListsTyped
<1>2. OfferInv /\ ListsTyped /\ [OfferNext]_offerVars => ListsTyped'
  <2> SUFFICES ASSUME OfferInv, ListsTyped, [OfferNext]_offerVars PROVE ListsTyped'
    OBVIOUS
  <2>1. CASE AddCustoms
    <3>1. CASE Fails
      BY <3>1 DEF Fails, ListsTyped
    <3>2. CASE ~Fails
      <4>1. PICK official \in OfficialRates \cup {NoCustoms} :
                 /\ evidence' = [i \in DOMAIN task.offers |->
                                    IF i <= CustomsLimit
                                    THEN EnrichCustoms(task.offers[i], official)
                                    ELSE task.offers[i]]
                 /\ UNCHANGED <<task, costs, picks, answer>>
        BY <2>1, <3>2 DEF AddCustoms
      <4>2. task.offers \in Seq(Offers)
        BY OfferAssumption DEF OfferInv
      <4>3. DOMAIN evidence' = DOMAIN task.offers
            /\ evidence' = [i \in DOMAIN evidence' |-> evidence'[i]]
        BY <4>1
      <4>4. Len(evidence') = Len(task.offers)
        BY <4>2, <4>3, SameLength
      <4> QED  BY <4>1, <4>4 DEF ListsTyped
    <3> QED  BY <3>1, <3>2
  <2>2. CASE ComparePrices
    <3>1. CASE Fails
      BY <3>1 DEF Fails, ListsTyped
    <3>2. CASE ~Fails
      <4>1. PICK available \in BOOLEAN :
                 /\ evidence' = [i \in DOMAIN evidence |-> EnrichConversion(evidence[i], available)]
                 /\ step' = "shipping_calc" /\ UNCHANGED <<task, costs, picks, answer>>
        BY <2>2, <3>2 DEF ComparePrices
      <4>2. evidence \in Seq(Offers) /\ Len(evidence) = Len(task.offers)
        BY <2>2 DEF ComparePrices, OfferInv, ListsTyped, SoundOffers
      <4>3. DOMAIN evidence' = DOMAIN evidence
            /\ evidence' = [i \in DOMAIN evidence' |-> evidence'[i]]
        BY <4>1
      <4>4. Len(evidence') = Len(evidence)
        BY <4>2, <4>3, SameLength
      <4> QED  BY <4>1, <4>2, <4>4 DEF ListsTyped
    <3> QED  BY <3>1, <3>2
  <2>3. CASE CalculateCosts
    <3>1. /\ SoundOffers(evidence) /\ CompareLimit \in Nat \ {0}
          /\ costs' = CostedOffers(evidence, CompareLimit)
          /\ step' = "item_picker" /\ UNCHANGED <<task, evidence, picks>>
      BY <2>3, OfferAssumption DEF CalculateCosts, OfferInv
    <3> DEFINE r == Compared(evidence, CompareLimit)
    <3>2. r \in Seq(Offers) /\ Len(r) \in Nat /\ Len(r) <= CompareLimit
      BY <3>1, ComparedFacts DEF SoundOffers
    <3>3. SoundItems(costs') /\ Ids(costs') = {o.id : o \in Elements(r)}
      BY <3>1, CostedFacts
    <3> HIDE DEF r
    <3>4. Len(costs') \in Nat /\ Len(costs') <= Len(r)
      <4> DEFINE s == costs'
      <4>1. SoundItems(s) /\ Ids(s) \subseteq {o.id : o \in Elements(r)}
        BY <3>3
      <4> HIDE DEF s
      <4>2. Len(s) \in Nat /\ Len(s) <= Len(r)
        BY <3>2, <4>1, NoLonger
      <4> QED  BY <4>2 DEF s
    <3>5. Len(costs') <= CompareLimit
      BY <3>1, <3>2, <3>4
    <3> QED  BY <3>1, <3>5 DEF ListsTyped
  <2>4. CASE PickItems
    <3>1. /\ SoundOffers(evidence) /\ CompareLimit \in Nat \ {0}
          /\ costs = CostedOffers(evidence, CompareLimit)
          /\ step' = "shopping_summary" /\ UNCHANGED <<task, evidence, costs>>
      BY <2>4, OfferAssumption DEF PickItems, OfferInv
    <3>2. SoundItems(costs)
      BY <3>1, CostedFacts
    <3>3. PICK semantic \in ScoreChoices(costs) :
              picks' = Decision(costs, task.plan, task.remembered, semantic)
      BY <2>4 DEF PickItems
    <3>4. Len(picks'.recommendations) <= 3
      BY <3>2, <3>3, AtMostThree
    <3> QED  BY <3>1, <3>4 DEF ListsTyped
  <2>5. CASE Summarize
    BY <2>5 DEF Summarize, ListsTyped
  <2>6. CASE UNCHANGED offerVars
    BY <2>6 DEF offerVars, ListsTyped
  <2> QED  BY <2>1, <2>2, <2>3, <2>4, <2>5, <2>6 DEF OfferNext
<1>3. OfferInv /\ ListsTyped => OfferTypeOK
  BY DEF OfferInv, ListsTyped, OfferTypeOK
<1> QED  BY <1>1, <1>2, <1>3, OfferInvariant, PTL DEF OfferSpec

-----------------------------------------------------------------------------
(* Readiness *)

\* A process that accepts no task names something to change.
LEMMA UnreadyIsExplained == ASSUME NEW s, ~TaskReady(s) PROVE RequiredActions(s) # {}
<1>1. CASE ActiveAgent(s) = "unavailable"
  <2>1. "agent" \in RequiredActions(s)
    BY <1>1 DEF RequiredActions
  <2> QED  BY <2>1
<1>2. CASE s.backend = "opensearch" /\ ~s.opensearch
  <2>1. "opensearch" \in RequiredActions(s)
    BY <1>2 DEF RequiredActions
  <2> QED  BY <2>1
<1>3. CASE EnabledMarkets(s) = {}
  <2>1. "marketplace" \in RequiredActions(s)
    BY <1>3 DEF RequiredActions
  <2> QED  BY <2>1
<1>4. CASE s.env = "production" /\ ProductionForbids(s)
  <2>1. \/ "sandbox" \in RequiredActions(s) \/ "fallback" \in RequiredActions(s)
        \/ "diagnostic" \in RequiredActions(s) \/ "historical" \in RequiredActions(s)
        \/ "store" \in RequiredActions(s) \/ "catalog" \in RequiredActions(s)
        \/ "auth" \in RequiredActions(s) \/ "rate" \in RequiredActions(s)
    BY <1>4 DEF RequiredActions, ProductionForbids
  <2> QED  BY <2>1
<1> QED  BY <1>1, <1>2, <1>3, <1>4 DEF TaskReady

\* A process that calls itself ready misses no channel of recall.
LEMMA ReadyIsComplete ==
    ASSUME NEW s, Status(s) = "ready"
    PROVE  /\ RequiredActions(s) \subseteq {"fallback_needs_diagnostic"}
           /\ RecallActions(s) = {} /\ AnnouncedMode(s) = "hybrid"
<1>1. TaskReady(s) /\ RecallComplete(s)
  BY DEF Status
<1>2. RequiredActions(s) \subseteq {"fallback_needs_diagnostic"}
  <2> SUFFICES ASSUME NEW x \in RequiredActions(s), x # "fallback_needs_diagnostic"
               PROVE  FALSE
    OBVIOUS
  <2> QED  BY <1>1 DEF RequiredActions, TaskReady, ProductionForbids
<1>3. RecallActions(s) = {}
  BY <1>1 DEF RecallActions, RecallComplete
<1>4. AnnouncedMode(s) = "hybrid"
  BY <1>1 DEF AnnouncedMode, RecallComplete, Channels, Configured
<1> QED  BY <1>2, <1>3, <1>4

\* Readiness and its advice agree for every configuration: not ready names an action, ready
\* needs none and announces hybrid recall.
THEOREM ReadinessAlwaysExplained == SearchSpec => []ReadinessExplained
<1>1. ReadinessExplained
  BY UnreadyIsExplained, ReadyIsComplete DEF ReadinessExplained
<1> QED  BY <1>1, PTL

-----------------------------------------------------------------------------
(* What a search may show *)

\* The configurations that let a fixture among the rows.
ShowsFixtures(s) ==
    \/ s.sandbox \/ FixtureFallback(s) \/ (s.historical /\ s.backend = "opensearch")

\* A sandbox that searches its own catalog only, for a task it labelled.
PureSandbox ==
    /\ conf.sandbox /\ conf.env # "production" /\ conf.backend # "opensearch"
    /\ label.mode = "sandbox"

\* What a search may report: rows and providers of the kinds the settings allow.
AllowsKind(kind) ==
    /\ kind \in {"live", "fixture"}
    /\ kind = "fixture" => ShowsFixtures(conf) \/ label.mode = "sandbox"
    /\ kind = "live" => ~PureSandbox

\* A result of a search that is not unavailable has rows, and what it reports is allowed.
Fits(r) ==
    /\ r.status = "unavailable" \/ r.kinds # {}
    /\ \A kind \in r.kinds \cup {r.kind} : AllowsKind(kind)

\* The search that is under way is a record of these three fields.
HuntShape == hunt = [market |-> hunt.market, at |-> hunt.at, covered |-> hunt.covered]

\* What the searches have returned so far fits the settings, a step that only the sandbox or
\* the product search takes is taken only there, and a result is one the contract admits.
SearchInv ==
    /\ HuntShape
    /\ label.mode \in Modes
    /\ hunt.at = "fixtures" => conf.sandbox
    /\ hunt.at \in {"direct", "channel"} => ~conf.sandbox
    /\ hunt.at \in {"official", "index", "again"} => conf.backend = "opensearch"
    /\ results \in Seq(Elements(results))
    /\ \A r \in Elements(results) : Fits(r)
    /\ verdict # "none" => hunt = NoHunt
    /\ verdict = "refused" => Refused
    /\ verdict \in {"live", "partial", "sandbox"} => ~Refused
    /\ verdict = "live" => label.mode = "live" /\ Failed = {}

\* A result is added to those before it.
LEMMA AppendAdds ==
    ASSUME NEW s, s \in Seq(Elements(s)), NEW r
    PROVE  /\ Elements(Append(s, r)) = Elements(s) \cup {r}
           /\ Append(s, r) \in Seq(Elements(Append(s, r)))
<1> DEFINE S == Elements(s) \cup {r}
<1>1. s \in Seq(S)
  <2>1. Elements(s) \subseteq S
    OBVIOUS
  <2> HIDE DEF S
  <2> QED  BY <2>1
<1>2. r \in S
  OBVIOUS
<1> HIDE DEF S
<1>3. /\ Append(s, r) \in Seq(S)
      /\ DOMAIN Append(s, r) = DOMAIN s \cup {Len(s) + 1}
      /\ \A i \in DOMAIN s : Append(s, r)[i] = s[i]
      /\ Append(s, r)[Len(s) + 1] = r
  BY <1>1, <1>2
<1>4. Elements(Append(s, r)) = S
  BY <1>3 DEF Elements, S
<1> QED  BY <1>3, <1>4 DEF S

\* The ways a search can end.
LEMMA UnavailableFits ==
    ASSUME NEW m, NEW kind, NEW reason, AllowsKind(kind)
    PROVE  Fits(Unavailable(m, kind, reason))
BY DEF Fits, Unavailable

\* Live rows fit wherever they are searched.
LEMMA LiveFits ==
    ASSUME NEW m, NEW ann, NEW status, AllowsKind("live")
    PROVE  Fits(Rows(m, {"live"}, "live", ann, status))
BY DEF Fits, Rows

\* Fixture rows fit a configuration that shows them.
LEMMA FixturesFit ==
    ASSUME NEW m, NEW reason, ShowsFixtures(conf)
    PROVE  Fits(Fixtures(m, reason))
BY DEF Fits, Fixtures, Rows, AllowsKind

\* What product search returns fits: historical rows only where they are allowed.
LEMMA IndexFits ==
    ASSUME NEW m, conf.backend = "opensearch", NEW r \in IndexRows(conf, m)
    PROVE  Fits(r)
<1>1. PICK kinds \in (SUBSET IndexKinds(conf, m)) \ {{}}, v \in Embeddings(conf) :
          r = Rows(m, kinds, IF kinds = {"fixture"} THEN "fixture" ELSE "live", v.used,
                   IF v.degraded THEN "degraded" ELSE "ok")
  BY DEF IndexRows
<1>2. /\ r.kinds = kinds
      /\ r.kind = "live" \/ (r.kind = "fixture" /\ "fixture" \in kinds)
  BY <1>1 DEF Rows
<1>3. "fixture" \in IndexKinds(conf, m) => ShowsFixtures(conf)
  BY DEF IndexKinds, ShowsFixtures
<1>4. IndexKinds(conf, m) \subseteq {"live", "fixture"}
  BY DEF IndexKinds
<1>5. ~PureSandbox
  BY DEF PureSandbox
<1> QED  BY <1>2, <1>3, <1>4, <1>5 DEF Fits, AllowsKind

\* A marketplace's search returns.
LEMMA ReturnFits ==
    ASSUME SearchInv, hunt # NoHunt, NEW r, Fits(r), Returns(r), UNCHANGED <<conf, label, verdict>>
    PROVE  SearchInv'
<1>1. results' = Append(results, r) /\ hunt' = NoHunt
  BY DEF Returns
<1>2. verdict = "none"
  BY DEF SearchInv
<1>3. /\ Elements(results)' = Elements(results) \cup {r}
      /\ results' \in Seq(Elements(results)')
  <2>1. results \in Seq(Elements(results))
    BY DEF SearchInv
  <2>2. /\ Elements(Append(results, r)) = Elements(results) \cup {r}
        /\ Append(results, r) \in Seq(Elements(Append(results, r)))
    BY <2>1, AppendAdds
  <2> QED  BY <1>1, <2>2
<1>4. \A q : Fits(q)' = Fits(q)
  BY DEF Fits, AllowsKind, PureSandbox
<1>5. \A q \in Elements(results)' : Fits(q)'
  BY <1>3, <1>4 DEF SearchInv
<1>6. HuntShape'
  BY <1>1 DEF HuntShape, NoHunt
<1> QED  BY <1>1, <1>2, <1>3, <1>5, <1>6 DEF SearchInv, NoHunt

\* A marketplace's search goes on to its next source.
LEMMA GoFits ==
    ASSUME SearchInv, hunt # NoHunt, UNCHANGED <<conf, label, verdict, results>>,
           HuntShape',
           hunt'.at = "fixtures" => conf.sandbox,
           hunt'.at \in {"direct", "channel"} => ~conf.sandbox,
           hunt'.at \in {"official", "index", "again"} => conf.backend = "opensearch"
    PROVE  SearchInv'
<1>1. verdict = "none"
  BY DEF SearchInv
<1>2. Elements(results)' = Elements(results) /\ Failed' = Failed
  BY DEF Elements, Failed
<1>3. \A q \in Elements(results)' : Fits(q)'
  BY <1>2 DEF Fits, AllowsKind, PureSandbox, SearchInv
<1> QED  BY <1>1, <1>2, <1>3 DEF SearchInv

\* Which source that is.
LEMMA GoShape ==
    ASSUME HuntShape, NEW at, Goes(at)
    PROVE  HuntShape' /\ hunt'.at = at /\ UNCHANGED results
BY DEF HuntShape, Goes

\* The invariant holds through every search, market by market and source by source.
LEMMA SearchKept == SearchSpec => []SearchInv
<1>1. SearchInit => SearchInv
  <2> SUFFICES ASSUME SearchInit
               PROVE  SearchInv
    OBVIOUS
  <2>1. Elements(results) = {} /\ results \in Seq({})
    BY DEF SearchInit, Elements
  <2>2. HuntShape
    BY DEF SearchInit, HuntShape, NoHunt
  <2> QED  BY <2>1, <2>2 DEF SearchInit, SearchInv, NoHunt
<1>2. SearchInv /\ [SearchNext]_searchVars => SearchInv'
  <2> SUFFICES ASSUME SearchInv, [SearchNext]_searchVars
               PROVE  SearchInv'
    OBVIOUS
  <2>1. CASE BeginSearch
    <3>1. /\ UNCHANGED <<conf, label, results, verdict>> /\ verdict = "none"
          /\ Begins(Selected[Len(results) + 1])
      BY <2>1 DEF BeginSearch
    <3> DEFINE m == Selected[Len(results) + 1]
    <3> HIDE DEF m
    <3>2. /\ hunt'.at = "fixtures" => conf.sandbox
          /\ hunt'.at \in {"direct", "channel"} => ~conf.sandbox
          /\ hunt'.at \in {"official", "index", "again"} => conf.backend = "opensearch"
          /\ HuntShape'
      <4>1. Begins(m)
        BY <3>1 DEF m
      <4> QED  BY <4>1 DEF Begins, Provider, Searched, BrowseHelps, HuntShape
    <3>3. Elements(results)' = Elements(results) /\ \A q : Fits(q)' = Fits(q)
      BY <3>1 DEF Elements, Fits, AllowsKind, PureSandbox
    <3> QED  BY <3>1, <3>2, <3>3 DEF SearchInv
  <2>2. CASE BranchFails
    <3>1. hunt # NoHunt
      BY <2>2 DEF BranchFails, NoHunt
    <3>2. AllowsKind(IF label.mode = "sandbox" THEN "fixture" ELSE "live")
      BY DEF AllowsKind, PureSandbox
    <3> QED  BY <2>2, <3>1, <3>2, UnavailableFits, ReturnFits DEF BranchFails
  <2>3. CASE OfficialAnswers
    <3>1. hunt # NoHunt
      BY <2>3 DEF OfficialAnswers, NoHunt
    <3>2. AllowsKind("live")
      BY <2>3 DEF OfficialAnswers, SearchInv, AllowsKind, PureSandbox
    <3> QED  BY <2>3, <3>1, <3>2, LiveFits, ReturnFits DEF OfficialAnswers
  <2>4. CASE OfficialFails
    <3>1. hunt # NoHunt /\ UNCHANGED <<conf, label, verdict>>
      BY <2>4 DEF OfficialFails, NoHunt
    <3>2. CASE hunt.at = "official" /\ Goes("index")
      BY <3>1, <3>2, GoFits, GoShape DEF SearchInv
    <3>3. CASE hunt.at = "direct" /\ Goes(Provider(conf))
      BY <3>1, <3>3, GoFits, GoShape DEF SearchInv, Provider
    <3>4. ASSUME NEW reason, Returns(Unavailable(hunt.market, "live", reason)),
                 hunt.at # "direct"
          PROVE  SearchInv'
      <4>1. AllowsKind("live")
        BY <2>4, <3>4 DEF OfficialFails, SearchInv, AllowsKind, PureSandbox
      <4> QED  BY <3>1, <3>4, <4>1, UnavailableFits, ReturnFits
    <3> QED  BY <2>4, <3>2, <3>3, <3>4 DEF OfficialFails
  <2>5. CASE IndexAnswers
    <3>1. hunt # NoHunt /\ UNCHANGED <<conf, label, verdict>> /\ conf.backend = "opensearch"
      BY <2>5 DEF IndexAnswers, NoHunt, SearchInv
    <3>2. PICK r \in IndexRows(conf, hunt.market) : Returns(r)
      BY <2>5 DEF IndexAnswers
    <3> QED  BY <3>1, <3>2, IndexFits, ReturnFits
  <2>6. CASE IndexFails
    <3>1. hunt # NoHunt /\ UNCHANGED <<conf, label, verdict>> /\ conf.backend = "opensearch"
      BY <2>6 DEF IndexFails, NoHunt, SearchInv
    <3>2. CASE Goes("again") \/ (conf.sandbox /\ Goes("fixtures"))
      <4>1. hunt'.at = "again" \/ (conf.sandbox /\ hunt'.at = "fixtures")
        BY <3>2, GoShape DEF SearchInv
      <4>2. HuntShape' /\ UNCHANGED results
        BY <3>2, GoShape DEF SearchInv
      <4> QED  BY <3>1, <4>1, <4>2, GoFits
    <3>3. ASSUME NEW reason, Returns(Unavailable(hunt.market, "live", reason))
          PROVE  SearchInv'
      <4>1. AllowsKind("live")
        BY <3>1 DEF AllowsKind, PureSandbox
      <4> QED  BY <3>1, <3>3, <4>1, UnavailableFits, ReturnFits
    <3> QED  BY <2>6, <3>2, <3>3 DEF IndexFails
  <2>7. CASE FixturesAnswer
    <3>1. hunt # NoHunt /\ UNCHANGED <<conf, label, verdict>> /\ ShowsFixtures(conf)
      BY <2>7 DEF FixturesAnswer, NoHunt, SearchInv, ShowsFixtures
    <3>2. conf.env = "production" => AllowsKind("live")
      BY DEF AllowsKind, PureSandbox
    <3> QED  BY <2>7, <3>1, <3>2, UnavailableFits, FixturesFit, ReturnFits DEF FixturesAnswer
  <2>8. CASE ChannelAnswers
    <3>1. hunt # NoHunt
      BY <2>8 DEF ChannelAnswers, NoHunt
    <3>2. AllowsKind("live")
      BY <2>8 DEF ChannelAnswers, SearchInv, AllowsKind, PureSandbox
    <3> QED  BY <2>8, <3>1, <3>2, LiveFits, ReturnFits DEF ChannelAnswers
  <2>9. CASE ChannelFails
    <3>1. hunt # NoHunt /\ UNCHANGED <<conf, label, verdict>>
      BY <2>9 DEF ChannelFails, NoHunt
    <3>2. ASSUME NEW reason, Returns(Unavailable(hunt.market, "live", reason))
          PROVE  SearchInv'
      <4>1. AllowsKind("live")
        BY <2>9 DEF ChannelFails, SearchInv, AllowsKind, PureSandbox
      <4> QED  BY <3>1, <3>2, <4>1, UnavailableFits, ReturnFits
    <3>3. ASSUME NEW reason, FixtureFallback(conf), Returns(Fixtures(hunt.market, reason))
          PROVE  SearchInv'
      BY <3>1, <3>3, FixturesFit, ReturnFits DEF ShowsFixtures
    <3> QED  BY <2>9, <3>2, <3>3 DEF ChannelFails
  <2>10. CASE ConcludeSearch
    <3>1. /\ UNCHANGED <<conf, label, hunt, results>> /\ hunt = NoHunt
          /\ \/ verdict' = "unavailable"
             \/ Refused /\ verdict' = "refused"
             \/ ~Refused /\ verdict' = ResultKind
      BY <2>10 DEF ConcludeSearch
    <3>2. Elements(results)' = Elements(results) /\ Failed' = Failed
          /\ Refused' = Refused /\ \A q : Fits(q)' = Fits(q)
      BY <3>1 DEF Elements, Fits, AllowsKind, PureSandbox, Failed, Refused, Sources, Offered
    <3>3. /\ verdict' = "live" => label.mode = "live" /\ Failed = {}
          /\ verdict' = "refused" => Refused
          /\ verdict' \in {"live", "partial", "sandbox"} => ~Refused
      BY <3>1 DEF ResultKind, SearchInv, Modes
    <3>4. HuntShape'
      BY <3>1 DEF HuntShape, SearchInv
    <3> QED  BY <3>1, <3>2, <3>3, <3>4 DEF SearchInv
  <2>11. CASE UNCHANGED searchVars
    <3>1. UNCHANGED <<conf, label, hunt, results, verdict>>
      BY <2>11 DEF searchVars
    <3>2. Elements(results)' = Elements(results) /\ Failed' = Failed
          /\ Refused' = Refused /\ \A q : Fits(q)' = Fits(q)
      BY <3>1 DEF Elements, Fits, AllowsKind, PureSandbox, Failed, Refused, Sources, Offered
    <3>3. HuntShape'
      BY <3>1 DEF HuntShape, SearchInv
    <3> QED  BY <3>1, <3>2, <3>3 DEF SearchInv
  <2> QED  BY <2>1, <2>2, <2>3, <2>4, <2>5, <2>6, <2>7, <2>8, <2>9, <2>10, <2>11 DEF SearchNext
<1> QED  BY <1>1, <1>2, PTL DEF SearchSpec

\* No result of a task labelled live holds a fixture, rerun or new, whatever sources fail and
\* whichever fallback the settings allow, one called live has live rows of every marketplace, and
\* a task that carries the label of its ready process is not refused for it, but by a sandbox with
\* product search (product_search, item_search, ShoppingSummaryOutput).
THEOREM LiveAlwaysMeansLive == SearchSpec => []LiveMeansLive
<1>1. SearchInv => LiveMeansLive
  <2> SUFFICES ASSUME SearchInv
               PROVE  LiveMeansLive
    OBVIOUS
  <2>1. label.mode = "live" /\ verdict \in {"live", "partial"} => "fixture" \notin Offered
    BY DEF SearchInv, Refused, Sources
  <2>2. ASSUME verdict = "live", NEW r \in Elements(results)
        PROVE  r.kinds = {"live"}
    <3>1. label.mode = "live" /\ r \notin {q \in Elements(results) : q.status = "unavailable"}
      BY <2>2 DEF SearchInv, Failed
    <3>2. "fixture" \notin r.kinds
      BY <2>1, <2>2, <3>1 DEF Offered
    <3>3. r.kinds \subseteq {"live", "fixture"} /\ r.kinds # {}
      BY <3>1 DEF SearchInv, Fits, AllowsKind
    <3> QED  BY <3>2, <3>3
  <2>3. ASSUME TaskReady(conf), label.mode = DataMode(conf),
               ~(conf.sandbox /\ conf.backend = "opensearch")
        PROVE  ~Refused
    <3>1. \A kind \in Sources : AllowsKind(kind)
      BY DEF Sources, Offered, SearchInv, Fits
    <3>2. label.mode = "live" => ~ShowsFixtures(conf)
      BY <2>3 DEF TaskReady, ProductionForbids, DataMode, ShowsFixtures, FixtureFallback
    <3>3. label.mode = "sandbox" => PureSandbox
      BY <2>3 DEF TaskReady, ProductionForbids, DataMode, PureSandbox
    <3> QED  BY <3>1, <3>2, <3>3 DEF Refused, AllowsKind
  <2> QED  BY <2>1, <2>2, <2>3 DEF LiveMeansLive, SearchInv
<1> QED  BY <1>1, SearchKept, PTL

-----------------------------------------------------------------------------
(* The shape of a search *)

Places == {"none", "official", "index", "again", "direct", "fixtures", "channel"}

\* What a search returns, as the type invariant has it.
IsResult(r) == /\ r.kinds \subseteq {"live", "fixture"}
               /\ r.status \in {"ok", "degraded", "unavailable"} /\ r.reason \in Reasons

\* Every result the steps make has that shape.
LEMMA ResultShapes ==
    ASSUME NEW m
    PROVE  /\ \A kind, reason : reason \in Reasons => IsResult(Unavailable(m, kind, reason))
           /\ \A reason : reason \in Reasons => IsResult(Fixtures(m, reason))
           /\ \A status : status \in {"ok", "degraded"} =>
                 IsResult(Rows(m, {"live"}, "live", FALSE, status))
           /\ \A s : \A r \in IndexRows(s, m) : IsResult(r)
<1>1. ASSUME NEW kind, NEW reason \in Reasons
      PROVE  IsResult(Unavailable(m, kind, reason)) /\ IsResult(Fixtures(m, reason))
  BY DEF IsResult, Unavailable, Fixtures, Rows
<1>2. ASSUME NEW status \in {"ok", "degraded"}
      PROVE  IsResult(Rows(m, {"live"}, "live", FALSE, status))
  BY DEF IsResult, Rows, Reasons
<1>3. ASSUME NEW s, NEW r \in IndexRows(s, m)
      PROVE  IsResult(r)
  <2>1. PICK kinds \in (SUBSET IndexKinds(s, m)) \ {{}}, v \in Embeddings(s) :
            r = Rows(m, kinds, IF kinds = {"fixture"} THEN "fixture" ELSE "live", v.used,
                     IF v.degraded THEN "degraded" ELSE "ok")
    BY DEF IndexRows
  <2>2. r.kinds = kinds /\ r.status \in {"ok", "degraded"} /\ r.reason = "none"
    BY <2>1 DEF Rows
  <2>3. kinds \subseteq {"live", "fixture"}
    BY DEF IndexKinds
  <2> QED  BY <2>2, <2>3 DEF IsResult, Reasons
<1> QED  BY <1>1, <1>2, <1>3

\* A search that returns adds such a result.
LEMMA ReturnTyped ==
    ASSUME SearchInv, SearchTypeOK, NEW r, IsResult(r), Returns(r), UNCHANGED <<conf, label, verdict>>
    PROVE  SearchTypeOK'
<1>1. results \in Seq(Elements(results)) /\ results' = Append(results, r)
  BY DEF SearchInv, Returns
<1>2. Elements(results)' = Elements(results) \cup {r}
  <2>1. Elements(Append(results, r)) = Elements(results) \cup {r}
    BY <1>1, AppendAdds
  <2> QED  BY <1>1, <2>1
<1>3. hunt'.at = "none"
  BY DEF Returns, NoHunt
<1> QED  BY <1>2, <1>3 DEF SearchTypeOK, IsResult

\* A search that goes on leaves the results alone.
LEMMA GoTyped ==
    ASSUME SearchInv, SearchTypeOK, NEW at \in Places, Goes(at), UNCHANGED <<conf, label, verdict>>
    PROVE  SearchTypeOK'
<1>1. hunt'.at = at /\ UNCHANGED results
  BY GoShape DEF SearchInv
<1>2. Elements(results)' = Elements(results)
  BY <1>1 DEF Elements
<1> QED  BY <1>1, <1>2 DEF SearchTypeOK, Places

\* The states of a search have their shape in every step, whatever its sources answer.
THEOREM SearchTyped == SearchSpec => []SearchTypeOK
<1>1. SearchInit => SearchTypeOK
  <2> SUFFICES ASSUME SearchInit PROVE SearchTypeOK
    OBVIOUS
  <2>1. Elements(results) = {}
    BY DEF SearchInit, Elements
  <2>2. label \in [mode : Modes, planned : Plannable]
    BY DEF SearchInit
  <2> QED  BY <2>1, <2>2 DEF SearchInit, SearchTypeOK, NoHunt
<1>2. SearchInv /\ SearchTypeOK /\ [SearchNext]_searchVars => SearchTypeOK'
  <2> SUFFICES ASSUME SearchInv, SearchTypeOK, [SearchNext]_searchVars
               PROVE  SearchTypeOK'
    OBVIOUS
  <2> DEFINE m == hunt.market
  <2>0. Provider(conf) \in Places
    BY DEF Provider, Places
  <2>1. CASE BeginSearch
    <3>1. hunt'.at \in Places /\ UNCHANGED <<conf, label, results, verdict>>
      <4>1. \E market : Begins(market)
        BY <2>1 DEF BeginSearch
      <4>2. PICK market : Begins(market)
        BY <4>1
      <4>3. hunt'.at \in Places
        BY <2>0, <4>2 DEF Begins, Places
      <4> QED  BY <2>1, <4>3 DEF BeginSearch
    <3>2. Elements(results)' = Elements(results)
      BY <3>1 DEF Elements
    <3> QED  BY <3>1, <3>2 DEF SearchTypeOK, Places
  <2>2. CASE BranchFails
    BY <2>2, ResultShapes, ReturnTyped DEF BranchFails, Reasons
  <2>3. CASE OfficialAnswers
    BY <2>3, ResultShapes, ReturnTyped DEF OfficialAnswers
  <2>4. CASE OfficialFails
    <3>1. UNCHANGED <<conf, label, verdict>>
      BY <2>4 DEF OfficialFails
    <3>2. ASSUME NEW at \in Places, Goes(at)
          PROVE  SearchTypeOK'
      BY <3>1, <3>2, GoTyped
    <3>3. ASSUME NEW reason \in Reasons, Returns(Unavailable(m, "live", reason))
          PROVE  SearchTypeOK'
      BY <3>1, <3>3, ResultShapes, ReturnTyped
    <3> QED  BY <2>0, <2>4, <3>2, <3>3 DEF OfficialFails, Places, Reasons
  <2>5. CASE IndexAnswers
    <3>1. PICK r \in IndexRows(conf, m) : Returns(r)
      BY <2>5 DEF IndexAnswers
    <3>2. IsResult(r) /\ UNCHANGED <<conf, label, verdict>>
      BY <2>5, ResultShapes DEF IndexAnswers
    <3> QED  BY <3>1, <3>2, ReturnTyped
  <2>6. CASE IndexFails
    <3>1. UNCHANGED <<conf, label, verdict>>
      BY <2>6 DEF IndexFails
    <3>2. ASSUME NEW at \in Places, Goes(at)
          PROVE  SearchTypeOK'
      BY <3>1, <3>2, GoTyped
    <3>3. ASSUME NEW reason \in Reasons, Returns(Unavailable(m, "live", reason))
          PROVE  SearchTypeOK'
      BY <3>1, <3>3, ResultShapes, ReturnTyped
    <3> QED  BY <2>6, <3>2, <3>3 DEF IndexFails, Places, Reasons
  <2>7. CASE FixturesAnswer
    BY <2>7, ResultShapes, ReturnTyped DEF FixturesAnswer, Reasons
  <2>8. CASE ChannelAnswers
    BY <2>8, ResultShapes, ReturnTyped DEF ChannelAnswers
  <2>9. CASE ChannelFails
    <3>1. UNCHANGED <<conf, label, verdict>>
      BY <2>9 DEF ChannelFails
    <3>2. ASSUME NEW reason \in Reasons,
                 \/ Returns(Unavailable(m, "live", reason)) \/ Returns(Fixtures(m, reason))
          PROVE  SearchTypeOK'
      BY <3>1, <3>2, ResultShapes, ReturnTyped
    <3> QED  BY <2>9, <3>2 DEF ChannelFails, Reasons
  <2>10. CASE ConcludeSearch
    <3>1. /\ UNCHANGED <<conf, label, hunt, results>>
          /\ verdict' \in {"none", "unavailable", "refused", "live", "sandbox", "partial"}
      BY <2>10 DEF ConcludeSearch, ResultKind
    <3>2. Elements(results)' = Elements(results)
      BY <3>1 DEF Elements
    <3> QED  BY <3>1, <3>2 DEF SearchTypeOK
  <2>11. CASE UNCHANGED searchVars
    <3>1. UNCHANGED <<conf, label, hunt, results, verdict>>
      BY <2>11 DEF searchVars
    <3>2. Elements(results)' = Elements(results)
      BY <3>1 DEF Elements
    <3> QED  BY <3>1, <3>2 DEF SearchTypeOK
  <2> QED  BY <2>1, <2>2, <2>3, <2>4, <2>5, <2>6, <2>7, <2>8, <2>9, <2>10, <2>11 DEF SearchNext
<1> QED  BY <1>1, <1>2, SearchKept, PTL DEF SearchSpec

-----------------------------------------------------------------------------
(* What recall selects *)

\* Answers of the index.
Hits == [score : Int, at : Nat]

\* The mapped hits name offers of the pool, each once.
LEMMA MappedFacts ==
    ASSUME NEW hits \in Seq(Hits)
    PROVE  LET m == Mapped(hits)
           IN  /\ m \in Seq(Hits) /\ \A k \in DOMAIN m : m[k].at \in 1 .. setup.size
               /\ \A k, l \in DOMAIN m : m[k].at = m[l].at => k = l
               /\ m # <<>> => hits # <<>>
<1> DEFINE first(k) == /\ hits[k].at \in 1 .. setup.size
                       /\ \A j \in 1 .. k - 1 : hits[j].at # hits[k].at
           P == {k \in DOMAIN hits : first(k)}
           m == AtPositions(hits, P)
<1>1. Mapped(hits) = m
  BY DEF Mapped
<1>2. P \in SUBSET DOMAIN hits /\ P \in SUBSET Int /\ IsFiniteSet(P)
  <2>1. P \in SUBSET DOMAIN hits
    OBVIOUS
  <2> HIDE DEF P
  <2> QED  BY <2>1, KeptAreFinite
<1>3. \A k, l \in P : hits[k].at = hits[l].at => k = l
  <2> SUFFICES ASSUME NEW k \in P, NEW l \in P, hits[k].at = hits[l].at, k < l PROVE FALSE
    BY <1>2
  <2>1. k \in 1 .. l - 1
    BY <1>2
  <2> QED  BY <2>1
<1>4. \A k \in P : hits[k] \in Hits /\ hits[k].at \in 1 .. setup.size
  BY <1>2
<1> HIDE DEF P
<1>5. PICK pos : Arranges(m, hits, P, pos)
  BY <1>2, AtPositionsArranges
<1> HIDE DEF m
<1>6. /\ m \in Seq(Elements(m)) /\ Elements(m) = {hits[i] : i \in P}
      /\ \A k \in DOMAIN m : pos[k] \in P /\ m[k] = hits[pos[k]]
      /\ \A k, l \in DOMAIN m : pos[k] = pos[l] => k = l
  <2>1. m \in Seq(Elements(m)) /\ Elements(m) = {hits[i] : i \in P}
    BY <1>5, ArrangedFacts
  <2>2. /\ \A k \in DOMAIN m : pos[k] \in P /\ m[k] = hits[pos[k]]
        /\ \A k, l \in DOMAIN m : pos[k] = pos[l] => k = l
    BY <1>5 DEF Arranges
  <2> QED  BY <2>1, <2>2
<1>7. m \in Seq(Hits)
  <2>1. Elements(m) \subseteq Hits
    BY <1>4, <1>6
  <2> QED  BY <1>6, <2>1
<1>8. m # <<>> => hits # <<>>
  <2> SUFFICES ASSUME hits = <<>> PROVE m = <<>>
    OBVIOUS
  <2>1. DOMAIN m = {}
    BY <1>2, <1>6
  <2> QED  BY <1>7, <2>1
<1>9. \A k \in DOMAIN m : m[k].at \in 1 .. setup.size
  BY <1>4, <1>6
<1>10. \A k, l \in DOMAIN m : m[k].at = m[l].at => k = l
  BY <1>3, <1>6
<1> QED  BY <1>1, <1>7, <1>8, <1>9, <1>10

\* Positions of the pool, none of them twice.
Positions(s) == s \in Seq(Nat) /\ \A k, l \in DOMAIN s : s[k] = s[l] => k = l

\* The first of some positions are positions, and some.
LEMMA TakenPositions ==
    ASSUME NEW s, Positions(s), s # <<>>, NEW n \in Nat \ {0}
    PROVE  Positions(Take(s, n)) /\ Take(s, n) # <<>>
<1>1. /\ Take(s, n) \in Seq(Nat)
      /\ Len(Take(s, n)) = IF Len(s) < n THEN Len(s) ELSE n
      /\ \A k \in DOMAIN Take(s, n) : k \in DOMAIN s /\ Take(s, n)[k] = s[k]
  BY TakenFacts DEF Positions
<1>2. Len(s) \in Nat \ {0}
  BY DEF Positions
<1> QED  BY <1>1, <1>2 DEF Positions

\* A missing score counts as none.
LEMMA OfTyped == ASSUME NEW f \in Seq(Int), NEW i PROVE Of(f, i) \in Int
BY DEF Of

\* The scores are lists of numbers.
ScoresAreNumbers == /\ scores.user \in Seq(Int) /\ scores.rerank \in Seq(Int)
               /\ scores.item \in Seq(Int) /\ scores.category \in Seq(Int)

\* Ordering by the index, ties broken by the other scores, keeps every hit once.
LEMMA ByIndexFacts ==
    ASSUME NEW hits \in Seq(Hits), \A k, l \in DOMAIN hits : hits[k].at = hits[l].at => k = l,
           ScoresAreNumbers
    PROVE  Positions(ByIndex(hits)) /\ (hits # <<>> => ByIndex(hits) # <<>>)
<1> DEFINE n == Len(hits)
           Key(hit) == <<-hit.score, -Of(scores.rerank, hit.at), -Of(scores.user, hit.at),
                         -Of(scores.item, hit.at), -Of(scores.category, hit.at), hit.at>>
           keys == [i \in DOMAIN hits |-> Key(hits[i])]
           ranked == Sorted(hits, keys)
           at == [k \in DOMAIN ranked |-> ranked[k].at]
<1>1. ByIndex(hits) = at
  BY DEF ByIndex, SortBy
<1>2. n \in Nat /\ DOMAIN hits = 1 .. n /\ \A k \in 1 .. n : hits[k] \in Hits
  OBVIOUS
<1>3. keys \in [1 .. n -> [1 .. 6 -> Int]]
  <2>1. ASSUME NEW i \in 1 .. n PROVE Key(hits[i]) \in [1 .. 6 -> Int]
    <3>1. hits[i] \in Hits
      OBVIOUS
    <3>2. /\ hits[i].score \in Int /\ hits[i].at \in Int
          /\ Of(scores.rerank, hits[i].at) \in Int /\ Of(scores.user, hits[i].at) \in Int
          /\ Of(scores.item, hits[i].at) \in Int /\ Of(scores.category, hits[i].at) \in Int
      <4>1. hits[i].score \in Int /\ hits[i].at \in Int
        BY <3>1 DEF Hits
      <4> QED  BY <4>1, OfTyped DEF ScoresAreNumbers
    <3>3. Key(hits[i]) \in Seq(Int) /\ Len(Key(hits[i])) = 6
      <4>1. ASSUME NEW a \in Int, NEW b \in Int, NEW c \in Int, NEW d \in Int, NEW e \in Int,
                   NEW f \in Int
            PROVE  <<-a, -b, -c, -d, -e, f>> \in Seq(Int) /\ Len(<<-a, -b, -c, -d, -e, f>>) = 6
        OBVIOUS
      <4> QED  BY <3>2, <4>1
    <3> HIDE DEF Key
    <3> QED  BY <3>3, AsFunction
  <2> HIDE DEF Key
  <2> QED  BY <1>2, <2>1
<1> HIDE DEF keys, n
<1>4. PICK pos : Arranges(ranked, hits, 1 .. n, pos)
  BY <1>2, <1>3, SortedArranges
<1> HIDE DEF ranked
<1>5. Cardinality(1 .. n) = n
  BY <1>2, FS_Interval
<1>6. /\ DOMAIN ranked = 1 .. n
      /\ \A k \in 1 .. n : pos[k] \in 1 .. n /\ ranked[k] = hits[pos[k]]
      /\ \A k, l \in 1 .. n : pos[k] = pos[l] => k = l
  BY <1>4, <1>5 DEF Arranges
<1>7. \A k \in 1 .. n : hits[k].at \in Nat
  BY <1>2 DEF Hits
<1>8. at \in [1 .. n -> Nat]
  BY <1>6, <1>7
<1>9. \A k \in 1 .. n : at[k] = hits[pos[k]].at
  BY <1>6
<1> HIDE DEF at
<1>10. at \in Seq(Nat) /\ DOMAIN at = 1 .. n
  BY <1>2, <1>8
<1>11. Positions(at)
  BY <1>2, <1>6, <1>9, <1>10 DEF Positions
<1>12. hits # <<>> => at # <<>>
  BY <1>2, <1>10
<1> QED  BY <1>1, <1>11, <1>12

\* Ordering by the scores keeps the whole pool.
LEMMA ByScoresFacts ==
    ASSUME setup.size \in Nat, ScoresAreNumbers
    PROVE  Positions(ByScores) /\ (setup.size > 0 => ByScores # <<>>)
<1> DEFINE n == setup.size
           Key(i) == <<-Of(scores.user, i), -Of(scores.rerank, i), -Of(scores.category, i), i>>
           keys == [i \in DOMAIN Pool |-> Key(Pool[i])]
           ranked == Sorted(Pool, keys)
<1>1. ByScores = ranked
  BY DEF ByScores, SortBy
<1>2. n \in Nat /\ DOMAIN Pool = 1 .. n /\ \A i \in 1 .. n : Pool[i] = i
  BY DEF Pool
<1>3. keys \in [1 .. n -> [1 .. 4 -> Int]]
  <2>1. ASSUME NEW i \in 1 .. n PROVE Key(i) \in [1 .. 4 -> Int]
    <3>1. /\ i \in Int /\ Of(scores.rerank, i) \in Int /\ Of(scores.user, i) \in Int
          /\ Of(scores.category, i) \in Int
      BY <1>2, OfTyped DEF ScoresAreNumbers
    <3> QED  BY <3>1
  <2> HIDE DEF Key
  <2> QED  BY <1>2, <2>1
<1> HIDE DEF keys, n
<1>4. PICK pos : Arranges(ranked, Pool, 1 .. n, pos)
  BY <1>2, <1>3, SortedArranges
<1> HIDE DEF ranked
<1>5. Cardinality(1 .. n) = n
  BY <1>2, FS_Interval
<1>6. /\ DOMAIN ranked = 1 .. n
      /\ \A k \in 1 .. n : pos[k] \in 1 .. n /\ ranked[k] = pos[k]
      /\ \A k, l \in 1 .. n : pos[k] = pos[l] => k = l
  BY <1>2, <1>4, <1>5 DEF Arranges
<1>7. ranked \in Seq(Nat)
  <2>1. ranked \in Seq(Elements(ranked))
    BY <1>4, ArrangedFacts
  <2>2. Elements(ranked) \subseteq Nat
    BY <1>2, <1>6 DEF Elements
  <2> QED  BY <2>1, <2>2
<1>8. Positions(ranked)
  BY <1>6, <1>7 DEF Positions
<1>9. n > 0 => ranked # <<>>
  BY <1>2, <1>6
<1> QED  BY <1>1, <1>8, <1>9 DEF n

\* What a channel can be reported as.
States == {"configured", "ready", "degraded", "unavailable"}
\* The reasons a report can give.
Causes ==
    {"initial", "ready", "failed", "partial", "category_fallback", "product_ann_partial",
     "product_ann_unavailable", "semantic_fallback", "request_failed",
     "empty_candidate_set", "query_tower_unavailable", "item_tower_unavailable",
     "empty_response", "faiss_id_mapping_failed"}

\* Reports of the channels.
Reports == [configured : BOOLEAN, part : BOOLEAN, reason : Causes, state : States]

\* Reports of personalization.
Personas == [part : BOOLEAN, state : States]

\* The scores and the usable hits of the index.
Signals ==
    [user : Seq(Int), rerank : Seq(Int), item : Seq(Int), category : Seq(Int), hits : Seq(Hits)]

\* A report is changed for one channel only.
LEMMA SetFacts ==
    ASSUME NEW f \in [Channels -> Reports], NEW c \in Channels, NEW state \in States,
           NEW reason \in Causes, NEW part \in BOOLEAN
    PROVE  /\ Set(f, c, state, reason, part) \in [Channels -> Reports]
           /\ Set(f, c, state, reason, part)[c].configured = f[c].configured
           /\ Set(f, c, state, reason, part)[c].state = state
           /\ Set(f, c, state, reason, part)[c].part = part
           /\ \A d \in Channels : d # c => Set(f, c, state, reason, part)[d] = f[d]
BY DEF Set, Reports

\* What the report of OpenSearch owes to the product search and the category knowledge.
OpenSearchSays(r) ==
    /\ r.configured = Conf.opensearch
    /\ r.configured => r.state \in {"ready", "degraded"}
    /\ r.state = "ready" => setup.insight.ok /\ setup.product \in {"legacy", "complete"}

\* Influence and report go together: a user score only with personalization reported, hits only
\* of an index that is ready and was given every vector, category scores only of live knowledge,
\* and OpenSearch ready only if its knowledge was, so that what the last step reads is what the
\* provenance shows.
RecallInv ==
    /\ stage \in {"begin", "towers", "index", "scores", "select", "done"}
    /\ setup.size \in PoolSizes /\ setup.conf \in RecallSettings
    /\ setup.insight \in Insights(Conf) /\ setup.product \in ProductChoices(Conf)
    /\ channels \in [Channels -> Reports] /\ persona \in Personas
    /\ scores \in Signals
    /\ scores.user # <<>> => persona.part
    /\ scores.category # <<>> => setup.insight.live
    /\ stage \in {"begin", "towers"} => scores.hits = <<>>
    /\ stage # "done" =>
          /\ \A c \in Channels : c # "opensearch" => ~channels[c].part
          /\ scores.hits # <<>> => /\ channels["faiss"].state = "ready"
                                   /\ vectors.query /\ vectors.items = setup.size
    /\ stage = "begin" => /\ channels["opensearch"].configured = Conf.opensearch
                          /\ channels["opensearch"].state \in {"configured", "unavailable"}
    /\ stage \notin {"begin", "done"} => OpenSearchSays(channels["opensearch"])
    /\ stage = "done" => RecallDisclosed

\* The first step reports OpenSearch as the product search and the category knowledge answered,
\* and no other channel.
LEMMA OpenSearchReported ==
    ASSUME RecallInv, stage = "begin"
    PROVE  LET f == OpenSearchReport(channels)
           IN  /\ f \in [Channels -> Reports] /\ OpenSearchSays(f["opensearch"])
               /\ \A c \in Channels : c # "opensearch" => f[c] = channels[c]
<1> DEFINE said(state, reason, part) == Set(channels, "opensearch", state, reason, part)
           Proper(f) == /\ f \in [Channels -> Reports] /\ OpenSearchSays(f["opensearch"])
                        /\ \A c \in Channels : c # "opensearch" => f[c] = channels[c]
<1>1. /\ channels \in [Channels -> Reports] /\ "opensearch" \in Channels
      /\ channels["opensearch"].configured = Conf.opensearch
  BY DEF RecallInv, Channels
<1>2. setup.product \in {"legacy", "unused", "partial", "complete"}
  BY DEF RecallInv, ProductChoices
<1>3. ASSUME NEW state \in States, NEW reason \in Causes, NEW part \in BOOLEAN
      PROVE  /\ said(state, reason, part) \in [Channels -> Reports]
             /\ said(state, reason, part)["opensearch"].configured = Conf.opensearch
             /\ said(state, reason, part)["opensearch"].state = state
             /\ \A d \in Channels : d # "opensearch" => said(state, reason, part)[d] = channels[d]
  BY <1>1, SetFacts
<1> HIDE DEF said
<1>4. ASSUME NEW part \in BOOLEAN, setup.insight.ok, setup.product \in {"legacy", "complete"}
      PROVE  Proper(said("ready", "ready", part))
  <2>1. "ready" \in States /\ "ready" \in Causes
    BY DEF States, Causes
  <2> QED  BY <1>3, <1>4, <2>1 DEF OpenSearchSays
<1>5. ASSUME NEW reason \in Causes, NEW part \in BOOLEAN
      PROVE  Proper(said("degraded", reason, part))
  <2>1. "degraded" \in States
    BY DEF States
  <2> QED  BY <1>3, <1>5, <2>1 DEF OpenSearchSays
<1>6. CASE ~channels["opensearch"].configured
  <2>1. OpenSearchReport(channels) = channels
    BY <1>6 DEF OpenSearchReport
  <2>2. channels["opensearch"].state # "ready"
    BY DEF RecallInv
  <2> QED  BY <1>1, <1>6, <2>1, <2>2 DEF OpenSearchSays
<1>7. CASE channels["opensearch"].configured
  <2> DEFINE g == OpenSearchReport(channels)
  <2> SUFFICES Proper(g)
    OBVIOUS
  <2>1. g = IF setup.product = "complete"
            THEN IF setup.insight.ok THEN said("ready", "ready", TRUE)
                                     ELSE said("degraded", "category_fallback", TRUE)
            ELSE IF setup.product = "partial" THEN said("degraded", "product_ann_partial", TRUE)
            ELSE IF setup.product = "unused"
            THEN said("degraded", "product_ann_unavailable", FALSE)
            ELSE IF setup.insight.live
            THEN IF setup.insight.ok THEN said("ready", "ready", FALSE)
                                     ELSE said("degraded", "semantic_fallback", FALSE)
            ELSE said("degraded", "request_failed", FALSE)
    BY <1>7 DEF OpenSearchReport, said
  <2> HIDE DEF g, Proper
  <2>2. \A part \in BOOLEAN : setup.insight.ok /\ setup.product \in {"legacy", "complete"}
                               => Proper(said("ready", "ready", part))
    BY <1>4
  <2>3. /\ {"category_fallback", "product_ann_partial", "product_ann_unavailable",
            "semantic_fallback", "request_failed"} \subseteq Causes
        /\ \A reason \in Causes, part \in BOOLEAN : Proper(said("degraded", reason, part))
    BY <1>5 DEF Causes
  <2> QED  BY <1>2, <2>1, <2>2, <2>3
<1> QED  BY <1>6, <1>7

\* Selection returns positions of the pool, some if there are any, and every reordering has a
\* cause that is among the scores.
LEMMA SelectionFacts ==
    ASSUME RecallInv
    PROVE  /\ Positions(Selection.offers)
           /\ setup.size > 0 => Selection.offers # <<>>
           /\ Selection.used \subseteq Channels
           /\ Mapped(scores.hits) # <<>> => Selection.used = Channels /\ ~Selection.lost
           /\ "faiss" \in Selection.used => Mapped(scores.hits) # <<>>
           /\ Selection.lost => scores.hits # <<>> /\ Mapped(scores.hits) = <<>>
           /\ Selection.lost \in BOOLEAN
           /\ \/ \A i \in DOMAIN Selection.offers : Selection.offers[i] = i
              \/ scores.user # <<>> \/ scores.rerank # <<>>
              \/ "opensearch" \in Selection.used /\ scores.category # <<>>
              \/ Selection.used = Channels /\ scores.hits # <<>> /\ ~Selection.lost
<1> DEFINE m == Mapped(scores.hits)
<1>1. /\ scores.hits \in Seq(Hits) /\ ScoresAreNumbers /\ setup.size \in Nat
      /\ setup.size > 0 => RecallLimit \in Nat \ {0}
      /\ RecallLimit \in Nat
  <2>1. scores \in Signals /\ setup.size \in Nat /\ TopK \in Nat \ {0}
    BY RecallAssumption DEF RecallInv
  <2>2. scores.hits \in Seq(Hits) /\ ScoresAreNumbers
    BY <2>1 DEF Signals, ScoresAreNumbers
  <2> QED  BY <2>1, <2>2 DEF RecallLimit
<1>2. /\ m \in Seq(Hits) /\ \A k \in DOMAIN m : m[k].at \in 1 .. setup.size
      /\ \A k, l \in DOMAIN m : m[k].at = m[l].at => k = l
      /\ m # <<>> => scores.hits # <<>>
  BY <1>1, MappedFacts
<1> HIDE DEF m
<1>3. Positions(Pool) /\ (\A i \in DOMAIN Pool : Pool[i] = i) /\ (setup.size > 0 => Pool # <<>>)
  <2>1. Pool \in [1 .. setup.size -> Nat]
    BY <1>1 DEF Pool
  <2>2. Pool \in Seq(Nat)
    BY <1>1, <2>1
  <2>3. DOMAIN Pool = 1 .. setup.size /\ \A i \in DOMAIN Pool : Pool[i] = i
    BY DEF Pool
  <2>4. setup.size > 0 => Pool # <<>>
    BY <1>1, <2>3
  <2> QED  BY <2>2, <2>3, <2>4 DEF Positions
<1>4. CASE m # <<>>
  <2>1. Selection = [offers |-> Take(ByIndex(m), RecallLimit), used |-> Channels, lost |-> FALSE]
    BY <1>2, <1>4 DEF Selection, m
  <2>2. setup.size > 0
    <3>1. 1 \in DOMAIN m
      BY <1>2, <1>4
    <3> QED  BY <1>1, <1>2, <3>1
  <2>3. Positions(ByIndex(m)) /\ ByIndex(m) # <<>>
    BY <1>1, <1>2, <1>4, ByIndexFacts
  <2>4. Positions(Take(ByIndex(m), RecallLimit)) /\ Take(ByIndex(m), RecallLimit) # <<>>
    BY <1>1, <2>2, <2>3, TakenPositions
  <2> QED  BY <1>2, <1>4, <2>1, <2>4 DEF m
<1>5. CASE m = <<>> /\ scores.hits # <<>>
  <2>1. Selection = [offers |-> Pool, used |-> {}, lost |-> TRUE]
    BY <1>5 DEF Selection, m
  <2> QED  BY <1>3, <1>5, <2>1 DEF m, Channels
<1>6. CASE m = <<>> /\ scores.hits = <<>>
  <2>1. CASE scores.user # <<>> \/ scores.rerank # <<>> \/ SomeScore(scores.category)
    <3>1. Selection =
            [offers |-> Take(ByScores, RecallLimit), lost |-> FALSE,
             used |-> IF SomeScore(scores.category) THEN {"opensearch"} ELSE {}]
      BY <1>6, <2>1 DEF Selection, m
    <3>2. SomeScore(scores.category) => scores.category # <<>>
      BY DEF SomeScore
    <3>3. Positions(ByScores) /\ (setup.size > 0 => ByScores # <<>>)
      BY <1>1, ByScoresFacts
    <3>4. Positions(Take(ByScores, RecallLimit))
      <4>1. CASE setup.size > 0
        BY <1>1, <3>3, <4>1, TakenPositions
      <4>2. CASE setup.size = 0
        <5>1. RecallLimit = 0
          BY <1>1, <4>2, RecallAssumption DEF RecallLimit
        <5>2. Take(ByScores, RecallLimit) = <<>>
          BY <3>3, <5>1 DEF Take, Positions
        <5> QED  BY <5>2 DEF Positions
      <4> QED  BY <1>1, <4>1, <4>2
    <3>5. setup.size > 0 => Take(ByScores, RecallLimit) # <<>>
      BY <1>1, <3>3, TakenPositions
    <3> QED  BY <1>6, <2>1, <3>1, <3>2, <3>4, <3>5 DEF m, Channels
  <2>2. CASE ~(scores.user # <<>> \/ scores.rerank # <<>> \/ SomeScore(scores.category))
    <3>1. Selection = [offers |-> Pool, used |-> {}, lost |-> FALSE]
      BY <1>6, <2>2 DEF Selection, m
    <3> QED  BY <1>3, <1>6, <3>1 DEF m, Channels
  <2> QED  BY <2>1, <2>2
<1> QED  BY <1>4, <1>5, <1>6

-----------------------------------------------------------------------------
(* Recall discloses *)

\* Recall starts with every channel as configured, and with no score.
LEMMA StrongAtStart == RecallInit => RecallInv
<1> SUFFICES ASSUME RecallInit PROVE RecallInv
  OBVIOUS
<1>1. PICK s \in RecallSettings, size \in PoolSizes, wish \in {"absent", "empty", "saved"} :
       \E insight \in Insights(s), product \in ProductChoices(s) :
         /\ setup = [conf |-> s, size |-> size, insight |-> insight, product |-> product,
                     wish |-> wish]
         /\ channels = Report(s) /\ persona = Persona(s, wish)
  BY DEF RecallInit
<1>2. /\ setup.size \in PoolSizes /\ setup.conf \in RecallSettings /\ Conf = s
      /\ setup.insight \in Insights(Conf) /\ setup.product \in ProductChoices(Conf)
  BY <1>1 DEF Conf
<1>3. \A c \in Channels : Configured(s, c) \in BOOLEAN
  BY RecallAssumption DEF Configured, Channels
<1>4. /\ channels \in [Channels -> Reports]
      /\ \A c \in Channels : ~channels[c].part
      /\ channels["opensearch"].configured = Conf.opensearch
      /\ channels["opensearch"].state \in {"configured", "unavailable"}
  <2>1. /\ \A c \in Channels : channels[c] =
              [configured |-> Configured(s, c), part |-> FALSE, reason |-> "initial",
               state |-> IF Configured(s, c) THEN "configured" ELSE "unavailable"]
        /\ channels = [c \in Channels |-> channels[c]]
    BY <1>1 DEF Report
  <2>2. ASSUME NEW c \in Channels PROVE channels[c] \in Reports
    <3>1. PICK state \in {"configured", "unavailable"}, known \in BOOLEAN :
             channels[c] = [configured |-> known, part |-> FALSE, reason |-> "initial",
                            state |-> state]
      BY <1>3, <2>1
    <3> QED  BY <3>1 DEF Reports, States, Causes
  <2>3. "opensearch" \in Channels /\ Configured(s, "opensearch") = s.opensearch
    BY DEF Channels, Configured
  <2> QED  BY <1>2, <2>1, <2>2, <2>3
<1>5. persona \in Personas
  BY <1>1 DEF Persona, Personas, States
<1>6. scores \in Signals /\ scores.hits = <<>> /\ scores.user = <<>> /\ scores.category = <<>>
  BY DEF RecallInit, Signals
<1> QED  BY <1>2, <1>4, <1>5, <1>6 DEF RecallInit, RecallInv

\* BeginRecall, an empty pool included.
LEMMA StrongAfterBegin == RecallInv /\ BeginRecall => RecallInv'
<1> SUFFICES ASSUME RecallInv, BeginRecall PROVE RecallInv'
  OBVIOUS
<1> DEFINE f == OpenSearchReport(channels)
<1>1. /\ f \in [Channels -> Reports] /\ OpenSearchSays(f["opensearch"])
      /\ \A c \in Channels : c # "opensearch" => f[c] = channels[c]
  BY OpenSearchReported DEF BeginRecall
<1>2. /\ stage = "begin" /\ stage' \in {"towers", "scores"} /\ channels' \in {f, EmptyPool(f)}
      /\ UNCHANGED <<setup, vectors, scores, outcome>>
      /\ persona' \in {persona, [persona EXCEPT !.state = "degraded"]}
  BY DEF BeginRecall
<1>3. "opensearch" \in Channels /\ \A c \in Channels : c # "opensearch" => ~f[c].part
  BY <1>1, <1>2 DEF RecallInv, Channels
<1> HIDE DEF f
<1>4. /\ channels' \in [Channels -> Reports] /\ channels'["opensearch"] = f["opensearch"]
      /\ \A c \in Channels : c # "opensearch" => ~channels'[c].part
  <2>1. /\ EmptyPool(f) \in [Channels -> Reports] /\ EmptyPool(f)["opensearch"] = f["opensearch"]
        /\ \A c \in Channels : c # "opensearch" => ~EmptyPool(f)[c].part
    BY <1>1, <1>3 DEF EmptyPool, Reports, States, Causes
  <2> QED  BY <1>1, <1>2, <1>3, <2>1
<1>5. persona' \in Personas /\ persona'.part = persona.part
  BY <1>2 DEF RecallInv, Personas, States
<1>6. OpenSearchSays(channels["opensearch"])'
  BY <1>1, <1>2, <1>4 DEF OpenSearchSays, Conf
<1>7. scores.hits = <<>>
  BY <1>2 DEF RecallInv
<1> QED  BY <1>2, <1>4, <1>5, <1>6, <1>7 DEF RecallInv, Conf

\* A report that a channel other than OpenSearch has not (yet) taken part.
LEMMA ChannelReported ==
    ASSUME channels \in [Channels -> Reports],
           \A c \in Channels : c # "opensearch" => ~channels[c].part,
           NEW d \in Channels, d # "opensearch", NEW state \in States, NEW reason \in Causes,
           channels' = Set(channels, d, state, reason, FALSE)
    PROVE  /\ channels' \in [Channels -> Reports]
           /\ channels'["opensearch"] = channels["opensearch"]
           /\ \A c \in Channels : c # "opensearch" => ~channels'[c].part
           /\ channels'[d].state = state
<1>1. channels'[d] = [channels[d] EXCEPT !.state = state, !.reason = reason, !.part = FALSE]
  BY DEF Set
<1>2. channels'[d] \in Reports /\ channels'[d].state = state /\ ~channels'[d].part
  <2>1. channels[d] \in Reports
    OBVIOUS
  <2> QED  BY <1>1, <2>1 DEF Reports
<1>3. /\ channels' = [c \in Channels |-> channels'[c]]
      /\ \A c \in Channels : c # d => channels'[c] = channels[c]
  <2>1. channels' = [channels EXCEPT ![d] = channels'[d]]
    BY DEF Set
  <2> QED  BY <2>1
<1>4. "opensearch" \in Channels
  BY DEF Channels
<1> QED  BY <1>2, <1>3, <1>4

\* What the three towers have in common: they report, and change no score.
LEMMA StrongAfterTower ==
    ASSUME RecallInv, stage \in {"towers", "index", "scores", "select"},
           scores' = scores, setup' = setup,
           stage' = stage, scores.hits = <<>>, persona' \in Personas, persona'.part = persona.part,
           \/ channels' = channels
           \/ \E c \in Channels \ {"opensearch"}, state \in States, reason \in Causes :
                 channels' = Set(channels, c, state, reason, FALSE)
    PROVE  RecallInv'
<1>1. /\ channels' \in [Channels -> Reports] /\ channels'["opensearch"] = channels["opensearch"]
      /\ \A c \in Channels : c # "opensearch" => ~channels'[c].part
  <2>1. /\ channels \in [Channels -> Reports]
        /\ \A c \in Channels : c # "opensearch" => ~channels[c].part
    BY DEF RecallInv
  <2>2. CASE channels' = channels
    BY <2>1, <2>2
  <2>3. CASE \E c \in Channels \ {"opensearch"}, state \in States, reason \in Causes :
                channels' = Set(channels, c, state, reason, FALSE)
    <3>1. PICK c \in Channels \ {"opensearch"}, state \in States, reason \in Causes :
                channels' = Set(channels, c, state, reason, FALSE)
      BY <2>3
    <3>2. "opensearch" \in Channels
      BY DEF Channels
    <3> QED  BY <2>1, <3>1, <3>2, ChannelReported
  <2> QED  BY <2>2, <2>3
<1>2. OpenSearchSays(channels["opensearch"])'
  BY <1>1 DEF OpenSearchSays, Conf, RecallInv
<1> QED  BY <1>1, <1>2 DEF RecallInv, Conf

\* The Query Tower answers or fails.
LEMMA StrongAfterQuery == RecallInv /\ QueryTower => RecallInv'
<1> SUFFICES ASSUME RecallInv, QueryTower PROVE RecallInv'
  OBVIOUS
<1>1. /\ stage = "towers" /\ stage' = stage /\ setup' = setup /\ scores' = scores
      /\ persona' = persona
      /\ \/ channels' = channels
         \/ channels' = Set(channels, "query_tower", "ready", "ready", FALSE)
         \/ channels' = Set(channels, "query_tower", "unavailable", "failed", FALSE)
  BY DEF QueryTower
<1>2. /\ "query_tower" \in Channels \ {"opensearch"}
      /\ {"ready", "unavailable"} \subseteq States
      /\ {"ready", "failed"} \subseteq Causes
  BY DEF Channels, States, Causes
<1>3. scores.hits = <<>> /\ persona \in Personas
  BY <1>1 DEF RecallInv
<1> QED  BY <1>1, <1>2, <1>3, StrongAfterTower

\* The Item Tower embeds all, some or none of the offers.
LEMMA StrongAfterItem == RecallInv /\ ItemTower => RecallInv'
<1> SUFFICES ASSUME RecallInv, ItemTower PROVE RecallInv'
  OBVIOUS
<1>1. /\ stage = "towers" /\ stage' = stage /\ setup' = setup /\ scores' = scores
      /\ persona' = persona
      /\ \/ channels' = channels
         \/ channels' = Set(channels, "item_tower", "ready", "ready", FALSE)
         \/ channels' = Set(channels, "item_tower", "degraded", "partial", FALSE)
         \/ channels' = Set(channels, "item_tower", "unavailable", "failed", FALSE)
  <2>1. CASE ~channels["item_tower"].configured
    BY <2>1 DEF ItemTower
  <2>2. CASE channels["item_tower"].configured
    <3>1. PICK n \in 0 .. setup.size :
               channels' = CASE n = setup.size ->
                                    Set(channels, "item_tower", "ready", "ready", FALSE)
                             [] n \in 1 .. setup.size - 1 ->
                                    Set(channels, "item_tower", "degraded", "partial", FALSE)
                             [] OTHER ->
                                    Set(channels, "item_tower", "unavailable", "failed", FALSE)
      BY <2>2 DEF ItemTower
    <3>2. setup.size \in Nat
      BY RecallAssumption DEF RecallInv
    <3>4. n = setup.size => n \notin 1 .. setup.size - 1
      BY <3>2
    <3>5. \/ channels' = Set(channels, "item_tower", "ready", "ready", FALSE)
          \/ channels' = Set(channels, "item_tower", "degraded", "partial", FALSE)
          \/ channels' = Set(channels, "item_tower", "unavailable", "failed", FALSE)
      BY <3>1, <3>4
    <3> QED  BY <3>5, <2>2 DEF ItemTower
  <2> QED  BY <2>1, <2>2
<1>2. /\ "item_tower" \in Channels \ {"opensearch"}
      /\ {"ready", "degraded", "unavailable"} \subseteq States
      /\ {"ready", "partial", "failed"} \subseteq Causes
  BY DEF Channels, States, Causes
<1>3. scores.hits = <<>> /\ persona \in Personas
  BY <1>1 DEF RecallInv
<1> QED  BY <1>1, <1>2, <1>3, StrongAfterTower

\* The User Tower answers, fails or is not asked.
LEMMA StrongAfterUser == RecallInv /\ UserTower => RecallInv'
<1> SUFFICES ASSUME RecallInv, UserTower PROVE RecallInv'
  OBVIOUS
<1>1. /\ stage = "towers" /\ stage' = stage /\ setup' = setup /\ scores' = scores
      /\ channels' = channels
      /\ persona' \in {persona, [persona EXCEPT !.state = "ready"],
                       [persona EXCEPT !.state = "degraded"]}
  BY DEF UserTower
<1>2. persona' \in Personas /\ persona'.part = persona.part
  BY <1>1 DEF RecallInv, Personas, States
<1>3. scores.hits = <<>>
  BY <1>1 DEF RecallInv
<1> QED  BY <1>1, <1>2, <1>3, StrongAfterTower

\* The index is asked only with every vector, and reported as it answers.
LEMMA StrongAfterSearch == RecallInv /\ SearchIndex => RecallInv'
<1> SUFFICES ASSUME RecallInv, SearchIndex PROVE RecallInv'
  OBVIOUS
<1>1. /\ stage = "towers" /\ stage' = "index" /\ UNCHANGED <<setup, persona, vectors, outcome>>
      /\ scores.hits = <<>> /\ scores \in Signals
  BY DEF SearchIndex, RecallInv
<1>2. /\ "faiss" \in Channels /\ "faiss" # "opensearch" /\ "opensearch" \in Channels
      /\ {"ready", "degraded", "unavailable"} \subseteq States
      /\ {"failed", "ready", "empty_response", "query_tower_unavailable",
          "item_tower_unavailable"} \subseteq Causes
  BY DEF Channels, States, Causes
<1>3. \/ channels' = channels /\ scores' = scores
      \/ /\ scores' = scores
         /\ \E reason \in {"failed", "query_tower_unavailable", "item_tower_unavailable"} :
               channels' = Set(channels, "faiss", "unavailable", reason, FALSE)
      \/ /\ IndexUsable
         /\ \E hits \in HitChoices :
               /\ scores' = [scores EXCEPT !.hits = hits]
               /\ \/ channels' = Set(channels, "faiss", "ready", "ready", FALSE)
                  \/ /\ channels' = Set(channels, "faiss", "degraded", "empty_response", FALSE)
                     /\ hits = <<>>
  BY DEF SearchIndex
<1>4. /\ channels \in [Channels -> Reports]
      /\ \A c \in Channels : c # "opensearch" => ~channels[c].part
      /\ OpenSearchSays(channels["opensearch"])
  BY <1>1 DEF RecallInv
<1>5. /\ channels' \in [Channels -> Reports] /\ channels'["opensearch"] = channels["opensearch"]
      /\ \A c \in Channels : c # "opensearch" => ~channels'[c].part
  <2>1. \/ channels' = channels
        \/ \E state \in States, reason \in Causes :
              channels' = Set(channels, "faiss", state, reason, FALSE)
    BY <1>2, <1>3
  <2>2. CASE channels' = channels
    BY <1>4, <2>2
  <2>3. CASE \E state \in States, reason \in Causes :
              channels' = Set(channels, "faiss", state, reason, FALSE)
    <3>1. PICK state \in States, reason \in Causes :
              channels' = Set(channels, "faiss", state, reason, FALSE)
      BY <2>3
    <3> QED  BY <1>2, <1>4, <3>1, ChannelReported
  <2> QED  BY <2>1, <2>2, <2>3
<1>6. /\ scores' \in Signals /\ scores'.user = scores.user /\ scores'.category = scores.category
      /\ scores'.hits # <<>> => /\ channels'["faiss"].state = "ready"
                                /\ vectors.query /\ vectors.items = setup.size
  <2>1. CASE scores' = scores
    BY <1>1, <2>1
  <2>2. CASE IndexUsable /\ \E hits \in HitChoices :
               /\ scores' = [scores EXCEPT !.hits = hits]
               /\ \/ channels' = Set(channels, "faiss", "ready", "ready", FALSE)
                  \/ /\ channels' = Set(channels, "faiss", "degraded", "empty_response", FALSE)
                     /\ hits = <<>>
    <3>1. PICK hits \in HitChoices :
               /\ scores' = [scores EXCEPT !.hits = hits]
               /\ \/ channels' = Set(channels, "faiss", "ready", "ready", FALSE)
                  \/ /\ channels' = Set(channels, "faiss", "degraded", "empty_response", FALSE)
                     /\ hits = <<>>
      BY <2>2
    <3>2. hits \in Seq(Hits)
      BY RecallAssumption DEF Hits
    <3>3. /\ scores' \in Signals /\ scores'.user = scores.user /\ scores'.hits = hits
          /\ scores'.category = scores.category
      BY <1>1, <3>1, <3>2 DEF Signals
    <3>4. hits # <<>> => channels'["faiss"].state = "ready"
      <4> SUFFICES ASSUME hits # <<>> PROVE channels'["faiss"].state = "ready"
        OBVIOUS
      <4>1. channels' = Set(channels, "faiss", "ready", "ready", FALSE)
        BY <3>1
      <4> QED  BY <1>2, <1>4, <4>1, ChannelReported
    <3> QED  BY <2>2, <3>3, <3>4 DEF IndexUsable
  <2> QED  BY <1>3, <2>1, <2>2
<1>7. OpenSearchSays(channels["opensearch"])'
  BY <1>1, <1>4, <1>5 DEF OpenSearchSays, Conf
<1> QED  BY <1>1, <1>5, <1>6, <1>7 DEF RecallInv, Conf

\* User and query scores, dropped if they are for another number of offers.
LEMMA StrongAfterScores == RecallInv /\ ScoreOffers => RecallInv'
<1> SUFFICES ASSUME RecallInv, ScoreOffers PROVE RecallInv'
  OBVIOUS
<1>1. PICK user \in ScorerAnswers, item \in ScorerAnswers, mismatch \in BOOLEAN :
         LET scored == vectors.user /\ vectors.items = setup.size /\ ~mismatch
         IN  /\ scores' = [scores EXCEPT
                               !.user = IF scored THEN user ELSE <<>>,
                               !.item = IF vectors.query /\ vectors.items > 0 THEN item ELSE <<>>]
             /\ persona' = IF ~vectors.user THEN persona
                           ELSE [persona EXCEPT !.part = scored,
                                                !.state = IF scored THEN @ ELSE "degraded"]
  BY DEF ScoreOffers
<1> DEFINE scored == vectors.user /\ vectors.items = setup.size /\ ~mismatch
<1>2. /\ stage = "index" /\ stage' = "scores"
      /\ UNCHANGED <<setup, pending, channels, vectors, outcome>>
  BY DEF ScoreOffers
<1>3. user \in Seq(Int) /\ item \in Seq(Int) /\ <<>> \in Seq(Int)
  BY RecallAssumption
<1>4. /\ scores' \in Signals /\ scores'.hits = scores.hits /\ scores'.category = scores.category
      /\ scores'.user # <<>> => scored
  <2>1. scores \in Signals
    BY DEF RecallInv
  <2> HIDE DEF scored
  <2>2. PICK u \in Seq(Int), i \in Seq(Int) :
           scores' = [scores EXCEPT !.user = u, !.item = i] /\ (u # <<>> => scored)
    BY <1>1, <1>3 DEF scored
  <2> QED  BY <2>1, <2>2 DEF Signals
<1>5. persona' \in Personas /\ (scored => persona'.part)
  <2>1. persona \in Personas
    BY DEF RecallInv
  <2> QED  BY <1>1, <2>1 DEF Personas, States
<1>6. OpenSearchSays(channels["opensearch"])'
  BY <1>2 DEF OpenSearchSays, Conf, RecallInv
<1> HIDE DEF scored
<1> QED  BY <1>2, <1>4, <1>5, <1>6 DEF RecallInv, Conf

\* The reranker and the category knowledge score the offers.
LEMMA StrongAfterRerank == RecallInv /\ Rerank => RecallInv'
<1> SUFFICES ASSUME RecallInv, Rerank PROVE RecallInv'
  OBVIOUS
<1>1. /\ stage = "scores" /\ stage' = "select"
      /\ UNCHANGED <<setup, pending, channels, persona, vectors, outcome>>
  BY DEF Rerank
<1>2. PICK r \in Seq(Int), c \in Seq(Int) :
         /\ scores' = [scores EXCEPT !.rerank = r, !.category = c]
         /\ c # <<>> => setup.insight.live
  <2>1. PICK rerank \in ScorerAnswers \cup {<<>>}, category \in ScorerAnswers :
           scores' = [scores EXCEPT
              !.rerank = IF /\ Conf.reranker /\ setup.size > 0
                            /\ Conf.ann \/ setup.product = "legacy"
                         THEN rerank ELSE <<>>,
              !.category = IF setup.insight.live THEN category ELSE <<>>]
    BY DEF Rerank
  <2>2. category \in Seq(Int) /\ <<>> \in Seq(Int) /\ ScorerAnswers \subseteq Seq(Int)
    BY RecallAssumption
  <2>3. rerank \in Seq(Int)
    <3>1. rerank \in ScorerAnswers \/ rerank = <<>>
      OBVIOUS
    <3> QED  BY <2>2, <3>1
  <2> QED  BY <2>1, <2>2, <2>3
<1>3. /\ scores' \in Signals /\ scores'.hits = scores.hits /\ scores'.user = scores.user
      /\ scores'.category # <<>> => setup.insight.live
  BY <1>2 DEF RecallInv, Signals
<1>4. OpenSearchSays(channels["opensearch"])'
  BY <1>1 DEF OpenSearchSays, Conf, RecallInv
<1> QED  BY <1>1, <1>3, <1>4 DEF RecallInv, Conf

\* What the provenance says of a channel that took part.
LEMMA ParticipatesFacts ==
    ASSUME NEW f \in [Channels -> Reports], NEW used \in SUBSET Channels
    PROVE  /\ Participates(f, used) \in [Channels -> Reports]
           /\ \A c \in Channels :
                 LET g == Participates(f, used)
                 IN  /\ g[c].state = f[c].state /\ g[c].configured = f[c].configured
                     /\ g[c].part <=> \/ f[c].part
                                      \/ c \in used /\ f[c].state \in {"ready", "degraded"}
<1> DEFINE g == Participates(f, used)
<1>1. \A c \in Channels : g[c] = IF c \in used /\ f[c].state \in {"ready", "degraded"}
                                 THEN [f[c] EXCEPT !.part = TRUE] ELSE f[c]
  BY DEF Participates
<1>2. ASSUME NEW c \in Channels
      PROVE  /\ g[c] \in Reports /\ g[c].state = f[c].state /\ g[c].configured = f[c].configured
             /\ g[c].part <=> f[c].part \/ (c \in used /\ f[c].state \in {"ready", "degraded"})
  <2>1. CASE c \in used /\ f[c].state \in {"ready", "degraded"}
    BY <1>1, <2>1 DEF Reports
  <2>2. CASE ~(c \in used /\ f[c].state \in {"ready", "degraded"})
    BY <1>1, <2>2 DEF Reports
  <2> QED  BY <2>1, <2>2
<1>3. g = [c \in Channels |-> g[c]]
  BY DEF Participates
<1> QED  BY <1>2, <1>3

\* The last step discloses: participation and mode are computed from the very selection that is
\* returned.
LEMMA StrongAfterSelect == RecallInv /\ SelectOffers => RecallInv'
<1> SUFFICES ASSUME RecallInv, SelectOffers PROVE RecallInv'
  OBVIOUS
<1> DEFINE f == IF Selection.lost
                THEN Set(channels, "faiss", "degraded", "faiss_id_mapping_failed", FALSE)
                ELSE channels
           used == Selection.used
           g == Participates(f, used)
           o == Selection.offers
           mapped == Mapped(scores.hits)
<1>1. /\ stage = "select" /\ stage' = "done" /\ channels' = g
      /\ UNCHANGED <<setup, pending, persona, vectors, scores>>
      /\ outcome'.offers = o /\ outcome'.mode = ModeOf(g)
  BY DEF SelectOffers
<1>2. /\ Positions(o) /\ (setup.size > 0 => o # <<>>) /\ used \in SUBSET Channels
      /\ mapped # <<>> => used = Channels /\ ~Selection.lost
      /\ "faiss" \in used => mapped # <<>>
      /\ Selection.lost => scores.hits # <<>> /\ mapped = <<>>
      /\ Selection.lost \in BOOLEAN
      /\ \/ \A i \in DOMAIN o : o[i] = i
         \/ scores.user # <<>> \/ scores.rerank # <<>>
         \/ "opensearch" \in used /\ scores.category # <<>>
         \/ used = Channels /\ scores.hits # <<>> /\ ~Selection.lost
  BY SelectionFacts
<1>3. /\ channels \in [Channels -> Reports] /\ OpenSearchSays(channels["opensearch"])
      /\ \A c \in Channels : c # "opensearch" => ~channels[c].part
      /\ scores.hits # <<>> => /\ channels["faiss"].state = "ready"
                               /\ vectors.query /\ vectors.items = setup.size
      /\ scores.user # <<>> => persona.part
      /\ scores.category # <<>> => setup.insight.live
  BY <1>1 DEF RecallInv
<1>4. "opensearch" \in Channels /\ "faiss" \in Channels
  BY DEF Channels
<1>5. /\ f \in [Channels -> Reports] /\ f["opensearch"] = channels["opensearch"]
      /\ \A c \in Channels : c # "opensearch" => ~f[c].part
      /\ ~Selection.lost => f = channels
      /\ Selection.lost => f["faiss"].state = "degraded"
  <2>1. CASE Selection.lost
    <3>1. /\ f = Set(channels, "faiss", "degraded", "faiss_id_mapping_failed", FALSE)
          /\ "degraded" \in States /\ "faiss_id_mapping_failed" \in Causes
      BY <2>1 DEF States, Causes
    <3> HIDE DEF f
    <3>2. f["faiss"] = [channels["faiss"] EXCEPT !.state = "degraded", !.part = FALSE,
                                                 !.reason = "faiss_id_mapping_failed"]
      BY <1>3, <1>4, <3>1 DEF Set
    <3>3. f["faiss"] \in Reports /\ f["faiss"].state = "degraded" /\ ~f["faiss"].part
      <4>1. PICK r \in Reports : r = channels["faiss"]
        BY <1>3, <1>4
      <4>2. f["faiss"] = [r EXCEPT !.state = "degraded", !.part = FALSE,
                                   !.reason = "faiss_id_mapping_failed"]
        BY <3>2, <4>1
      <4> QED  BY <4>2 DEF Reports, States, Causes
    <3>4. /\ f = [c \in Channels |-> f[c]]
          /\ \A c \in Channels : c # "faiss" => f[c] = channels[c]
      BY <1>3, <3>1 DEF Set
    <3> QED  BY <1>3, <1>4, <2>1, <3>3, <3>4
  <2>2. CASE ~Selection.lost
    BY <1>3, <2>2
  <2> QED  BY <2>1, <2>2
<1> HIDE DEF f, used, o, mapped
<1>6. /\ g \in [Channels -> Reports]
      /\ \A c \in Channels : /\ g[c].state = f[c].state /\ g[c].configured = f[c].configured
                             /\ g[c].part <=> \/ f[c].part
                                              \/ c \in used /\ f[c].state \in {"ready", "degraded"}
  BY <1>2, <1>5, ParticipatesFacts
<1> HIDE DEF g
<1>7. \/ \A i \in DOMAIN o : o[i] = i
      \/ persona.part \/ scores.rerank # <<>> \/ \E c \in Channels : g[c].part
  <2>1. CASE "opensearch" \in used /\ scores.category # <<>>
    <3>1. Conf.opensearch
      BY <1>3, <2>1 DEF RecallInv, Insights
    <3>2. f["opensearch"].state \in {"ready", "degraded"}
      BY <1>3, <1>5, <3>1 DEF OpenSearchSays
    <3> QED  BY <1>4, <1>6, <2>1, <3>2
  <2>2. CASE used = Channels /\ scores.hits # <<>> /\ ~Selection.lost
    BY <1>3, <1>4, <1>5, <1>6, <2>2
  <2> QED  BY <1>2, <1>3, <2>1, <2>2
<1>8. ASSUME ModeOf(g) = "hybrid"
      PROVE  IF setup.product = "legacy"
             THEN setup.insight.ok /\ vectors.query /\ vectors.items = setup.size /\ mapped # <<>>
             ELSE setup.product = "complete" /\ setup.insight.ok
  <2>1. \A c \in Effective : g[c].state = "ready" /\ g[c].part
    BY <1>8 DEF ModeOf
  <2>2. "opensearch" \in Effective
    BY <1>4 DEF Effective
  <2>3. setup.insight.ok /\ setup.product \in {"legacy", "complete"}
    BY <1>3, <1>4, <1>5, <1>6, <2>1, <2>2 DEF OpenSearchSays
  <2>4. ASSUME setup.product = "legacy"
        PROVE  vectors.query /\ vectors.items = setup.size /\ mapped # <<>>
    <3>1. g["faiss"].part
      BY <1>4, <2>1, <2>4 DEF Effective
    <3>2. "faiss" \in used
      BY <1>4, <1>5, <1>6, <3>1
    <3>3. mapped # <<>> /\ scores.hits # <<>>
      <4>1. scores.hits \in Seq(Hits)
        BY DEF RecallInv, Signals
      <4> QED  BY <1>2, <3>2, <4>1, MappedFacts DEF mapped
    <3> QED  BY <1>3, <3>3
  <2> QED  BY <2>3, <2>4
<1>9. ASSUME ModeOf(g) = "deterministic_fallback", mapped # <<>>
      PROVE  setup.product # "legacy" /\ ~g["opensearch"].configured
  <2>1. \A c \in Effective : ~g[c].part
    BY <1>9 DEF ModeOf
  <2>2. used = Channels /\ f = channels /\ scores.hits # <<>>
    <3>1. scores.hits \in Seq(Hits)
      BY DEF RecallInv, Signals
    <3> QED  BY <1>2, <1>5, <1>9, <3>1, MappedFacts DEF mapped
  <2>3. g["faiss"].part
    BY <1>3, <1>4, <1>6, <2>2
  <2>4. setup.product # "legacy"
    BY <1>4, <2>1, <2>3 DEF Effective
  <2>5. ~g["opensearch"].part
    BY <2>1, <1>4 DEF Effective
  <2>6. f["opensearch"].state \notin {"ready", "degraded"}
    BY <1>4, <1>6, <2>2, <2>5
  <2> QED  BY <1>3, <1>4, <1>5, <1>6, <2>4, <2>6 DEF OpenSearchSays
<1>10. RecallDisclosed'
  <2>1. \A i, j \in DOMAIN o : o[i] = o[j] => i = j
    BY <1>2 DEF Positions
  <2>2. Mapped(scores.hits)' = mapped
    BY <1>1 DEF Mapped, mapped
  <2> QED  BY <1>1, <1>2, <1>7, <1>8, <1>9, <2>1, <2>2 DEF RecallDisclosed
<1> QED  BY <1>1, <1>6, <1>10 DEF RecallInv, Conf

\* Reports and influences go together in every step.
LEMMA RecallInvariant == RecallSpec => []RecallInv
<1>1. RecallInit => RecallInv
  BY StrongAtStart
<1>2. RecallInv /\ [RecallNext]_recallVars => RecallInv'
  <2> SUFFICES ASSUME RecallInv, [RecallNext]_recallVars PROVE RecallInv'
    OBVIOUS
  <2>1. CASE UNCHANGED recallVars
    <3>1. /\ UNCHANGED <<setup, stage, pending, channels, persona, vectors, scores, outcome>>
      BY <2>1 DEF recallVars
    <3>2. RecallDisclosed' <=> RecallDisclosed
      BY <3>1 DEF RecallDisclosed, Mapped
    <3> QED  BY <3>1, <3>2 DEF RecallInv, Conf, OpenSearchSays
  <2> QED  BY <2>1, StrongAfterBegin, StrongAfterQuery, StrongAfterItem, StrongAfterUser,
              StrongAfterSearch, StrongAfterScores, StrongAfterRerank, StrongAfterSelect
           DEF RecallNext
<1> QED  BY <1>1, <1>2, PTL DEF RecallSpec

\* Whatever its channels answer, recall loses no research, selects no offer twice, and shows
\* every influence on the order in its provenance; hybrid and deterministic modes mean what they
\* say (orchestrator.py).
THEOREM RecallAlwaysDisclosed == RecallSpec => []RecallDisclosed
<1>1. RecallInv => RecallDisclosed
  BY DEF RecallInv, RecallDisclosed
<1> QED  BY <1>1, RecallInvariant, PTL

\* What the invariant leaves open of the shape of a state.
TowersTyped ==
    /\ pending \subseteq {"query", "item", "user"}
    /\ vectors = [query |-> vectors.query, items |-> vectors.items, user |-> vectors.user]
    /\ vectors.items \in 0 .. setup.size
    /\ outcome.mode \in {"none", "hybrid", "partial_hybrid", "deterministic_fallback"}

\* The states of a recall have their shape in every step: no tower returns more vectors than
\* there are offers.
THEOREM RecallTyped == RecallSpec => []RecallTypeOK
<1>1. RecallInit => TowersTyped
  <2> SUFFICES ASSUME RecallInit PROVE TowersTyped
    OBVIOUS
  <2>1. setup.size \in PoolSizes
    BY DEF RecallInit
  <2>2. setup.size \in Nat
    BY <2>1, RecallAssumption
  <2>3. /\ pending = {} /\ vectors = [query |-> FALSE, items |-> 0, user |-> FALSE]
        /\ outcome.mode = "none"
    BY DEF RecallInit
  <2> QED  BY <2>2, <2>3 DEF TowersTyped
<1>2. RecallInv /\ TowersTyped /\ [RecallNext]_recallVars => TowersTyped'
  <2> SUFFICES ASSUME RecallInv, TowersTyped, [RecallNext]_recallVars PROVE TowersTyped'
    OBVIOUS
  <2>1. CASE BeginRecall
    BY <2>1 DEF BeginRecall, TowersTyped
  <2>2. CASE QueryTower
    BY <2>2 DEF QueryTower, TowersTyped
  <2>3. CASE ItemTower
    <3>1. /\ pending' \subseteq {"query", "item", "user"} /\ UNCHANGED <<setup, outcome>>
          /\ \/ UNCHANGED vectors
             \/ \E n \in 0 .. setup.size : vectors' = [vectors EXCEPT !.items = n]
      BY <2>3 DEF ItemTower, TowersTyped
    <3> QED  BY <3>1 DEF TowersTyped
  <2>4. CASE UserTower
    BY <2>4 DEF UserTower, TowersTyped
  <2>5. CASE SearchIndex \/ ScoreOffers \/ Rerank
    BY <2>5 DEF SearchIndex, ScoreOffers, Rerank, TowersTyped
  <2>6. CASE SelectOffers
    <3>1. /\ UNCHANGED <<setup, pending, vectors>>
          /\ outcome'.mode \in {"hybrid", "partial_hybrid", "deterministic_fallback"}
      BY <2>6 DEF SelectOffers, ModeOf
    <3> QED  BY <3>1 DEF TowersTyped
  <2>7. CASE UNCHANGED recallVars
    BY <2>7 DEF recallVars, TowersTyped
  <2> QED  BY <2>1, <2>2, <2>3, <2>4, <2>5, <2>6, <2>7 DEF RecallNext
<1>3. RecallInv /\ TowersTyped => RecallTypeOK
  BY DEF RecallInv, TowersTyped, RecallTypeOK, Reports, Personas, States
<1> QED  BY <1>1, <1>2, <1>3, RecallInvariant, PTL DEF RecallSpec
=============================================================================
