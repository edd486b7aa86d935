------------------------------- MODULE Ordering -------------------------------
(* Sorting as list.sort does: stable, by a tuple of numbers; and the members kept of a list. *)
EXTENDS Integers, Sequences, FiniteSets

Precedes(a, b) == \E i \in DOMAIN a : a[i] < b[i] /\ \A j \in 1 .. i - 1 : a[j] = b[j]

\* The member of positions that k - 1 of them come before.
Nth(positions, before, k) == CHOOSE i \in positions : Cardinality(before[i]) = k - 1

Before(keys, i) ==
    {j \in DOMAIN keys : Precedes(keys[j], keys[i]) \/ (~Precedes(keys[i], keys[j]) /\ j < i)}
Sorted(s, keys) ==
    LET before == [i \in DOMAIN s |-> Before(keys, i)]
    IN  [k \in DOMAIN s |-> s[Nth(DOMAIN s, before, k)]]
SortBy(s, Key(_)) == Sorted(s, [i \in DOMAIN s |-> Key(s[i])])

\* The members of s at some positions, in their order.
AtPositions(s, positions) ==
    LET before == [i \in positions |-> {j \in positions : j < i}]
    IN  [k \in 1 .. Cardinality(positions) |-> s[Nth(positions, before, k)]]
Keep(s, Test(_)) == AtPositions(s, {i \in DOMAIN s : Test(s[i])})

Elements(s) == {s[i] : i \in DOMAIN s}
Take(s, n) == SubSeq(s, 1, IF Len(s) < n THEN Len(s) ELSE n)
=============================================================================
