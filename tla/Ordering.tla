------------------------------- MODULE Ordering -------------------------------
(***************************************************************************)
(* The loops of the code that go through a list in its order and keep some *)
(* of it: the positions kept, in ascending order, and what stands there.   *)
(***************************************************************************)
EXTENDS Naturals, FiniteSets
Ascends(s) == \A i, j \in DOMAIN s : i < j => s[i] < s[j]
Ascending(S) == CHOOSE s \in [1..Cardinality(S) -> S] : Ascends(s)
Kept(s, positions) == [k \in DOMAIN Ascending(positions) |-> s[Ascending(positions)[k]]]
===============================================================================
