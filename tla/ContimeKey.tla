----------------------------- MODULE ContimeKey -----------------------------
(***************************************************************************)
(* The keys of the two BTreeMaps of a history (src/key.rs): an event is    *)
(* stored under (time, event id), a checkpoint under the key of the event  *)
(* that closed it, an authoritative snapshot under (time, snapshot id).    *)
(* Event ids and snapshot ids live in the same number space, so the two    *)
(* kinds of key are compared with each other.                              *)
(***************************************************************************)
EXTENDS Integers

ContimeKeys == [time : Int, id : Nat]

Key(t, i) == [time |-> t, id |-> i]

\* #[derive(PartialOrd, Ord)] compares the fields in declaration order.
KeyLess(a, b) == a.time < b.time \/ (a.time = b.time /\ a.id < b.id)
KeyLeq(a, b) == a = b \/ KeyLess(a, b)

\* next_back() of a non-empty map or range.
LastKey(S) == CHOOSE k \in S : \A j \in S : KeyLeq(j, k)

(***************************************************************************)
(* The lower end of a range.  {} is Bound::Unbounded, {k} is               *)
(* Bound::Excluded(k).                                                     *)
(***************************************************************************)
BoundAtLast(S) == IF S = {} THEN {} ELSE {LastKey(S)}

\* Mutant: Bound::Included.
FromBound(bound, S) == {k \in S : \A b \in bound : KeyLeq(b, k)}

\* S.range((bound, Bound::Unbounded))
AfterBound(bound, S) == {k \in S : \A b \in bound : KeyLess(b, k)}
=============================================================================
