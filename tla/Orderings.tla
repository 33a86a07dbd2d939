----------------------------- MODULE Orderings -----------------------------
(***************************************************************************)
(* Sorting by keys that are tuples of integers, as the sort(key=...) calls *)
(* of the source do; equal keys do not occur (a key ends in a position).   *)
(***************************************************************************)
EXTENDS Integers, Sequences, FiniteSets, SequencesExt

Precedes(x, y) == \E i \in DOMAIN x : x[i] < y[i] /\ \A j \in 1 .. i-1 : x[j] = y[j]

Sorted(S, key) ==
  [i \in 1 .. Cardinality(S) |->
     CHOOSE s \in S : Cardinality({u \in S : Precedes(key[u], key[s])}) = i - 1]

IsList(s) == s \in Seq(ToSet(s))

(* The elements of seq that are in S, in their order.                      *)
Filtered(seq, S) ==
  FoldLeft(LAMBDA kept, x : IF x \in S THEN Append(kept, x) ELSE kept, <<>>, seq)

Bit(b) == IF b THEN 1 ELSE 0

Place(seq, x) == CHOOSE i \in DOMAIN seq : seq[i] = x
=============================================================================
