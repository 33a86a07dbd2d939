--------------------------- MODULE OrderingLemmas ---------------------------
(***************************************************************************)
(* What the operators of Orderings return: lists, what is kept of a list   *)
(* that is filtered, and the list a set is sorted into.                    *)
(***************************************************************************)
EXTENDS Orderings, FiniteSetTheorems, TLAPS

(* No element is listed twice.                                            *)
Distinct(s) == \A i, j \in DOMAIN s : s[i] = s[j] => i = j

(* A list and its length.                                                  *)
LEMMA ListDomain ==
  ASSUME NEW s, IsList(s)
  PROVE  Len(s) \in Nat /\ DOMAIN s = 1 .. Len(s)
BY DEF IsList

(* What is known of a list elsewhere makes it one.                         *)
LEMMA ListFrom ==
  ASSUME NEW S, NEW s \in Seq(S)
  PROVE  IsList(s)
<1>1. PICK n \in Nat : s \in [1 .. n -> S]
  OBVIOUS
<1>2. \A i \in 1 .. n : s[i] \in ToSet(s)
  BY <1>1 DEF ToSet
<1>3. s \in [1 .. n -> ToSet(s)]
  BY <1>1, <1>2
<1> QED BY <1>3 DEF IsList

(* A list with one element more.                                           *)
LEMMA ListAppended ==
  ASSUME NEW s, IsList(s), NEW x
  PROVE  /\ IsList(Append(s, x))
         /\ DOMAIN Append(s, x) = 1 .. Len(s) + 1
         /\ \A i \in 1 .. Len(s) : Append(s, x)[i] = s[i]
         /\ Append(s, x)[Len(s) + 1] = x
<1>1. s \in Seq(ToSet(s) \cup {x})
  <2>1. s \in Seq(ToSet(s))
    BY DEF IsList
  <2> QED BY <2>1
<1>2. Append(s, x) \in Seq(ToSet(s) \cup {x})
  BY <1>1
<1>3. IsList(Append(s, x))
  BY <1>2, ListFrom
<1>4. /\ DOMAIN Append(s, x) = 1 .. Len(s) + 1
      /\ \A i \in 1 .. Len(s) : Append(s, x)[i] = s[i]
      /\ Append(s, x)[Len(s) + 1] = x
  BY <1>1
<1> QED BY <1>3, <1>4

(* A function on 1 .. n is a list.                                         *)
LEMMA ListOf ==
  ASSUME NEW n \in Nat, NEW s, s = [i \in 1 .. n |-> s[i]]
  PROVE  IsList(s) /\ Len(s) = n
<1>1. \A i \in 1 .. n : s[i] \in ToSet(s)
  BY DEF ToSet
<1>2. s \in [1 .. n -> ToSet(s)]
  BY <1>1
<1>3. s \in Seq(ToSet(s)) /\ Len(s) = n
  BY <1>2
<1> QED BY <1>3 DEF IsList

(* The elements of SetToSeq's list.                                        *)
LEMMA ListOfSet ==
  ASSUME NEW S, IsFiniteSet(S)
  PROVE  /\ IsList(SetToSeq(S)) /\ Distinct(SetToSeq(S))
         /\ ToSet(SetToSeq(S)) = S
<1> DEFINE n == Cardinality(S)
           f == SetToSeq(S)
<1>1. n \in Nat /\ ExistsBijection(1 .. n, S)
  BY FS_CardinalityType
<1>2. PICK b \in Bijection(1 .. n, S) : TRUE
  BY <1>1 DEF ExistsBijection
<1>3. b \in [1 .. n -> S] /\ IsInjective(b)
  BY <1>2 DEF Bijection, Injection, IsInjective
<1>4. f \in [1 .. n -> S] /\ IsInjective(f)
  BY <1>3 DEF SetToSeq
<1>5. f \in Injection(1 .. n, S)
  BY <1>4 DEF Injection, IsInjective
<1>6. Cardinality(1 .. n) = n
  BY <1>1, FS_Interval
<1> HIDE DEF f
<1>7. f \in Surjection(1 .. n, S)
  BY <1>5, <1>6, FS_Injection
<1>8. \A x \in S : \E i \in 1 .. n : f[i] = x
  BY <1>7 DEF Surjection
<1>9. IsList(f)
  <2>1. f \in Seq(S)
    BY <1>1, <1>4
  <2> QED BY <2>1, ListFrom
<1>10. Distinct(f) /\ ToSet(f) = S
  BY <1>4, <1>8 DEF Distinct, IsInjective, ToSet
<1> QED BY <1>9, <1>10 DEF f
-----------------------------------------------------------------------------
(* Filtering.                                                              *)
FilterOne(c, kept, x) == IF x \in c.in THEN Append(kept, x) ELSE kept
KeptSoFar(c, k, kept) ==
  /\ IsList(kept)
  /\ \A i \in DOMAIN kept : kept[i] \in c.in /\ \E j \in 1 .. k : kept[i] = c.seq[j]
  /\ \A j \in 1 .. k : c.seq[j] \in c.in => \E i \in DOMAIN kept : kept[i] = c.seq[j]
  /\ Distinct(c.seq) => Distinct(kept)
Filtering == INSTANCE FoldInduction WITH Op <- FilterOne, Good <- KeptSoFar

(* Filtering a list gives the list of its elements that are in S.          *)
LEMMA FilteredList ==
  ASSUME NEW seq, IsList(seq), NEW S
  PROVE  /\ IsList(Filtered(seq, S))
         /\ ToSet(Filtered(seq, S)) = ToSet(seq) \cap S
         /\ Distinct(seq) => Distinct(Filtered(seq, S))
<1>1. PICK c : c = [in |-> S, seq |-> seq]
  OBVIOUS
<1>2. Filtered(seq, S) = Filtering!Result(c, <<>>, seq)
  BY <1>1 DEF Filtered, FilterOne, FoldLeft, MapThenFoldSet, Max, Filtering!Result,
         Filtering!MapThenFoldSet, Filtering!Largest
<1>3. PICK n \in Nat : DOMAIN seq = 1 .. n
  BY ListDomain
<1>4. ASSUME NEW k \in 1 .. n, NEW kept, KeptSoFar(c, k - 1, kept)
      PROVE  KeptSoFar(c, k, FilterOne(c, kept, seq[k]))
  <2>1. /\ Len(kept) \in Nat /\ DOMAIN kept = 1 .. Len(kept)
        /\ IsList(Append(kept, seq[k])) /\ DOMAIN Append(kept, seq[k]) = 1 .. Len(kept) + 1
        /\ \A i \in 1 .. Len(kept) : Append(kept, seq[k])[i] = kept[i]
        /\ Append(kept, seq[k])[Len(kept) + 1] = seq[k]
    BY <1>4, ListDomain, ListAppended DEF KeptSoFar
  <2>2. 1 .. k = (1 .. k - 1) \cup {k} /\ 1 .. k \subseteq DOMAIN seq /\ k \notin 1 .. k - 1
    BY <1>3
  <2>3. CASE seq[k] \in S
    <3>1. FilterOne(c, kept, seq[k]) = Append(kept, seq[k])
      BY <1>1, <2>3 DEF FilterOne
    <3>2. PICK new : new = Append(kept, seq[k])
      OBVIOUS
    <3>3. DOMAIN new = (DOMAIN kept) \cup {Len(kept) + 1} /\ Len(kept) + 1 \notin DOMAIN kept
      BY <2>1, <3>2
    <3>4. \A i \in DOMAIN new : new[i] \in c.in /\ \E j \in 1 .. k : new[i] = c.seq[j]
      BY <1>1, <1>4, <2>1, <2>2, <2>3, <3>2, <3>3 DEF KeptSoFar
    <3>5. \A j \in 1 .. k : c.seq[j] \in c.in => \E i \in DOMAIN new : new[i] = c.seq[j]
      BY <1>1, <1>4, <2>1, <2>2, <3>2, <3>3 DEF KeptSoFar
    <3>6. ASSUME Distinct(c.seq) PROVE Distinct(new)
      <4>1. Distinct(kept) /\ \A i \in DOMAIN kept : kept[i] # seq[k]
        BY <1>1, <1>4, <2>2, <3>6 DEF KeptSoFar, Distinct
      <4> QED BY <2>1, <3>2, <3>3, <4>1 DEF Distinct
    <3> QED BY <2>1, <3>1, <3>2, <3>4, <3>5, <3>6 DEF KeptSoFar
  <2>4. CASE seq[k] \notin S
    <3>1. FilterOne(c, kept, seq[k]) = kept
      BY <1>1, <2>4 DEF FilterOne
    <3> QED BY <1>1, <1>4, <2>2, <2>4, <3>1 DEF KeptSoFar
  <2> QED BY <2>3, <2>4
<1>5. KeptSoFar(c, 0, <<>>)
  <2>1. <<>> \in Seq({})
    OBVIOUS
  <2>2. IsList(<<>>)
    BY <2>1, ListFrom
  <2> QED BY <2>2 DEF KeptSoFar, Distinct
<1>6. KeptSoFar(c, n, Filtered(seq, S))
  BY <1>2, <1>3, <1>4, <1>5, Filtering!FoldInduction
<1>7. PICK kept : kept = Filtered(seq, S)
  OBVIOUS
<1>8. ToSet(kept) = ToSet(seq) \cap S
  BY <1>1, <1>3, <1>6, <1>7 DEF KeptSoFar, ToSet
<1> QED BY <1>1, <1>6, <1>7, <1>8 DEF KeptSoFar

(* What is filtered is in the set.                                         *)
LEMMA FilteredIn ==
  ASSUME NEW S, NEW U, NEW seq \in Seq(U)
  PROVE  Filtered(seq, S) \in Seq(S)
<1>1. PICK kept : kept = Filtered(seq, S)
  OBVIOUS
<1>2. IsList(kept) /\ ToSet(kept) \subseteq S
  BY <1>1, ListFrom, FilteredList
<1>3. kept \in Seq(S)
  BY <1>2 DEF IsList
<1> QED BY <1>1, <1>3
-----------------------------------------------------------------------------
(* Sorting by keys of n integers.                                          *)
Key(n) == [1 .. n -> Int]

(* Two different keys first differ somewhere.                              *)
LEMMA FirstDifference ==
  ASSUME NEW n \in Nat, NEW x \in Key(n), NEW y \in Key(n), x # y
  PROVE  \E i \in 1 .. n : x[i] # y[i] /\ \A j \in 1 .. i - 1 : x[j] = y[j]
<1> DEFINE T == {i \in 1 .. n : x[i] # y[i]}
           Less == {ss \in Nat \X Nat : ss[1] < ss[2]}
<1>1. T # {} /\ T \subseteq Nat
  BY DEF Key
<1>2. IsWellFoundedOn(Less, Nat)
  BY NatLessThanWellFounded DEF OpToRel
<1>3. PICK i \in T : \A j \in T : <<j, i>> \notin Less
  <2> HIDE DEF Less
  <2> QED BY <1>1, <1>2, WFMin
<1>4. \A j \in 1 .. i - 1 : j \in Nat /\ i \in Nat /\ j < i /\ j \in 1 .. n
  OBVIOUS
<1>5. \A j \in 1 .. i - 1 : x[j] = y[j]
  BY <1>3, <1>4
<1> QED BY <1>3, <1>5

(* The order of keys is total.                                             *)
LEMMA KeysAreOrdered ==
  ASSUME NEW n \in Nat, NEW x \in Key(n), NEW y \in Key(n)
  PROVE  /\ x # y => Precedes(x, y) \/ Precedes(y, x)
         /\ ~Precedes(x, x)
<1>1. DOMAIN x = 1 .. n /\ DOMAIN y = 1 .. n /\ \A i \in 1 .. n : x[i] \in Int /\ y[i] \in Int
  BY DEF Key
<1>2. ASSUME x # y PROVE Precedes(x, y) \/ Precedes(y, x)
  <2>1. PICK i \in 1 .. n : x[i] # y[i] /\ \A j \in 1 .. i - 1 : x[j] = y[j]
    BY <1>2, FirstDifference
  <2>2. x[i] < y[i] \/ y[i] < x[i]
    BY <1>1, <2>1
  <2> QED BY <1>1, <2>1, <2>2 DEF Precedes
<1>3. ~Precedes(x, x)
  BY <1>1 DEF Precedes
<1> QED BY <1>2, <1>3

(* And transitive.                                                         *)
LEMMA KeysAreTransitive ==
  ASSUME NEW n \in Nat, NEW x \in Key(n), NEW y \in Key(n), NEW z \in Key(n),
         Precedes(x, y), Precedes(y, z)
  PROVE  Precedes(x, z)
<1>1. DOMAIN x = 1 .. n /\ DOMAIN y = 1 .. n
  BY DEF Key
<1>2. PICK i \in 1 .. n : x[i] < y[i] /\ \A j \in 1 .. i - 1 : x[j] = y[j]
  BY <1>1 DEF Precedes
<1>3. PICK k \in 1 .. n : y[k] < z[k] /\ \A j \in 1 .. k - 1 : y[j] = z[j]
  BY <1>1 DEF Precedes
<1>4. \A j \in 1 .. n : x[j] \in Int /\ y[j] \in Int /\ z[j] \in Int
  BY DEF Key
<1>5. CASE i <= k
  <2>1. x[i] < z[i]
    <3>1. CASE i = k
      BY <1>2, <1>3, <1>4, <3>1
    <3>2. CASE i < k
      <4>1. i \in 1 .. k - 1
        BY <3>2
      <4> QED BY <1>2, <1>3, <4>1
    <3> QED BY <1>5, <3>1, <3>2
  <2>2. \A j \in 1 .. i - 1 : x[j] = z[j]
    <3>1. \A j \in 1 .. i - 1 : j \in 1 .. k - 1
      BY <1>5
    <3> QED BY <1>2, <1>3, <3>1
  <2> QED BY <1>1, <2>1, <2>2 DEF Precedes
<1>6. CASE k < i
  <2>1. k \in 1 .. i - 1 /\ \A j \in 1 .. k - 1 : j \in 1 .. i - 1
    BY <1>6
  <2>2. x[k] < z[k] /\ \A j \in 1 .. k - 1 : x[j] = z[j]
    BY <1>2, <1>3, <2>1
  <2> QED BY <1>1, <2>2 DEF Precedes
<1> QED BY <1>5, <1>6

(* A finite set whose elements have keys of their own is listed, each      *)
(* element once, in the order of the keys.                                 *)
LEMMA SortedList ==
  ASSUME NEW S, NEW key, IsFiniteSet(S), NEW m \in Nat,
         \A s \in S : key[s] \in Key(m),
         \A s, t \in S : key[s] = key[t] => s = t
  PROVE  /\ IsList(Sorted(S, key)) /\ DOMAIN Sorted(S, key) = 1 .. Cardinality(S)
         /\ Distinct(Sorted(S, key)) /\ ToSet(Sorted(S, key)) = S
         /\ \A i, j \in 1 .. Cardinality(S) :
              i < j => Precedes(key[Sorted(S, key)[i]], key[Sorted(S, key)[j]])
<1> DEFINE n == Cardinality(S)
           Below(s) == {u \in S : Precedes(key[u], key[s])}
           rank == [s \in S |-> Cardinality(Below(s)) + 1]
           list == Sorted(S, key)
<1>1. n \in Nat
  BY FS_CardinalityType
<1>2. \A s \in S : ~Precedes(key[s], key[s])
  BY KeysAreOrdered
<1>3. \A s, t \in S : s # t => Precedes(key[s], key[t]) \/ Precedes(key[t], key[s])
  BY KeysAreOrdered
<1>4. \A s, t, u \in S : Precedes(key[s], key[t]) /\ Precedes(key[t], key[u]) => Precedes(key[s], key[u])
  BY KeysAreTransitive
<1>5. ASSUME NEW s \in S
      PROVE  IsFiniteSet(Below(s)) /\ rank[s] \in 1 .. n
  <2>1. Below(s) \in SUBSET S /\ s \notin Below(s)
    BY <1>2
  <2>2. /\ IsFiniteSet(Below(s)) /\ Cardinality(Below(s)) <= n
        /\ n = Cardinality(Below(s)) => S = Below(s)
    BY <2>1, FS_Subset
  <2>3. Cardinality(Below(s)) \in Nat
    BY <2>2, FS_CardinalityType
  <2> QED BY <1>1, <2>1, <2>2, <2>3
<1>6. ASSUME NEW s \in S, NEW t \in S, Precedes(key[s], key[t])
      PROVE  rank[s] < rank[t]
  <2>1. Below(s) \in SUBSET Below(t) /\ s \in Below(t) /\ s \notin Below(s)
    BY <1>2, <1>4, <1>6
  <2>2. /\ Cardinality(Below(s)) <= Cardinality(Below(t))
        /\ Cardinality(Below(t)) = Cardinality(Below(s)) => Below(t) = Below(s)
    BY <1>5, <2>1, FS_Subset
  <2>3. Cardinality(Below(s)) \in Nat /\ Cardinality(Below(t)) \in Nat
    BY <1>5, FS_CardinalityType
  <2> QED BY <2>1, <2>2, <2>3
<1>7. rank \in Injection(S, 1 .. n)
  <2>1. rank \in [S -> 1 .. n]
    BY <1>5
  <2>2. \A s, t \in S : rank[s] = rank[t] => s = t
    <3> HIDE DEF rank
    <3> QED BY <1>3, <1>6, <2>1, <1>1
  <2> HIDE DEF rank
  <2> QED BY <2>1, <2>2 DEF Injection, IsInjective
<1>8. rank \in Surjection(S, 1 .. n)
  <2>1. IsFiniteSet(1 .. n) /\ Cardinality(1 .. n) = n
    BY <1>1, FS_Interval
  <2> HIDE DEF rank
  <2> QED BY <1>7, <2>1, FS_Injection
<1>9. ASSUME NEW i \in 1 .. n
      PROVE  list[i] \in S /\ rank[list[i]] = i
  <2>1. PICK s \in S : rank[s] = i
    <3> HIDE DEF rank
    <3> QED BY <1>8 DEF Surjection
  <2>2. Cardinality(Below(s)) = i - 1
    <3>1. Cardinality(Below(s)) \in Nat
      BY <1>5, FS_CardinalityType
    <3> QED BY <2>1, <3>1
  <2>3. list[i] = CHOOSE t \in S : Cardinality(Below(t)) = i - 1
    BY DEF Sorted
  <2>4. list[i] \in S /\ Cardinality(Below(list[i])) = i - 1
    <3> HIDE DEF Below, list
    <3> QED BY <2>2, <2>3
  <2> HIDE DEF list
  <2> QED BY <2>4
<1>10. DOMAIN list = 1 .. n
  BY DEF Sorted
<1>11. list = [i \in 1 .. n |-> list[i]]
  <2> DEFINE ranked(i) == CHOOSE s \in S : Cardinality({u \in S : Precedes(key[u], key[s])}) = i - 1
             f == [i \in 1 .. Cardinality(S) |-> ranked(i)]
  <2>1. list = f
    BY DEF Sorted
  <2> HIDE DEF ranked
  <2>2. f = [i \in 1 .. Cardinality(S) |-> f[i]]
    OBVIOUS
  <2> HIDE DEF f, list
  <2> QED BY <2>1, <2>2
<1>12. IsList(list)
  <2> HIDE DEF list
  <2> QED BY <1>1, <1>11, ListOf
<1>13. Distinct(list)
  <2> HIDE DEF list, rank
  <2> QED BY <1>9, <1>10 DEF Distinct
<1>14. ASSUME NEW s \in S PROVE list[rank[s]] = s
  <2> DEFINE k == rank[s]
  <2>1. k \in 1 .. n
    BY <1>5
  <2>2. list[k] \in S /\ rank[list[k]] = rank[s]
    <3> HIDE DEF list, rank
    <3> QED BY <1>9, <2>1 DEF k
  <2> HIDE DEF list, rank
  <2> QED BY <1>7, <2>2 DEF Injection, IsInjective
<1>15. ToSet(list) = S
  <2>1. \A s \in S : \E i \in 1 .. n : list[i] = s
    <3> HIDE DEF list, rank
    <3> QED BY <1>7, <1>14 DEF Injection
  <2>2. PICK l : l = list
    OBVIOUS
  <2>3. DOMAIN l = 1 .. n /\ \A i \in 1 .. n : l[i] \in S
    BY <1>9, <1>10, <2>2
  <2>4. \A s \in S : \E i \in 1 .. n : l[i] = s
    BY <2>1, <2>2
  <2>5. ToSet(l) = S
    BY <2>3, <2>4 DEF ToSet
  <2> QED BY <2>2, <2>5
<1>16. ASSUME NEW i \in 1 .. n, NEW j \in 1 .. n, i < j
       PROVE  Precedes(key[list[i]], key[list[j]])
  <2>1. PICK s \in S, t \in S : s = list[i] /\ t = list[j] /\ rank[s] = i /\ rank[t] = j
    <3> HIDE DEF list, rank
    <3> QED BY <1>9
  <2>2. s # t /\ ~(rank[t] < rank[s])
    <3> HIDE DEF rank
    <3> QED BY <1>1, <1>16, <2>1
  <2>3. Precedes(key[s], key[t])
    <3> HIDE DEF rank
    <3> QED BY <1>3, <1>6, <2>2
  <2> HIDE DEF list
  <2> QED BY <2>1, <2>3
<1> QED BY <1>10, <1>12, <1>13, <1>15, <1>16 DEF list

(* Of finitely many elements with keys of their own one is first.          *)
LEMMA LeastKey ==
  ASSUME NEW S, IsFiniteSet(S), S # {}, NEW m \in Nat, NEW key,
         \A s \in S : key[s] \in Key(m),
         \A s, t \in S : key[s] = key[t] => s = t
  PROVE  \E s \in S : \A t \in S \ {s} : Precedes(key[s], key[t])
<1> DEFINE Below(s) == {u \in S : Precedes(key[u], key[s])}
           rank == [s \in S |-> Cardinality(Below(s))]
           R == {rank[s] : s \in S}
<1>1. ASSUME NEW s \in S PROVE IsFiniteSet(Below(s)) /\ rank[s] \in Nat
  <2>1. Below(s) \in SUBSET S
    OBVIOUS
  <2>2. IsFiniteSet(Below(s))
    BY <2>1, FS_Subset
  <2> QED BY <2>2, FS_CardinalityType
<1>2. R \subseteq Nat /\ R # {}
  <2> HIDE DEF rank
  <2> QED BY <1>1
<1>3. PICK r \in R : \A q \in R : <<q, r>> \notin OpToRel(<, Nat)
  <2> HIDE DEF R
  <2> QED BY <1>2, NatLessThanWellFounded, WFMin
<1>4. PICK s \in S : rank[s] = r
  <2> HIDE DEF rank
  <2> QED OBVIOUS
<1>5. ASSUME NEW t \in S, t # s PROVE Precedes(key[s], key[t])
  <2>1. ~(rank[t] < rank[s])
    <3>1. rank[t] \in R /\ rank[t] \in Nat /\ rank[s] \in Nat
      BY <1>1
    <3> HIDE DEF rank, R
    <3> QED BY <1>3, <1>4, <3>1 DEF OpToRel
  <2>2. ASSUME Precedes(key[t], key[s]) PROVE FALSE
    <3>1. t \in Below(s)
      BY <2>2
    <3>2. t \notin Below(t)
      BY KeysAreOrdered
    <3>3. Below(t) \in SUBSET Below(s)
      <4> SUFFICES ASSUME NEW u \in S, Precedes(key[u], key[t]) PROVE Precedes(key[u], key[s])
        OBVIOUS
      <4> QED BY <2>2, KeysAreTransitive
    <3>4. /\ Cardinality(Below(t)) <= Cardinality(Below(s))
          /\ Cardinality(Below(t)) = Cardinality(Below(s)) => Below(t) = Below(s)
      <4>1. IsFiniteSet(Below(s))
        BY <1>1
      <4> HIDE DEF Below
      <4> QED BY <3>3, <4>1, FS_Subset
    <3>5. rank[t] <= rank[s] /\ (rank[t] = rank[s] => Below(t) = Below(s))
      BY <3>4
    <3>6. rank[t] \in Nat /\ rank[s] \in Nat
      BY <1>1
    <3> HIDE DEF rank, Below
    <3> QED BY <2>1, <3>1, <3>2, <3>5, <3>6
  <2>3. Precedes(key[s], key[t]) \/ Precedes(key[t], key[s])
    <3>1. key[s] # key[t]
      BY <1>5
    <3> QED BY <3>1, KeysAreOrdered
  <2> QED BY <2>2, <2>3
<1> QED BY <1>5
-----------------------------------------------------------------------------
(* A set of numbers has a least one.                                       *)
LEMMA LeastOf ==
  ASSUME NEW S \in SUBSET Nat, S # {}
  PROVE  Min(S) \in S /\ \A k \in S : Min(S) <= k
<1>0. ASSUME \A m \in S : \E k \in S : ~(m <= k) PROVE FALSE
  <2> DEFINE T == {k \in Nat : \A j \in 0 .. k : j \notin S}
  <2>1. \A m \in S : \E k \in S : k < m
    BY <1>0
  <2>2. 0 \in T
    BY <2>1
  <2>3. ASSUME NEW k \in T PROVE k + 1 \in T
    <3>1. k + 1 \notin S
      BY <2>1
    <3> QED BY <3>1
  <2>4. T = Nat
    <3>1. T \subseteq Nat
      OBVIOUS
    <3> HIDE DEF T
    <3> QED BY <2>2, <2>3, <3>1, Filtering!SetInduction
  <2>5. PICK m \in S : m \in T
    BY <2>4
  <2>6. m \in 0 .. m
    OBVIOUS
  <2> QED BY <2>5, <2>6
<1>1. \E m \in S : \A k \in S : m <= k
  BY <1>0
<1> QED BY <1>1 DEF Min

(* A list over a set is a list over a wider one.                           *)
LEMMA WiderSeq ==
  ASSUME NEW S, NEW T, S \subseteq T, NEW s \in Seq(S)
  PROVE  s \in Seq(T)
OBVIOUS

(* An element more in a list.                                              *)
LEMMA OneAppended ==
  ASSUME NEW s, IsList(s), NEW x
  PROVE  /\ IsList(Append(s, x)) /\ ToSet(Append(s, x)) = ToSet(s) \cup {x}
         /\ Distinct(s) /\ x \notin ToSet(s) => Distinct(Append(s, x))
<1>1. PICK new : new = Append(s, x)
  OBVIOUS
<1>2. PICK l \in Nat : Len(s) = l /\ DOMAIN s = 1 .. l
  BY ListDomain
<1>3. /\ IsList(new) /\ DOMAIN new = 1 .. l + 1
      /\ \A i \in 1 .. l : new[i] = s[i] /\ new[l + 1] = x
  BY <1>1, <1>2, ListAppended
<1>4. 1 .. l + 1 = (1 .. l) \cup {l + 1} /\ l + 1 \notin 1 .. l /\ new[l + 1] = x
  BY <1>1, <1>2, ListAppended
<1>5. ToSet(new) = ToSet(s) \cup {x}
  BY <1>2, <1>3, <1>4 DEF ToSet
<1>6. ASSUME Distinct(s), x \notin ToSet(s) PROVE Distinct(new)
  <2>1. \A i \in 1 .. l : s[i] # x
    BY <1>2, <1>6 DEF ToSet
  <2> QED BY <1>2, <1>3, <1>4, <1>6, <2>1 DEF Distinct
<1> QED BY <1>1, <1>3, <1>5, <1>6

(* A list joined to another.                                               *)
LEMMA Joined ==
  ASSUME NEW s, IsList(s), NEW u, IsList(u)
  PROVE  /\ IsList(s \o u) /\ ToSet(s \o u) = ToSet(s) \cup ToSet(u)
         /\ Len(s \o u) = Len(s) + Len(u) /\ Len(s) \in Nat /\ Len(u) \in Nat
         /\ \A i \in 1 .. Len(s) : (s \o u)[i] = s[i]
         /\ \A i \in 1 .. Len(u) : (s \o u)[Len(s) + i] = u[i]
<1>1. PICK l \in Nat, m \in Nat :
        Len(s) = l /\ DOMAIN s = 1 .. l /\ Len(u) = m /\ DOMAIN u = 1 .. m
  BY ListDomain
<1>2. PICK U : U = ToSet(s) \cup ToSet(u)
  OBVIOUS
<1>3. s \in Seq(U) /\ u \in Seq(U)
  BY <1>2, WiderSeq DEF IsList
<1>4. PICK b : b = s \o u
  OBVIOUS
<1>5. /\ b \in Seq(U) /\ Len(b) = l + m /\ \A i \in 1 .. l : b[i] = s[i]
      /\ \A i \in 1 .. m : b[l + i] = u[i]
  <2>1. b \in Seq(U) /\ Len(b) = l + m /\ \A i \in 1 .. l : b[i] = s[i]
    <3>1. b \in Seq(U) /\ Len(b) = Len(s) + Len(u)
      BY <1>3, <1>4
    <3>2. \A i \in 1 .. Len(s) : b[i] = s[i]
      BY <1>3, <1>4
    <3> QED BY <1>1, <3>1, <3>2
  <2>2. ASSUME NEW i \in 1 .. m PROVE b[l + i] = u[i]
    <3>1. l + i \in 1 .. l + m /\ ~(l + i <= l) /\ l + i - l = i
      OBVIOUS
    <3> QED BY <1>1, <1>3, <1>4, <3>1
  <2> QED BY <2>1, <2>2
<1>6. DOMAIN b = 1 .. l + m /\ IsList(b)
  BY <1>5, ListFrom
<1>7. ASSUME NEW x \in ToSet(b) PROVE x \in U
  BY <1>5, <1>7 DEF ToSet
<1>8. ASSUME NEW x \in U PROVE x \in ToSet(b)
  <2>1. CASE x \in ToSet(s)
    <3>1. PICK i \in 1 .. l : s[i] = x
      BY <1>1, <2>1 DEF ToSet
    <3>2. i \in DOMAIN b /\ b[i] = x
      BY <1>5, <1>6, <3>1
    <3> QED BY <3>2 DEF ToSet
  <2>2. CASE x \in ToSet(u)
    <3>1. PICK i \in 1 .. m : u[i] = x
      BY <1>1, <2>2 DEF ToSet
    <3>2. l + i \in DOMAIN b /\ b[l + i] = x
      BY <1>5, <1>6, <3>1
    <3> QED BY <3>2 DEF ToSet
  <2> QED BY <1>2, <2>1, <2>2
<1>9. ToSet(b) = U
  BY <1>7, <1>8
<1> QED BY <1>1, <1>2, <1>4, <1>5, <1>6, <1>9

(* The start of a list.                                                    *)
LEMMA StartOf ==
  ASSUME NEW s, IsList(s), NEW m \in Nat, m <= Len(s)
  PROVE  /\ IsList(SubSeq(s, 1, m)) /\ Len(SubSeq(s, 1, m)) = m /\ DOMAIN SubSeq(s, 1, m) = 1 .. m
         /\ \A i \in 1 .. m : SubSeq(s, 1, m)[i] = s[i]
<1>1. s \in Seq(ToSet(s)) /\ Len(s) \in Nat
  BY DEF IsList
<1>2. PICK b : b = SubSeq(s, 1, m)
  OBVIOUS
<1>3. b \in Seq(ToSet(s)) /\ Len(b) = m /\ \A i \in 1 .. m : b[i] = s[i]
  BY <1>1, <1>2
<1>4. DOMAIN b = 1 .. m
  BY <1>3
<1> QED BY <1>2, <1>3, <1>4, ListFrom

(* The rest of a list.                                                     *)
LEMMA RestOf ==
  ASSUME NEW s, IsList(s), NEW m \in Nat, m <= Len(s)
  PROVE  /\ IsList(SubSeq(s, m + 1, Len(s)))
         /\ ToSet(SubSeq(s, m + 1, Len(s))) = {s[i] : i \in m + 1 .. Len(s)}
         /\ SubSeq(s, m + 1, Len(s)) = <<>> <=> m = Len(s)
<1>1. PICK l \in Nat : Len(s) = l /\ DOMAIN s = 1 .. l /\ s \in Seq(ToSet(s))
  BY ListDomain DEF IsList
<1>2. PICK b : b = SubSeq(s, m + 1, l)
  OBVIOUS
<1>3. m + 1 \in 1 .. l + 1 /\ l - m \in Nat
  BY <1>1
<1>4. b \in Seq(ToSet(s)) /\ Len(b) = l - m
  BY <1>1, <1>2, <1>3
<1>5. ASSUME NEW i \in 1 .. l - m PROVE b[i] = s[m + i]
  <2>1. b[i] = s[(m + 1) + i - 1] /\ (m + 1) + i - 1 = m + i
    BY <1>1, <1>2, <1>3, <1>4
  <2> QED BY <2>1
<1>6. DOMAIN b = 1 .. l - m /\ IsList(b)
  BY <1>4, ListFrom
<1>7. ToSet(b) = {s[i] : i \in m + 1 .. l}
  <2>1. ASSUME NEW x \in ToSet(b) PROVE x \in {s[i] : i \in m + 1 .. l}
    <3>1. PICK i \in 1 .. l - m : b[i] = x
      BY <1>6 DEF ToSet
    <3>2. m + i \in m + 1 .. l
      OBVIOUS
    <3> QED BY <1>5, <3>1, <3>2
  <2>2. ASSUME NEW i \in m + 1 .. l PROVE s[i] \in ToSet(b)
    <3>1. i - m \in 1 .. l - m /\ m + (i - m) = i
      OBVIOUS
    <3> QED BY <1>5, <1>6, <3>1 DEF ToSet
  <2> QED BY <2>1, <2>2
<1>8. b = <<>> <=> m = l
  BY <1>1, <1>4
<1> QED BY <1>1, <1>2, <1>6, <1>7, <1>8

(* A name of a list is at its place, and no two names share theirs.        *)
LEMMA PlaceOf ==
  ASSUME NEW names, IsList(names)
  PROVE  /\ \A t \in ToSet(names) : Place(names, t) \in DOMAIN names /\ names[Place(names, t)] = t
         /\ \A t \in ToSet(names) : Place(names, t) \in Nat
         /\ \A t, u \in ToSet(names) : Place(names, t) = Place(names, u) => t = u
<1>1. \A t \in ToSet(names) : \E i \in DOMAIN names : names[i] = t
  BY DEF ToSet
<1>2. \A t \in ToSet(names) : Place(names, t) \in DOMAIN names /\ names[Place(names, t)] = t
  BY <1>1 DEF Place
<1>3. DOMAIN names \subseteq Nat
  BY ListDomain
<1> QED BY <1>2, <1>3

(* What a function returns on a finite set is finite.                      *)
LEMMA FiniteImage ==
  ASSUME NEW S, IsFiniteSet(S), NEW f
  PROVE  IsFiniteSet({f[x] : x \in S})
<1> DEFINE T == {f[x] : x \in S}
           g == [x \in S |-> f[x]]
<1>1. g \in Surjection(S, T)
  BY DEF Surjection
<1> HIDE DEF g
<1>2. IsFiniteSet(T)
  <2> HIDE DEF T
  <2> QED BY <1>1, FS_Surjection
<1> QED BY <1>2

(* The names of a list are finitely many.                                  *)
LEMMA ListIsFinite ==
  ASSUME NEW names, IsList(names)
  PROVE  IsFiniteSet(ToSet(names))
<1>1. Len(names) \in Nat /\ DOMAIN names = 1 .. Len(names)
  BY ListDomain
<1>2. IsFiniteSet(DOMAIN names)
  BY <1>1, FS_Interval
<1>3. ToSet(names) = {names[i] : i \in DOMAIN names}
  BY DEF ToSet
<1> QED BY <1>2, <1>3, FiniteImage

(* A finite set of numbers has a greatest one.                             *)
LEMMA GreatestOf ==
  ASSUME NEW S \in SUBSET Int, IsFiniteSet(S), S # {}
  PROVE  Max(S) \in S /\ \A k \in S : Max(S) >= k
<1> DEFINE key == [k \in S |-> [i \in 1 .. 1 |-> -k]]
<1>1. \A k \in S : key[k] \in Key(1)
  BY DEF Key
<1>2. \A j, k \in S : key[j] = key[k] => j = k
  <2> SUFFICES ASSUME NEW j \in S, NEW k \in S, key[j] = key[k] PROVE j = k
    OBVIOUS
  <2>1. 1 \in 1 .. 1
    OBVIOUS
  <2>2. key[j][1] = -j /\ key[k][1] = -k
    BY <2>1
  <2>3. -j = -k
    <3> HIDE DEF key
    <3> QED BY <2>2
  <2> QED BY <2>3
<1>3. \A j, k \in S : Precedes(key[j], key[k]) => j > k
  BY DEF Precedes
<1> HIDE DEF key
<1>4. 1 \in Nat
  OBVIOUS
<1>5. PICK m \in S : \A k \in S \ {m} : Precedes(key[m], key[k])
  BY <1>1, <1>2, <1>4, LeastKey
<1>6. \A k \in S : m >= k
  BY <1>3, <1>5
<1>7. \E x \in S : \A y \in S : x >= y
  BY <1>6
<1> QED BY <1>7 DEF Max

(* A set without two different elements has at most one.                   *)
LEMMA AtMostOne ==
  ASSUME NEW S, \A x, y \in S : x = y
  PROVE  Cardinality(S) <= 1
<1>1. CASE S = {}
  BY <1>1, FS_EmptySet
<1>2. CASE S # {}
  <2>1. PICK x : S = {x}
    BY <1>2
  <2> QED BY <2>1, FS_Singleton
<1> QED BY <1>1, <1>2
=============================================================================
