---------------------------- MODULE FoldInduction ----------------------------
(***************************************************************************)
(* Induction over FoldLeft.  A loop of the code over a list is a FoldLeft of*)
(* its body; what holds of the list's every prefix holds of the loop's end.*)
(* The induction theorems of the library take the induction hypothesis as  *)
(* an operator parameter, which the provers cannot instantiate; here the   *)
(* loop body Op(context, accumulator, element) and the invariant           *)
(* Good(context, elements done, accumulator) are constants of the module, so*)
(* that a module with a loop to reason about instantiates it once per loop.*)
(***************************************************************************)
EXTENDS Integers, Folds, WellFoundedInduction, TLAPS

CONSTANTS
  Op(_, _, _),   \* (c, acc, x): the loop's body on element x
  Good(_, _, _)  \* (c, k, acc): what holds after the first k elements

(* Induction on the natural numbers, over a set of them.                   *)
LEMMA SetInduction ==
  ASSUME NEW T, T \subseteq Nat, 0 \in T, \A k \in T : k + 1 \in T
  PROVE  T = Nat
<1> SUFFICES ASSUME Nat \ T # {} PROVE FALSE
  OBVIOUS
<1> DEFINE Less == {ss \in Nat \X Nat : ss[1] < ss[2]}
<1>1. IsWellFoundedOn(Less, Nat)
  BY NatLessThanWellFounded DEF OpToRel
<1>2. PICK n \in Nat \ T : \A m \in Nat \ T : <<m, n>> \notin Less
  <2> HIDE DEF Less
  <2> QED BY <1>1, WFMin
<1>3. n # 0 /\ n - 1 \in Nat /\ <<n - 1, n>> \in Less
  OBVIOUS
<1>4. n - 1 \in T
  BY <1>2, <1>3
<1> QED BY <1>3, <1>4

(* The choice of FoldLeft (Max of FiniteSetsExt).                            *)
Largest(S) == CHOOSE x \in S : \A y \in S : x >= y

(* MapThenFoldSet takes the indices of a sequence from the largest down: f *)
(* is the function it defines over the sets of indices.                    *)
Solves(f, c, base, seq, D) ==
  f = [s \in SUBSET D |->
     IF s = {} THEN base ELSE Op(c, f[s \ {Largest(s)}], seq[Largest(s)])]

Iter(c, base, seq, D) == CHOOSE f : Solves(f, c, base, seq, D)

(* Of the indices up to k + 1, k + 1 is taken first.                       *)
LEMMA MaxOfExtended ==
  ASSUME NEW k \in Nat, NEW s \in SUBSET (1 .. k + 1), k + 1 \in s
  PROVE  Largest(s) = k + 1
<1>1. \A y \in s : y \in Int /\ k + 1 >= y
  <2> TAKE y \in s
  <2>1. y \in 1 .. k + 1
    OBVIOUS
  <2> QED BY <2>1
<1>2. \A x \in s : (\A y \in s : x >= y) => x = k + 1
  BY <1>1
<1> QED BY <1>1, <1>2, Zenon DEF Largest

(* The recursive function exists: an index more extends the one before.    *)
LEMMA Solvable ==
  ASSUME NEW c, NEW base, NEW seq, NEW n \in Nat
  PROVE  \E f : Solves(f, c, base, seq, 1 .. n)
<1> DEFINE T == {k \in Nat : \E f : Solves(f, c, base, seq, 1 .. k)}
<1>1. 0 \in T
  <2>1. 1 .. 0 = {}
    OBVIOUS
  <2>2. Solves([s \in SUBSET (1 .. 0) |-> base], c, base, seq, 1 .. 0)
    BY <2>1 DEF Solves
  <2> QED BY <2>2
<1>2. ASSUME NEW k \in T PROVE k + 1 \in T
  <2>1. PICK f : Solves(f, c, base, seq, 1 .. k)
    OBVIOUS
  <2> DEFINE h == [s \in SUBSET (1 .. k + 1) |->
                     IF k + 1 \in s THEN Op(c, f[s \ {k + 1}], seq[k + 1]) ELSE f[s]]
  <2>2. ASSUME NEW s \in SUBSET (1 .. k + 1)
        PROVE  h[s] = IF s = {} THEN base ELSE Op(c, h[s \ {Largest(s)}], seq[Largest(s)])
    <3>1. CASE k + 1 \in s
      <4>1. Largest(s) = k + 1
        BY <3>1, MaxOfExtended
      <4>2. s \ {k + 1} \in SUBSET (1 .. k + 1) /\ k + 1 \notin s \ {k + 1}
        OBVIOUS
      <4>3. h[s \ {k + 1}] = f[s \ {k + 1}]
        BY <4>2
      <4>4. h[s] = Op(c, f[s \ {k + 1}], seq[k + 1])
        BY <3>1
      <4> QED BY <3>1, <4>1, <4>3, <4>4
    <3>2. CASE k + 1 \notin s
      <4>1. s \in SUBSET (1 .. k)
        <5>1. ASSUME NEW x \in s PROVE x \in 1 .. k
          BY <3>2
        <5> QED BY <5>1
      <4>5. s \ {Largest(s)} \in SUBSET (1 .. k + 1) /\ k + 1 \notin s \ {Largest(s)}
        BY <3>2
      <4>2. h[s] = f[s] /\ h[s \ {Largest(s)}] = f[s \ {Largest(s)}]
        BY <4>5, <3>2
      <4>3. f[s] = IF s = {} THEN base ELSE Op(c, f[s \ {Largest(s)}], seq[Largest(s)])
        BY <2>1, <4>1 DEF Solves
      <4> QED BY <4>2, <4>3
    <3> QED BY <3>1, <3>2
  <2>3. Solves(h, c, base, seq, 1 .. k + 1)
    <3>1. h = [s \in SUBSET (1 .. k + 1) |-> h[s]]
      OBVIOUS
    <3> HIDE DEF h
    <3> QED BY <2>2, <3>1 DEF Solves
  <2> HIDE DEF h
  <2> QED BY <2>3
<1> HIDE DEF T
<1>3. T = Nat
  BY <1>1, <1>2, SetInduction DEF T
<1> QED BY <1>3 DEF T

(* So the function that is chosen is one that solves the recursion.        *)
LEMMA IterSolves ==
  ASSUME NEW c, NEW base, NEW seq, NEW n \in Nat
  PROVE  Solves(Iter(c, base, seq, 1 .. n), c, base, seq, 1 .. n)
BY Solvable DEF Iter

(* FoldLeft(LAMBDA acc, x : Op(c, acc, x), base, seq), by its definition.    *)
Result(c, base, seq) ==
  MapThenFoldSet(LAMBDA x, acc : Op(c, acc, x), base, LAMBDA i : seq[i], Largest, DOMAIN seq)

(* FoldLeft is that function on all indices.                               *)
LEMMA ResultIsIter ==
  ASSUME NEW c, NEW base, NEW seq
  PROVE  Result(c, base, seq) = Iter(c, base, seq, DOMAIN seq)[DOMAIN seq]
BY DEF Result, Iter, Solves, MapThenFoldSet

(* A loop's invariant: true of the start, kept by the body on each element,*)
(* it is true of what the loop returns, for every sequence and body.       *)
THEOREM FoldInduction ==
  ASSUME NEW c, NEW base, NEW n \in Nat, NEW seq, DOMAIN seq = 1 .. n,
         Good(c, 0, base),
         \A i \in 1 .. n : \A acc : Good(c, i - 1, acc) => Good(c, i, Op(c, acc, seq[i]))
  PROVE  Good(c, n, Result(c, base, seq))
<1> DEFINE it == Iter(c, base, seq, 1 .. n)
           T == {k \in Nat : k <= n => Good(c, k, it[1 .. k])}
<1>0. Solves(it, c, base, seq, 1 .. n)
  BY IterSolves
<1> HIDE DEF it
<1>1. 0 \in T
  <2>1. 1 .. 0 = {} /\ 1 .. 0 \in SUBSET (1 .. n)
    OBVIOUS
  <2>2. it[1 .. 0] = base
    BY <1>0, <2>1 DEF Solves
  <2> QED BY <2>2
<1>2. ASSUME NEW k \in T PROVE k + 1 \in T
  <2> SUFFICES ASSUME k + 1 <= n PROVE Good(c, k + 1, it[1 .. k + 1])
    OBVIOUS
  <2>1. Good(c, k, it[1 .. k])
    OBVIOUS
  <2>2. Largest(1 .. k + 1) = k + 1
    BY MaxOfExtended
  <2>3. /\ (1 .. k + 1) \ {k + 1} = 1 .. k
        /\ 1 .. k + 1 # {}
        /\ 1 .. k + 1 \in SUBSET (1 .. n)
    OBVIOUS
  <2>4. it[1 .. k + 1] = Op(c, it[1 .. k], seq[k + 1])
    BY <1>0, <2>2, <2>3 DEF Solves
  <2>5. k + 1 \in 1 .. n /\ (k + 1) - 1 = k
    OBVIOUS
  <2> QED BY <2>1, <2>4, <2>5
<1>3. T = Nat
  <2> HIDE DEF T
  <2>1. T \subseteq Nat
    BY DEF T
  <2> QED BY <1>1, <1>2, <2>1, SetInduction
<1>4. Good(c, n, it[1 .. n])
  BY <1>3
<1> QED BY <1>4, ResultIsIter DEF it
==============================================================================
