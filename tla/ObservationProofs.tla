-------------------------- MODULE ObservationProofs --------------------------
(***************************************************************************)
(* Proofs about Observation, in three parts.                               *)
(*                                                                         *)
(* What is learnt (LearningInv): lists and what is kept of their elements, *)
(* the suggestions of an attempt, merging and cutting a store, and then    *)
(* one lemma for each action.                                              *)
(*                                                                         *)
(* The graph (GraphInv): what every stage puts is an edge that states what *)
(* was written (Sound), what a merge keeps of the edge there was, a lemma  *)
(* for each loop and each action, and from the edges the order in which    *)
(* two tools are shown.                                                    *)
(*                                                                         *)
(* The trace (TraceInv): what a handle leaves when it is finished, a lemma *)
(* for each action of the recorder, and from them what is exported.        *)
(***************************************************************************)
EXTENDS Observation, OrderingLemmas

-----------------------------------------------------------------------------
(* Suggestions.                                                            *)
Decision == {"promoted", "rejected"}

IsSuggestion(s) ==
  /\ DOMAIN s = {"id", "type", "family", "target", "status", "observations", "failures", "seen"}
  /\ s.observations \in Nat /\ s.seen \in Int

IdsOf(s) == {s[k].id : k \in DOMAIN s}

OwnIds(s) == \A i, j \in DOMAIN s : s[i].id = s[j].id => i = j

(* A list of suggestions, one of each id.                                  *)
IsStore(s) == IsList(s) /\ OwnIds(s) /\ \A k \in DOMAIN s : IsSuggestion(s[k])

(* The status of a suggestion is the one decided, if any is.               *)
Obeys(word, s) ==
  IF s.id \in DOMAIN word THEN s.status = word[s.id] ELSE s.status \notin Decision

(* The index of the suggestion with an id.                                 *)
LEMMA FindIn ==
  ASSUME NEW s, IsStore(s), NEW id
  PROVE  /\ id \in IdsOf(s) => Find(s, id) \in DOMAIN s /\ s[Find(s, id)].id = id
         /\ id \notin IdsOf(s) => Find(s, id) = 0
         /\ Find(s, id) # 0 => id \in IdsOf(s)
<1> DEFINE I == {i \in 1 .. Len(s) : s[i].id = id}
<1>1. DOMAIN s = 1 .. Len(s) /\ Len(s) \in Nat
  BY ListDomain DEF IsStore
<1>2. Find(s, id) = IF I # {} THEN CHOOSE x \in I : \A y \in I : x <= y ELSE 0
  BY DEF Find, SelectInSeq, Min
<1>3. CASE id \in IdsOf(s)
  <2>1. PICK k \in DOMAIN s : s[k].id = id
    BY <1>3 DEF IdsOf
  <2>2. k \in I /\ k \in Nat /\ k # 0 /\ \A y \in I : y = k
    BY <1>1, <2>1 DEF IsStore, OwnIds
  <2>3. \A y \in I : k <= y
    BY <2>2
  <2> HIDE DEF I
  <2>4. Find(s, id) = k
    BY <1>2, <2>2, <2>3
  <2> QED BY <1>3, <2>1, <2>4
<1>4. CASE id \notin IdsOf(s)
  <2>1. I = {}
    BY <1>1, <1>4 DEF IdsOf
  <2> QED BY <1>2, <1>4, <2>1
<1> QED BY <1>3, <1>4

(* Merging a suggestion into what is known of it keeps a decision.         *)
LEMMA MergedFits ==
  ASSUME NEW p, IsSuggestion(p), NEW s, IsSuggestion(s), NEW history
  PROVE  /\ IsSuggestion(Merged(p, s, history))
         /\ Merged(p, s, history).id = s.id
         /\ Merged(p, s, history).observations = p.observations + s.observations
         /\ p.status \in Decision => Merged(p, s, history).status = p.status
         /\ p.status \notin Decision => Merged(p, s, history).status \notin Decision
<1> DEFINE counted == [s EXCEPT !.observations = p.observations + s.observations]
<1>1. StatusOf(counted, history) \notin Decision
  BY DEF StatusOf, Decision
<1>2. PICK st : st = MergedStatus(p, counted, history)
  OBVIOUS
<1>3. (p.status \in Decision => st = p.status) /\ (p.status \notin Decision => st \notin Decision)
  BY <1>1, <1>2 DEF MergedStatus, Decision
<1>4. Merged(p, s, history) = [[s EXCEPT !.observations = p.observations + s.observations] EXCEPT !.status = st]
  BY <1>2 DEF Merged
<1>5. p.observations + s.observations \in Nat
  BY DEF IsSuggestion
<1> HIDE DEF counted
<1> QED BY <1>3, <1>4, <1>5 DEF IsSuggestion

(* A suggestion not known before.                                          *)
LEMMA UnknownFits ==
  ASSUME NEW s, IsSuggestion(s)
  PROVE  /\ IsSuggestion(Unknown(s)) /\ Unknown(s).observations = 0
         /\ Unknown(s).status \notin Decision
BY DEF Unknown, IsSuggestion, Decision

(* The observations of the suggestion with an id, none without one.        *)
Tally(s, id) == IF Find(s, id) = 0 THEN 0 ELSE s[Find(s, id)].observations

LEMMA TallyFits ==
  ASSUME NEW s, IsStore(s)
  PROVE  /\ \A id : Tally(s, id) \in Nat
         /\ \A k \in DOMAIN s : Tally(s, s[k].id) = s[k].observations
         /\ \A id : id \notin IdsOf(s) => Tally(s, id) = 0
<1>1. DOMAIN s = 1 .. Len(s) /\ Len(s) \in Nat
  BY ListDomain DEF IsStore
<1>2. ASSUME NEW id, id \in IdsOf(s)
      PROVE  /\ Find(s, id) \in DOMAIN s /\ s[Find(s, id)].id = id
             /\ Tally(s, id) = s[Find(s, id)].observations
  BY <1>1, <1>2, FindIn DEF Tally
<1>3. \A id : id \notin IdsOf(s) => Tally(s, id) = 0
  BY FindIn DEF Tally
<1>4. ASSUME NEW k \in DOMAIN s PROVE Tally(s, s[k].id) = s[k].observations
  <2>1. s[k].id \in IdsOf(s)
    BY DEF IdsOf
  <2>2. Find(s, s[k].id) = k
    BY <1>2, <2>1 DEF IsStore, OwnIds
  <2> QED BY <1>2, <2>1, <2>2
<1>5. \A id : Tally(s, id) \in Nat
  BY <1>2, <1>3 DEF IsStore, IsSuggestion
<1> QED BY <1>3, <1>4, <1>5
-----------------------------------------------------------------------------
(* The loop of merge_learning_suggestions over what is incoming: c.word are*)
(* the operator's decisions on the suggestions of c.store.                 *)
PutOne(c, acc, s) == Put(acc, s, c.history)

Bonus(c, i, id) == IF \E j \in 1 .. i : c.new[j].id = id THEN Tally(c.new, id) ELSE 0

(* What a suggestion counts when i of the incoming ones are merged.        *)
CountSoFar(c, i, id) == Tally(c.store, id) + Bonus(c, i, id)

Learnt(c, i, acc) ==
  /\ IsStore(acc)
  /\ IdsOf(c.store) \subseteq IdsOf(acc)
  /\ \A k \in DOMAIN acc : acc[k].id \in IdsOf(c.store) \/ \E j \in 1 .. i : c.new[j].id = acc[k].id
  /\ \A k \in DOMAIN acc : Obeys(c.word, acc[k])
  /\ \A k \in DOMAIN acc : acc[k].observations <= CountSoFar(c, i, acc[k].id)

Learning == INSTANCE FoldInduction WITH Op <- PutOne, Good <- Learnt

(* What such a merge is given.                                             *)
Mergeable(c) ==
  /\ IsStore(c.store) /\ IsStore(c.new)
  /\ DOMAIN c.word \subseteq IdsOf(c.store)
  /\ \A id \in DOMAIN c.word : c.word[id] \in Decision
  /\ \A k \in DOMAIN c.store : Obeys(c.word, c.store[k])

(* What was merged last adds its own count, and was not merged before.     *)
LEMMA CountSteps ==
  ASSUME NEW c, Mergeable(c), NEW i \in DOMAIN c.new
  PROVE  /\ CountSoFar(c, i - 1, c.new[i].id) \in Nat
         /\ CountSoFar(c, i, c.new[i].id) =
              CountSoFar(c, i - 1, c.new[i].id) + c.new[i].observations
         /\ \A id : id # c.new[i].id => CountSoFar(c, i, id) = CountSoFar(c, i - 1, id)
<1>1. i \in Nat /\ 1 .. i = (1 .. i - 1) \cup {i} /\ i \notin 1 .. i - 1 /\ 1 .. i \subseteq DOMAIN c.new
  BY ListDomain DEF Mergeable, IsStore
<1>2. \A j \in 1 .. i - 1 : c.new[j].id # c.new[i].id
  BY <1>1 DEF Mergeable, IsStore, OwnIds
<1>3. /\ \A id : Tally(c.store, id) \in Nat /\ Tally(c.new, id) \in Nat
      /\ Tally(c.new, c.new[i].id) = c.new[i].observations
  BY TallyFits DEF Mergeable
<1>4. Bonus(c, i - 1, c.new[i].id) = 0 /\ Bonus(c, i, c.new[i].id) = c.new[i].observations
  BY <1>1, <1>2, <1>3 DEF Bonus
<1>5. \A id : id # c.new[i].id => Bonus(c, i, id) = Bonus(c, i - 1, id)
  BY <1>1 DEF Bonus
<1> QED BY <1>3, <1>4, <1>5 DEF CountSoFar

(* One suggestion put into the store.                                      *)
LEMMA PutLearns ==
  ASSUME NEW c, Mergeable(c), NEW i \in DOMAIN c.new, NEW acc, Learnt(c, i - 1, acc)
  PROVE  Learnt(c, i, PutOne(c, acc, c.new[i]))
<1> DEFINE s == c.new[i]
           f == Find(acc, s.id)
<1>1. /\ IsSuggestion(s) /\ s.observations \in Nat /\ CountSoFar(c, i - 1, s.id) \in Nat
      /\ CountSoFar(c, i, s.id) = CountSoFar(c, i - 1, s.id) + s.observations
  BY CountSteps DEF Mergeable, IsStore, IsSuggestion
<1>2. /\ IsStore(acc) /\ Len(acc) \in Nat /\ DOMAIN acc = 1 .. Len(acc)
  BY ListDomain DEF Learnt, IsStore
<1>3. i \in Nat /\ 1 .. i = (1 .. i - 1) \cup {i} /\ 1 .. i \subseteq DOMAIN c.new
  BY ListDomain DEF Mergeable, IsStore
<1>4. CASE s.id \in IdsOf(acc)
  <2>1. f \in DOMAIN acc /\ acc[f].id = s.id /\ f # 0
    BY <1>2, <1>4, FindIn
  <2>2. PICK m : m = Merged(acc[f], s, c.history)
    OBVIOUS
  <2>3. /\ IsSuggestion(acc[f]) /\ Obeys(c.word, acc[f])
        /\ acc[f].observations <= CountSoFar(c, i - 1, s.id)
    BY <1>2, <2>1 DEF Learnt, IsStore
  <2>4. /\ IsSuggestion(m) /\ m.id = s.id
        /\ m.observations = acc[f].observations + s.observations
        /\ acc[f].status \in Decision => m.status = acc[f].status
        /\ acc[f].status \notin Decision => m.status \notin Decision
    BY <1>1, <2>2, <2>3, MergedFits
  <2>5. Obeys(c.word, m)
    BY <2>1, <2>3, <2>4 DEF Obeys, Mergeable
  <2>6. m.observations <= CountSoFar(c, i, m.id)
    BY <1>1, <2>3, <2>4 DEF IsSuggestion
  <2>7. PICK new : new = [acc EXCEPT ![f] = m]
    OBVIOUS
  <2>8. PutOne(c, acc, s) = new
    BY <2>1, <2>2, <2>7 DEF PutOne, Put
  <2>9. DOMAIN new = 1 .. Len(acc) /\ new[f] = m /\ \A k \in DOMAIN acc : k # f => new[k] = acc[k]
    BY <1>2, <2>1, <2>7
  <2>10. IsList(new)
    <3>1. acc \in [1 .. Len(acc) -> ToSet(acc)]
      BY <1>2 DEF IsStore, IsList
    <3>2. new \in [1 .. Len(acc) -> ToSet(acc) \cup {m}]
      BY <2>7, <3>1
    <3>3. new \in Seq(ToSet(acc) \cup {m})
      BY <1>2, <3>2
    <3> QED BY <3>3, ListFrom
  <2>11. OwnIds(new)
    BY <1>2, <2>1, <2>4, <2>9 DEF IsStore, OwnIds
  <2>12. IsStore(new)
    BY <1>2, <2>4, <2>9, <2>10, <2>11 DEF IsStore
  <2>13. \A k \in DOMAIN new : new[k].id = acc[k].id
    BY <1>2, <2>1, <2>4, <2>9
  <2>14. IdsOf(new) = IdsOf(acc)
    BY <1>2, <2>9, <2>13 DEF IdsOf
  <2>15. \A k \in DOMAIN new : new[k].id \in IdsOf(c.store) \/ \E j \in 1 .. i : c.new[j].id = new[k].id
    BY <1>2, <1>3, <2>9, <2>13 DEF Learnt
  <2>16. \A k \in DOMAIN new : Obeys(c.word, new[k])
    BY <1>2, <2>5, <2>9 DEF Learnt
  <2>17. ASSUME NEW k \in DOMAIN new
         PROVE  new[k].observations <= CountSoFar(c, i, new[k].id)
    <3>1. CASE k = f
      BY <2>6, <2>9, <3>1
    <3>2. CASE k # f
      <4>1. new[k] = acc[k] /\ k \in DOMAIN acc /\ acc[k].id # s.id
        BY <1>2, <2>1, <2>9, <3>2 DEF IsStore, OwnIds
      <4> QED BY <4>1, CountSteps DEF Learnt
    <3> QED BY <3>1, <3>2
  <2> QED BY <2>8, <2>12, <2>14, <2>15, <2>16, <2>17 DEF Learnt
<1>5. CASE s.id \notin IdsOf(acc)
  <2>1. f = 0
    BY <1>2, <1>5, FindIn
  <2>2. PICK m : m = Merged(Unknown(s), s, c.history)
    OBVIOUS
  <2>3. /\ IsSuggestion(m) /\ m.id = s.id /\ m.observations = s.observations
        /\ m.status \notin Decision
    BY <1>1, <2>2, MergedFits, UnknownFits
  <2>4. s.id \notin DOMAIN c.word
    BY <1>5 DEF Mergeable, Learnt
  <2>5. Obeys(c.word, m)
    BY <2>3, <2>4 DEF Obeys
  <2>6. m.observations <= CountSoFar(c, i, m.id)
    BY <1>1, <2>3
  <2>7. PICK new : new = Append(acc, m)
    OBVIOUS
  <2>8. PutOne(c, acc, s) = new
    BY <2>1, <2>2, <2>7 DEF PutOne, Put
  <2>9. /\ IsList(new) /\ DOMAIN new = (DOMAIN acc) \cup {Len(acc) + 1}
        /\ Len(acc) + 1 \notin DOMAIN acc
        /\ \A k \in DOMAIN acc : new[k] = acc[k]
        /\ new[Len(acc) + 1] = m
    BY <1>2, <2>7, ListAppended DEF IsStore
  <2>10. \A k \in DOMAIN acc : acc[k].id # s.id
    BY <1>5 DEF IdsOf
  <2>11. OwnIds(new)
    BY <1>2, <2>3, <2>9, <2>10 DEF IsStore, OwnIds
  <2>12. IsStore(new)
    BY <1>2, <2>3, <2>9, <2>11 DEF IsStore
  <2>13. IdsOf(acc) \subseteq IdsOf(new)
    BY <2>9 DEF IdsOf
  <2>14. \A k \in DOMAIN new : new[k].id \in IdsOf(c.store) \/ \E j \in 1 .. i : c.new[j].id = new[k].id
    BY <1>3, <2>3, <2>9 DEF Learnt
  <2>15. \A k \in DOMAIN new : Obeys(c.word, new[k])
    BY <2>5, <2>9 DEF Learnt
  <2>16. ASSUME NEW k \in DOMAIN new
         PROVE  new[k].observations <= CountSoFar(c, i, new[k].id)
    <3>1. CASE k = Len(acc) + 1
      BY <2>6, <2>9, <3>1
    <3>2. CASE k # Len(acc) + 1
      <4>1. new[k] = acc[k] /\ k \in DOMAIN acc /\ acc[k].id # s.id
        BY <2>9, <2>10, <3>2
      <4> QED BY <4>1, CountSteps DEF Learnt
    <3> QED BY <3>1, <3>2
  <2> QED BY <2>8, <2>12, <2>13, <2>14, <2>15, <2>16 DEF Learnt
<1> QED BY <1>4, <1>5
-----------------------------------------------------------------------------
(* A store in the order of its ranks has the same suggestions.             *)
LEMMA RankedFits ==
  ASSUME NEW all, IsStore(all)
  PROVE  IsStore(Ranked(all)) /\ ToSet(Ranked(all)) \subseteq ToSet(all)
<1> DEFINE key == [i \in DOMAIN all |-> <<0 - StatusRank(all[i].status), 0 - all[i].seen, i>>]
<1>1. DOMAIN all = 1 .. Len(all) /\ Len(all) \in Nat
  BY ListDomain DEF IsStore
<1>2. ASSUME NEW i \in DOMAIN all PROVE key[i] \in Key(3) /\ key[i][3] = i
  <2>1. StatusRank(all[i].status) \in Int
    BY DEF StatusRank
  <2>2. all[i].seen \in Int /\ i \in Int
    BY <1>1 DEF IsStore, IsSuggestion
  <2>3. PICK a \in Int, b \in Int :
          a = 0 - StatusRank(all[i].status) /\ b = 0 - all[i].seen
    <3>1. 0 - StatusRank(all[i].status) \in Int /\ 0 - all[i].seen \in Int
      BY <2>1, <2>2
    <3> QED BY <3>1
  <2>4. key[i] = <<a, b, i>>
    BY <2>3
  <2>5. <<a, b, i>> \in [1 .. 3 -> Int]
    BY <2>2, <2>4
  <2>6. <<a, b, i>>[3] = i
    OBVIOUS
  <2> QED BY <2>4, <2>5, <2>6 DEF Key
<1>3. IsFiniteSet(DOMAIN all) /\ Cardinality(DOMAIN all) = Len(all)
  <2>1. /\ IsFiniteSet(1 .. Len(all))
        /\ Cardinality(1 .. Len(all)) = IF 1 > Len(all) THEN 0 ELSE Len(all) - 1 + 1
    BY <1>1, FS_Interval
  <2> QED BY <1>1, <2>1
<1>4. PICK order : order = Sorted(DOMAIN all, key)
  OBVIOUS
<1>5. /\ DOMAIN order = DOMAIN all /\ Distinct(order) /\ ToSet(order) = DOMAIN all
  <2> HIDE DEF key
  <2>1. \A i \in DOMAIN all : key[i] \in Key(3)
    BY <1>2
  <2>2. \A i, j \in DOMAIN all : key[i] = key[j] => i = j
    BY <1>2
  <2>3. 3 \in Nat
    OBVIOUS
  <2>4. DOMAIN order = 1 .. Cardinality(DOMAIN all)
    BY <1>3, <1>4, <2>1, <2>2, <2>3, SortedList
  <2>5. Distinct(order) /\ ToSet(order) = DOMAIN all
    BY <1>3, <1>4, <2>1, <2>2, <2>3, SortedList
  <2> QED BY <1>1, <1>3, <2>4, <2>5
<1>6. \A k \in DOMAIN all : order[k] \in DOMAIN all
  BY <1>5 DEF ToSet
<1>7. PICK new : new = Ranked(all)
  OBVIOUS
<1>8. new = [k \in DOMAIN all |-> all[order[k]]]
  BY <1>4, <1>7 DEF Ranked
<1>9. IsList(new) /\ DOMAIN new = DOMAIN all
  <2>1. new = [k \in 1 .. Len(all) |-> new[k]]
    BY <1>1, <1>8
  <2> QED BY <1>1, <1>8, <2>1, ListOf
<1>10. OwnIds(new)
  BY <1>5, <1>6, <1>8, <1>9 DEF OwnIds, Distinct, IsStore
<1>11. \A k \in DOMAIN new : IsSuggestion(new[k])
  BY <1>6, <1>8, <1>9 DEF IsStore
<1>12. ToSet(new) \subseteq ToSet(all)
  BY <1>6, <1>8, <1>9 DEF ToSet
<1> QED BY <1>7, <1>9, <1>10, <1>11, <1>12 DEF IsStore

(* The first suggestions of a store.                                       *)
LEMMA CutFits ==
  ASSUME NEW all, IsStore(all), NEW m \in Nat, m <= Len(all)
  PROVE  IsStore(SubSeq(all, 1, m)) /\ ToSet(SubSeq(all, 1, m)) \subseteq ToSet(all)
<1>1. PICK new : new = SubSeq(all, 1, m)
  OBVIOUS
<1>2. Len(all) \in Nat /\ DOMAIN all = 1 .. Len(all) /\ all \in Seq(ToSet(all))
  BY ListDomain DEF IsStore, IsList
<1>3. new \in Seq(ToSet(all)) /\ DOMAIN new = 1 .. m /\ \A i \in 1 .. m : new[i] = all[i]
  BY <1>1, <1>2
<1>4. IsList(new)
  BY <1>3, ListFrom
<1>5. \A i \in 1 .. m : i \in DOMAIN all
  BY <1>2
<1>6. OwnIds(new) /\ \A k \in DOMAIN new : IsSuggestion(new[k])
  BY <1>3, <1>5 DEF IsStore, OwnIds
<1>7. ToSet(new) \subseteq ToSet(all)
  BY <1>3, <1>5 DEF ToSet
<1> QED BY <1>1, <1>4, <1>6, <1>7 DEF IsStore

(* merge_learning_suggestions: decisions stand, and nothing is counted     *)
(* that was not shown.                                                     *)
LEMMA MergeFits ==
  ASSUME NEW c, Mergeable(c)
  PROVE  LET merged == Merge(c.store, c.new, c.history) IN
         /\ IsStore(merged)
         /\ \A k \in DOMAIN merged :
              /\ Obeys(c.word, merged[k])
              /\ merged[k].observations
                   <= Tally(c.store, merged[k].id) + Tally(c.new, merged[k].id)
              /\ merged[k].id \in IdsOf(c.store) \cup IdsOf(c.new)
<1>1. PICK acc : acc = FoldLeft(LAMBDA a, s : Put(a, s, c.history), c.store, c.new)
  OBVIOUS
<1>2. acc = Learning!Result(c, c.store, c.new)
  BY <1>1 DEF PutOne, FoldLeft, MapThenFoldSet, Max, Learning!Result,
              Learning!MapThenFoldSet, Learning!Largest
<1>3. PICK n \in Nat : DOMAIN c.new = 1 .. n
  BY ListDomain DEF Mergeable, IsStore
<1>4. Learnt(c, 0, c.store)
  <2>1. \A k \in DOMAIN c.store : c.store[k].id \in IdsOf(c.store)
    BY DEF IdsOf
  <2>2. \A id : Bonus(c, 0, id) = 0
    BY DEF Bonus
  <2>3. \A k \in DOMAIN c.store : c.store[k].observations <= CountSoFar(c, 0, c.store[k].id)
    <3>1. IsStore(c.store)
      BY DEF Mergeable
    <3>2. ASSUME NEW k \in DOMAIN c.store
          PROVE  c.store[k].observations <= CountSoFar(c, 0, c.store[k].id)
      <4>1. Tally(c.store, c.store[k].id) = c.store[k].observations
        BY <3>1, TallyFits
      <4>2. c.store[k].observations \in Nat
        BY <3>1 DEF IsStore, IsSuggestion
      <4>3. Bonus(c, 0, c.store[k].id) = 0
        BY <2>2
      <4> QED BY <4>1, <4>2, <4>3 DEF CountSoFar
    <3> QED BY <3>2
  <2> QED BY <2>1, <2>3 DEF Learnt, Mergeable
<1>5. \A i \in 1 .. n : \A a : Learnt(c, i - 1, a) => Learnt(c, i, PutOne(c, a, c.new[i]))
  BY <1>3, PutLearns
<1>6. Learnt(c, n, acc)
  BY <1>2, <1>3, <1>4, <1>5, Learning!FoldInduction
<1>7. IsStore(Ranked(acc)) /\ ToSet(Ranked(acc)) \subseteq ToSet(acc)
  BY <1>6, RankedFits DEF Learnt
<1>8. PICK m : m = IF Len(Ranked(acc)) < MaxSuggestions THEN Len(Ranked(acc)) ELSE MaxSuggestions
  OBVIOUS
<1>9. m \in Nat /\ m <= Len(Ranked(acc))
  BY <1>7, <1>8, ListDomain, LimitAssumption DEF IsStore
<1>10. PICK merged : merged = Merge(c.store, c.new, c.history)
  OBVIOUS
<1>11. merged = SubSeq(Ranked(acc), 1, m)
  BY <1>1, <1>8, <1>10 DEF Merge
<1>12. IsStore(merged) /\ ToSet(merged) \subseteq ToSet(acc)
  BY <1>7, <1>9, <1>11, CutFits
<1>13. ASSUME NEW k \in DOMAIN merged
       PROVE  /\ Obeys(c.word, merged[k])
              /\ merged[k].observations
                   <= Tally(c.store, merged[k].id) + Tally(c.new, merged[k].id)
              /\ merged[k].id \in IdsOf(c.store) \cup IdsOf(c.new)
  <2>1. PICK j \in DOMAIN acc : merged[k] = acc[j]
    BY <1>12 DEF ToSet
  <2>2. (\E i \in 1 .. n : c.new[i].id = acc[j].id) <=> acc[j].id \in IdsOf(c.new)
    BY <1>3 DEF IdsOf
  <2>3. CountSoFar(c, n, acc[j].id) <= Tally(c.store, acc[j].id) + Tally(c.new, acc[j].id)
    BY TallyFits DEF CountSoFar, Bonus, Mergeable
  <2>4. CountSoFar(c, n, acc[j].id) \in Nat /\ acc[j].observations \in Nat
    <3>1. acc[j].observations \in Nat
      BY <1>6 DEF Learnt, IsStore, IsSuggestion
    <3>2. Tally(c.store, acc[j].id) \in Nat /\ Tally(c.new, acc[j].id) \in Nat
      BY TallyFits DEF Mergeable
    <3> QED BY <3>1, <3>2 DEF CountSoFar, Bonus
  <2>5. Tally(c.store, acc[j].id) \in Nat /\ Tally(c.new, acc[j].id) \in Nat
    BY TallyFits DEF Mergeable
  <2>6. acc[j].observations <= Tally(c.store, acc[j].id) + Tally(c.new, acc[j].id)
    BY <1>6, <2>3, <2>4, <2>5 DEF Learnt
  <2> QED BY <1>6, <2>1, <2>2, <2>6 DEF Learnt
<1> QED BY <1>10, <1>12, <1>13
-----------------------------------------------------------------------------
(* What an attempt teaches.                                                *)
IsAttempt(a) ==
  /\ a.at \in Int /\ IsList(a.edges) /\ Distinct(a.edges)
  /\ \A i \in DOMAIN a.edges :
       a.edges[i] = [source |-> a.edges[i].source, target |-> a.edges[i].target,
                     field |-> a.edges[i].field]

(* Suggestions derived and not merged yet: each seen once, none decided.   *)
IsFresh(s) ==
  IsStore(s) /\ \A k \in DOMAIN s : s[k].status \notin Decision /\ s[k].observations <= 1

(* Two such lists without a common id.                                     *)
LEMMA FreshJoined ==
  ASSUME NEW s, IsFresh(s), NEW t, IsFresh(t), IdsOf(s) \cap IdsOf(t) = {}
  PROVE  IsFresh(s \o t) /\ IdsOf(s \o t) = IdsOf(s) \cup IdsOf(t)
<1>1. /\ Len(s) \in Nat /\ DOMAIN s = 1 .. Len(s) /\ s \in Seq(ToSet(s))
      /\ Len(t) \in Nat /\ DOMAIN t = 1 .. Len(t) /\ t \in Seq(ToSet(t))
  BY ListDomain DEF IsFresh, IsStore, IsList
<1>2. PICK new : new = s \o t
  OBVIOUS
<1>3. s \in Seq(ToSet(s) \cup ToSet(t)) /\ t \in Seq(ToSet(s) \cup ToSet(t))
  BY <1>1
<1>4. /\ new \in Seq(ToSet(s) \cup ToSet(t)) /\ DOMAIN new = 1 .. Len(s) + Len(t)
      /\ \A i \in 1 .. Len(s) : new[i] = s[i]
      /\ \A i \in 1 .. Len(s) + Len(t) : i > Len(s) => new[i] = t[i - Len(s)]
  BY <1>1, <1>2, <1>3
<1>5. IsList(new)
  BY <1>4, ListFrom
<1>6. ASSUME NEW i \in DOMAIN new
      PROVE  \/ i \in DOMAIN s /\ new[i] = s[i]
             \/ i - Len(s) \in DOMAIN t /\ new[i] = t[i - Len(s)] /\ i > Len(s)
  BY <1>1, <1>4
<1>7. \A i \in DOMAIN s, j \in DOMAIN t : s[i].id # t[j].id
  BY DEF IdsOf
<1>8. OwnIds(new)
  <2> SUFFICES ASSUME NEW i \in DOMAIN new, NEW j \in DOMAIN new, new[i].id = new[j].id
               PROVE  i = j
    BY DEF OwnIds
  <2>1. i \in Nat /\ j \in Nat
    BY <1>1, <1>4
  <2>2. CASE i \in DOMAIN s /\ new[i] = s[i]
    BY <1>6, <1>7, <2>2 DEF IsFresh, IsStore, OwnIds
  <2>3. CASE i - Len(s) \in DOMAIN t /\ new[i] = t[i - Len(s)] /\ i > Len(s)
    <3>1. j - Len(s) \in DOMAIN t /\ new[j] = t[j - Len(s)] /\ j > Len(s)
      BY <1>6, <1>7, <2>3
    <3>2. i - Len(s) = j - Len(s)
      BY <2>3, <3>1 DEF IsFresh, IsStore, OwnIds
    <3> QED BY <1>1, <2>1, <3>2
  <2> QED BY <1>6, <2>2, <2>3
<1>9. \A k \in DOMAIN new :
        IsSuggestion(new[k]) /\ new[k].status \notin Decision /\ new[k].observations <= 1
  BY <1>6 DEF IsFresh, IsStore
<1>10. IdsOf(new) = IdsOf(s) \cup IdsOf(t)
  <2>1. \A k \in DOMAIN new : new[k].id \in IdsOf(s) \cup IdsOf(t)
    BY <1>6 DEF IdsOf
  <2>2. \A k \in DOMAIN s : k \in DOMAIN new /\ new[k].id = s[k].id
    BY <1>1, <1>4
  <2>3. ASSUME NEW k \in DOMAIN t
        PROVE  k + Len(s) \in DOMAIN new /\ new[k + Len(s)].id = t[k].id
    <3>1. k \in Nat /\ k >= 1 /\ k <= Len(t)
      BY <1>1
    <3>2. k + Len(s) \in 1 .. Len(s) + Len(t) /\ k + Len(s) > Len(s) /\ (k + Len(s)) - Len(s) = k
      BY <1>1, <3>1
    <3>3. new[k + Len(s)] = t[(k + Len(s)) - Len(s)]
      BY <1>4, <3>2
    <3> QED BY <1>4, <3>2, <3>3
  <2> QED BY <2>1, <2>2, <2>3 DEF IdsOf
<1> QED BY <1>2, <1>5, <1>8, <1>9, <1>10 DEF IsFresh, IsStore

(* The empty list of suggestions.                                          *)
LEMMA NoneFresh == IsFresh(<<>>) /\ IdsOf(<<>>) = {}
<1>1. <<>> \in Seq({})
  OBVIOUS
<1>2. IsList(<<>>)
  BY <1>1, ListFrom
<1> QED BY <1>2 DEF IsFresh, IsStore, OwnIds, IdsOf

(* How many attempts failed before is a number that no proof looks at.     *)
LEMMA SuggestionFits ==
  ASSUME NEW a, a.at \in Int, NEW history, NEW type, NEW key, NEW target
  PROVE  LET s == Suggestion(a, history, type, key, target) IN
         /\ IsSuggestion(s) /\ s.id = <<a.family, type, key>>
         /\ s.status \notin Decision /\ s.observations <= 1
BY DEF Suggestion, IsSuggestion, IdOf, Decision

(* A list of one new suggestion.                                           *)
LEMMA OneFresh ==
  ASSUME NEW s, IsSuggestion(s), s.status \notin Decision, s.observations <= 1
  PROVE  IsFresh(<<s>>) /\ IdsOf(<<s>>) = {s.id}
<1>1. <<s>> \in Seq({s})
  OBVIOUS
<1>2. IsList(<<s>>)
  BY <1>1, ListFrom
<1>3. DOMAIN <<s>> = {1} /\ <<s>>[1] = s
  OBVIOUS
<1> QED BY <1>2, <1>3 DEF IsFresh, IsStore, OwnIds, IdsOf

(* The suggestions of an attempt, whatever happened before: fresh ones,    *)
(* whose ids depend on the attempt alone.                                  *)
SuggestedIds(a) ==
  IF ~a.success THEN {}
  ELSE (IF a.target = NoTarget THEN {} ELSE {<<a.family, "target_preference", <<a.target>>>>})
       \cup (IF a.path = <<>> THEN {} ELSE {<<a.family, "plan_path", a.path>>})
       \cup {<<a.family, "data_flow_edge",
               <<a.edges[i].source, a.edges[i].target, a.edges[i].field>>>> : i \in DOMAIN a.edges}

(* An attempt suggests each thing it showed once, counted once.            *)
LEMMA SuggestedFresh ==
  ASSUME NEW a, IsAttempt(a), NEW history
  PROVE  IsFresh(Suggested(a, history)) /\ IdsOf(Suggested(a, history)) = SuggestedIds(a)
<1> DEFINE S(type, key, target) == Suggestion(a, history, type, key, target)
           keyOf(i) == <<a.edges[i].source, a.edges[i].target, a.edges[i].field>>
           A == IF a.target = NoTarget THEN <<>>
                ELSE <<S("target_preference", <<a.target>>, a.target)>>
           B == IF a.path = <<>> THEN <<>> ELSE <<S("plan_path", a.path, Last(a.path))>>
           C == [i \in DOMAIN a.edges |-> S("data_flow_edge", keyOf(i), a.edges[i].target)]
           idsA == IF a.target = NoTarget THEN {}
                   ELSE {<<a.family, "target_preference", <<a.target>>>>}
           idsB == IF a.path = <<>> THEN {} ELSE {<<a.family, "plan_path", a.path>>}
           idsC == {<<a.family, "data_flow_edge", keyOf(i)>> : i \in DOMAIN a.edges}
<1>1. \A type, key, target :
        /\ IsSuggestion(S(type, key, target)) /\ S(type, key, target).id = <<a.family, type, key>>
        /\ S(type, key, target).status \notin Decision /\ S(type, key, target).observations <= 1
  BY SuggestionFits DEF IsAttempt
<1> HIDE DEF S
<1>2. IsFresh(A) /\ IdsOf(A) = idsA
  BY <1>1, NoneFresh, OneFresh
<1>3. IsFresh(B) /\ IdsOf(B) = idsB
  BY <1>1, NoneFresh, OneFresh
<1>4. DOMAIN a.edges = 1 .. Len(a.edges) /\ Len(a.edges) \in Nat
  BY ListDomain DEF IsAttempt
<1>5. \A i, j \in DOMAIN a.edges : keyOf(i) = keyOf(j) => i = j
  BY DEF IsAttempt, Distinct
<1> HIDE DEF keyOf
<1>6. IsFresh(C) /\ IdsOf(C) = idsC
  <2>1. PICK d : d = C
    OBVIOUS
  <2>2. DOMAIN d = DOMAIN a.edges /\ \A i \in DOMAIN a.edges :
          d[i] = S("data_flow_edge", keyOf(i), a.edges[i].target)
    BY <2>1
  <2>3. \A i \in DOMAIN a.edges :
          /\ IsSuggestion(d[i]) /\ d[i].id = <<a.family, "data_flow_edge", keyOf(i)>>
          /\ d[i].status \notin Decision /\ d[i].observations <= 1
    BY <1>1, <2>2
  <2>4. d = [i \in 1 .. Len(a.edges) |-> d[i]]
    BY <1>4, <2>1
  <2>5. IsList(d)
    BY <1>4, <2>4, ListOf
  <2>6. OwnIds(d)
    BY <1>5, <2>2, <2>3 DEF OwnIds
  <2>7. IdsOf(d) = idsC
    BY <2>2, <2>3 DEF IdsOf
  <2> QED BY <2>1, <2>2, <2>3, <2>5, <2>6, <2>7 DEF IsFresh, IsStore
<1>7. idsA \cap idsB = {} /\ (idsA \cup idsB) \cap idsC = {}
  <2>1. \A x \in idsA : x[2] = "target_preference"
    OBVIOUS
  <2>2. \A x \in idsB : x[2] = "plan_path"
    OBVIOUS
  <2>3. \A x \in idsC : x[2] = "data_flow_edge"
    OBVIOUS
  <2> HIDE DEF idsA, idsB, idsC
  <2> QED BY <2>1, <2>2, <2>3
<1>8. CASE a.success
  <2>1. Suggested(a, history) = (A \o B) \o C
    BY <1>8 DEF Suggested, S, keyOf
  <2>2. SuggestedIds(a) = (idsA \cup idsB) \cup idsC
    BY <1>8 DEF SuggestedIds, keyOf
  <2> HIDE DEF A, B, C, idsA, idsB, idsC
  <2>3. IsFresh(A \o B) /\ IdsOf(A \o B) = idsA \cup idsB
    BY <1>2, <1>3, <1>7, FreshJoined
  <2>4. IsFresh((A \o B) \o C) /\ IdsOf((A \o B) \o C) = (idsA \cup idsB) \cup idsC
    BY <1>6, <1>7, <2>3, FreshJoined
  <2> QED BY <2>1, <2>2, <2>4
<1>9. CASE ~a.success
  BY <1>9, NoneFresh DEF Suggested, SuggestedIds
<1> QED BY <1>8, <1>9

(* derive_learning_suggestions gives suggestions of what the attempt       *)
(* showed, each counted once unless stored suggestions were handed over.   *)
LEMMA LearnedFits ==
  ASSUME NEW a, IsAttempt(a), NEW history, NEW existing, IsStore(existing)
  PROVE  LET l == Learned(a, history, existing) IN
         /\ IsStore(l) /\ IdsOf(l) \subseteq SuggestedIds(a)
         /\ existing = <<>> => \A k \in DOMAIN l : l[k].observations <= 1
<1> DEFINE known == Append(history, a)
           new == Suggested(a, history)
           settled == {k \in DOMAIN existing : existing[k].status \in Decision}
<1>1. IsFresh(new) /\ IdsOf(new) = SuggestedIds(a)
  BY SuggestedFresh
<1>2. PICK word : word = [id \in {existing[k].id : k \in settled} |-> existing[Find(existing, id)].status]
  OBVIOUS
<1>3. /\ DOMAIN word \subseteq IdsOf(existing) /\ \A id \in DOMAIN word : word[id] \in Decision
      /\ \A k \in DOMAIN existing : Obeys(word, existing[k])
  <2>1. ASSUME NEW k \in DOMAIN existing PROVE Find(existing, existing[k].id) = k
    <3>1. existing[k].id \in IdsOf(existing)
      BY DEF IdsOf
    <3> QED BY <3>1, FindIn DEF IsStore, OwnIds
  <2>2. /\ DOMAIN word = {existing[k].id : k \in settled}
        /\ \A k \in settled : word[existing[k].id] = existing[k].status
    BY <1>2, <2>1
  <2>3. \A k \in DOMAIN existing : existing[k].id \in DOMAIN word => k \in settled
    BY <2>2 DEF IsStore, OwnIds
  <2> QED BY <2>2, <2>3 DEF Obeys, IdsOf
<1>4. PICK c : c = [history |-> known, store |-> existing, new |-> new, word |-> word]
  OBVIOUS
<1>5. PICK merged : merged = Merge(existing, new, known)
  OBVIOUS
<1> HIDE DEF new, known, settled
<1>6. Mergeable(c)
  BY <1>1, <1>3, <1>4 DEF Mergeable, IsFresh
<1>7. /\ IsStore(merged)
      /\ \A k \in DOMAIN merged :
           merged[k].observations <= Tally(existing, merged[k].id) + Tally(new, merged[k].id)
  <2>1. PICK m : m = Merge(c.store, c.new, c.history)
    OBVIOUS
  <2>2. m = merged
    BY <1>4, <1>5, <2>1
  <2>3. /\ IsStore(m)
        /\ \A k \in DOMAIN m :
             m[k].observations <= Tally(c.store, m[k].id) + Tally(c.new, m[k].id)
    BY <1>6, <2>1, MergeFits
  <2> QED BY <1>4, <2>2, <2>3
<1>8. ASSUME existing = <<>>, NEW k \in DOMAIN merged PROVE merged[k].observations <= 1
  <2>1. Tally(existing, merged[k].id) = 0
    BY <1>8, NoneFresh, TallyFits
  <2>2. Tally(new, merged[k].id) <= 1 /\ Tally(new, merged[k].id) \in Nat
    <3>1. CASE merged[k].id \in IdsOf(new)
      <4>1. PICK j \in DOMAIN new : new[j].id = merged[k].id
        BY <3>1 DEF IdsOf
      <4> QED BY <1>1, <4>1, TallyFits DEF IsFresh
    <3>2. CASE merged[k].id \notin IdsOf(new)
      BY <1>1, <3>2, TallyFits DEF IsFresh
    <3> QED BY <3>1, <3>2
  <2>3. merged[k].observations \in Nat
    BY <1>7 DEF IsStore, IsSuggestion
  <2> QED BY <1>7, <2>1, <2>2, <2>3
<1>9. PICK l : l = Learned(a, history, existing)
  OBVIOUS
<1>10. PICK S : S = {x \in ToSet(merged) : \E g \in ToSet(new) : g.id = x.id}
  OBVIOUS
<1>11. l = Filtered(merged, S)
  BY <1>5, <1>9, <1>10 DEF Learned, OfIds, new, known
<1>12. IsList(l) /\ ToSet(l) = ToSet(merged) \cap S /\ (Distinct(merged) => Distinct(l))
  BY <1>7, <1>11, FilteredList DEF IsStore
<1>13. ASSUME NEW k \in DOMAIN l
       PROVE  (\E j \in DOMAIN merged : l[k] = merged[j]) /\ l[k].id \in IdsOf(new)
  <2>1. l[k] \in ToSet(merged) /\ l[k] \in S
    BY <1>12 DEF ToSet
  <2>2. PICK g \in ToSet(new) : g.id = l[k].id
    BY <1>10, <2>1
  <2> QED BY <2>1, <2>2 DEF ToSet, IdsOf
<1>14. Distinct(merged)
  BY <1>7 DEF IsStore, OwnIds, Distinct
<1>15. OwnIds(l)
  <2> SUFFICES ASSUME NEW i \in DOMAIN l, NEW j \in DOMAIN l, l[i].id = l[j].id
               PROVE  i = j
    BY DEF OwnIds
  <2>1. l[i] = l[j]
    BY <1>7, <1>13 DEF IsStore, OwnIds
  <2> QED BY <1>12, <1>14, <2>1 DEF Distinct
<1>16. \A k \in DOMAIN l : IsSuggestion(l[k])
  BY <1>7, <1>13 DEF IsStore
<1>17. IsStore(l)
  BY <1>12, <1>15, <1>16 DEF IsStore
<1>18. IdsOf(l) \subseteq SuggestedIds(a)
  BY <1>1, <1>13 DEF IdsOf
<1>19. existing = <<>> => \A k \in DOMAIN l : l[k].observations <= 1
  BY <1>8, <1>13
<1> QED BY <1>9, <1>17, <1>18, <1>19
-----------------------------------------------------------------------------
(* A run shows finitely many data flows.                                   *)
LEMMA ShownFinite ==
  ASSUME NEW run \in Runs, NEW rows
  PROVE  IsFiniteSet(TraceEdgesOf(run.steps, rows))
<1> DEFINE steps == run.steps
           D == DOMAIN steps
           B(i, j) == {b \in BindingRows(steps[j]) :
                         /\ b.head = steps[i].id /\ steps[i].tool # steps[j].tool
                         /\ {b.head, steps[j].id} \subseteq CompletedIds(rows)}
           O(i, j) == {Observation(steps[i].tool, steps[j].tool, b) : b \in B(i, j)}
           F == [x \in D \X D |-> O(x[1], x[2])]
<1>1. IsFiniteSet(D)
  <2>1. D = 1 .. Len(steps) /\ Len(steps) \in Nat
    BY RunsAssumption, ListDomain
  <2>2. IsFiniteSet(1 .. Len(steps))
    BY <2>1, FS_Interval
  <2> QED BY <2>1, <2>2
<1>2. ASSUME NEW i \in D, NEW j \in D PROVE IsFiniteSet(O(i, j))
  <2>1. IsFiniteSet(steps[j].bindings)
    BY RunsAssumption
  <2>2. B(i, j) \in SUBSET steps[j].bindings
    BY DEF BindingRows
  <2>3. IsFiniteSet(B(i, j))
    <3> HIDE DEF B
    <3> QED BY <2>1, <2>2, FS_Subset
  <2>4. PICK f : f = [b \in B(i, j) |-> Observation(steps[i].tool, steps[j].tool, b)]
    OBVIOUS
  <2>5. O(i, j) = {f[b] : b \in B(i, j)}
    <3> HIDE DEF B
    <3> QED BY <2>4
  <2> HIDE DEF B, O
  <2> QED BY <2>3, <2>5, FiniteImage
<1>3. ASSUME NEW e \in TraceEdgesOf(steps, rows)
      PROVE  \E x \in D \X D : e \in F[x]
  <2>1. PICK i \in D, j \in D : e \in O(i, j)
    BY DEF TraceEdgesOf
  <2> HIDE DEF O, D
  <2>2. <<i, j>> \in D \X D /\ F[<<i, j>>] = O(i, j)
    OBVIOUS
  <2> HIDE DEF F
  <2> QED BY <2>1, <2>2
<1>4. IsFiniteSet({F[x] : x \in D \X D})
  <2>1. IsFiniteSet(D \X D)
    BY <1>1, FS_Product
  <2> HIDE DEF F, D
  <2> QED BY <2>1, FiniteImage
<1>5. \A y \in {F[x] : x \in D \X D} : IsFiniteSet(y)
  <2> HIDE DEF O, D
  <2> QED BY <1>2
<1>6. IsFiniteSet(UNION {F[x] : x \in D \X D})
  <2> HIDE DEF F, D
  <2> QED BY <1>4, <1>5, FS_UNION
<1>7. TraceEdgesOf(steps, rows) \in SUBSET UNION {F[x] : x \in D \X D}
  <2> HIDE DEF F, D
  <2> QED BY <1>3
<1> QED BY <1>6, <1>7, FS_Subset

(* The record of a run is an attempt.                                      *)
LEMMA AttemptFits ==
  ASSUME NEW run \in Runs, NEW f, Made \in Int
  PROVE  /\ IsAttempt(AttemptOf(run, f))
         /\ IsFiniteSet(AttemptOf(run, f).observed)
         /\ AttemptOf(run, f).family = run.family
         /\ AttemptOf(run, f).handing = run.handing
<1> DEFINE seen == TraceEdgesOf(run.steps, RowsOf(run.steps, f))
           rows == {EdgeRow(e) : e \in seen}
<1>1. IsFiniteSet(seen)
  BY ShownFinite
<1>2. IsFiniteSet(rows)
  <2>1. PICK g : g = [e \in seen |-> EdgeRow(e)]
    OBVIOUS
  <2>2. rows = {g[e] : e \in seen}
    <3> HIDE DEF seen
    <3> QED BY <2>1
  <2> HIDE DEF rows, seen
  <2> QED BY <1>1, <2>2, FiniteImage
<1>3. PICK l : l = SetToSeq(rows)
  OBVIOUS
<1>4. IsList(l) /\ Distinct(l) /\ ToSet(l) = rows
  <2> HIDE DEF rows
  <2> QED BY <1>2, <1>3, ListOfSet
<1>5. \A x \in rows : x = [source |-> x.source, target |-> x.target, field |-> x.field]
  <2> HIDE DEF seen
  <2> QED BY DEF EdgeRow
<1>6. \A i \in DOMAIN l : l[i] \in rows
  BY <1>4 DEF ToSet
<1>7. /\ AttemptOf(run, f).edges = l /\ AttemptOf(run, f).observed = seen
      /\ AttemptOf(run, f).at = Made + 1 /\ AttemptOf(run, f).family = run.family
      /\ AttemptOf(run, f).handing = run.handing
  BY <1>3 DEF AttemptOf
<1> HIDE DEF rows, seen
<1> QED BY <1>1, <1>4, <1>5, <1>6, <1>7 DEF IsAttempt
-----------------------------------------------------------------------------
(* What is kept of a collection's use, and what is held back, at any time. *)
ShownBy(list, id) == {i \in DOMAIN list : id \in SuggestedIds(list[i])}

IsHeld(h) ==
  /\ IsAttempt(h.attempt) /\ IsFiniteSet(h.attempt.observed)
  /\ IsStore(h.incoming) /\ IdsOf(h.incoming) \subseteq SuggestedIds(h.attempt)
  /\ h.attempt.handing \/ \A k \in DOMAIN h.incoming : h.incoming[k].observations <= 1

AttemptsKept ==
  /\ IsList(attempts) /\ \A i \in DOMAIN attempts : IsAttempt(attempts[i])
  /\ IsList(held) /\ \A k \in DOMAIN held : IsHeld(held[k])

(* The operator's decisions are those on what is stored, and are followed. *)
DecisionsStand ==
  /\ IsStore(store)
  /\ DOMAIN decided \subseteq IdsOf(store)
  /\ \A id \in DOMAIN decided : decided[id] \in Decision
  /\ \A k \in DOMAIN store : Obeys(decided, store[k])

(* No attempt that shows it was derived with the stored suggestions.       *)
Plain(list, id) == \A i \in ShownBy(list, id) : ~list[i].handing

Counted ==
  \A k \in DOMAIN store :
    Plain(attempts, store[k].id) =>
      store[k].observations <= Cardinality(ShownBy(attempts, store[k].id))

LearningInv == AttemptsKept /\ DecisionsStand /\ Counted

(* Nothing is learnt at first.                                             *)
LEMMA InitLearning == Init => LearningInv
<1> SUFFICES ASSUME Init PROVE LearningInv
  OBVIOUS
<1>1. attempts = <<>> /\ held = <<>> /\ store = <<>> /\ decided = <<>>
  BY DEF Init
<1>2. DOMAIN <<>> = {} /\ IsStore(<<>>)
  BY NoneFresh DEF IsFresh
<1> QED BY <1>1, <1>2 DEF LearningInv, AttemptsKept, DecisionsStand, Counted, IsStore

(* One attempt more counts once for what it showed.                        *)
LEMMA ShownGrows ==
  ASSUME NEW list, IsList(list), NEW a, NEW id
  PROVE  /\ Cardinality(ShownBy(list, id)) \in Nat
         /\ Cardinality(ShownBy(Append(list, a), id)) =
              Cardinality(ShownBy(list, id)) + (IF id \in SuggestedIds(a) THEN 1 ELSE 0)
         /\ Plain(Append(list, a), id) =>
              Plain(list, id) /\ (id \in SuggestedIds(a) => ~a.handing)
<1> DEFINE n == Len(list)
           S == ShownBy(list, id)
<1>1. n \in Nat /\ DOMAIN list = 1 .. n
  BY ListDomain
<1>2. IsFiniteSet(1 .. n)
  BY <1>1, FS_Interval
<1>3. S \in SUBSET (1 .. n)
  BY <1>1 DEF ShownBy
<1>4. IsFiniteSet(S)
  BY <1>2, <1>3, FS_Subset
<1>5. Cardinality(S) \in Nat
  BY <1>4, FS_CardinalityType
<1>6. PICK new : new = Append(list, a)
  OBVIOUS
<1>7. DOMAIN new = 1 .. n + 1 /\ (\A i \in 1 .. n : new[i] = list[i]) /\ new[n + 1] = a
  BY <1>6, ListAppended
<1>8. 1 .. n + 1 = (1 .. n) \cup {n + 1} /\ n + 1 \notin 1 .. n
  BY <1>1
<1>9. ShownBy(new, id) = IF id \in SuggestedIds(a) THEN S \cup {n + 1} ELSE S
  BY <1>1, <1>7, <1>8 DEF ShownBy
<1>10. n + 1 \notin S
  BY <1>3, <1>8
<1>11. Cardinality(S \cup {n + 1}) = Cardinality(S) + 1
  <2> HIDE DEF S
  <2> QED BY <1>4, <1>10, FS_AddElement
<1>12. Plain(new, id) => Plain(list, id) /\ (id \in SuggestedIds(a) => ~a.handing)
  BY <1>1, <1>3, <1>7, <1>8, <1>9 DEF Plain
<1> HIDE DEF S
<1> QED BY <1>5, <1>6, <1>9, <1>11, <1>12 DEF S

(* A request ends.                                                         *)
LEMMA RunLearns == LearningInv /\ Run => LearningInv'
<1> SUFFICES ASSUME LearningInv, Run PROVE LearningInv'
  OBVIOUS
<1>1. PICK run \in Runs, f \in 0 .. 2 :
        held' = Append(held, [attempt |-> AttemptOf(run, f),
                              incoming |-> Learned(AttemptOf(run, f), attempts,
                                                   IF run.handing THEN store ELSE <<>>)])
  BY DEF Run
<1>2. UNCHANGED <<attempts, store, decided>>
  BY DEF Run
<1>3. Made \in Int
  BY ListDomain DEF LearningInv, AttemptsKept, Made
<1>4. PICK a : a = AttemptOf(run, f)
  OBVIOUS
<1>5. PICK existing : existing = IF run.handing THEN store ELSE <<>>
  OBVIOUS
<1>6. PICK h : h = [attempt |-> a, incoming |-> Learned(a, attempts, existing)]
  OBVIOUS
<1>a. IsHeld(h)
  <2>1. IsStore(existing)
    BY <1>5, NoneFresh DEF LearningInv, DecisionsStand, IsFresh
  <2>2. IsAttempt(a) /\ IsFiniteSet(a.observed) /\ a.handing = run.handing
    BY <1>3, <1>4, AttemptFits
  <2>3. h.attempt.handing \/ existing = <<>>
    BY <1>5, <1>6, <2>2
  <2>4. PICK l : l = Learned(a, attempts, existing)
    OBVIOUS
  <2>5. /\ IsStore(l) /\ IdsOf(l) \subseteq SuggestedIds(a)
        /\ existing = <<>> => \A k \in DOMAIN l : l[k].observations <= 1
    BY <2>1, <2>2, <2>4, LearnedFits
  <2> QED BY <1>6, <2>2, <2>3, <2>4, <2>5 DEF IsHeld
<1>7. /\ held' = Append(held, h) /\ IsList(held) /\ Len(held) \in Nat /\ DOMAIN held = 1 .. Len(held)
  BY <1>1, <1>4, <1>5, <1>6, ListDomain DEF LearningInv, AttemptsKept
<1>8. /\ IsList(held') /\ DOMAIN held' = (DOMAIN held) \cup {Len(held) + 1}
      /\ \A k \in DOMAIN held : held'[k] = held[k]
      /\ held'[Len(held) + 1] = h
  BY <1>7, ListAppended
<1>9. AttemptsKept'
  BY <1>2, <1>a, <1>8 DEF LearningInv, AttemptsKept
<1>10. DecisionsStand' /\ Counted'
  BY <1>2 DEF LearningInv, DecisionsStand, Counted, Plain, ShownBy
<1> QED BY <1>9, <1>10 DEF LearningInv

(* What a request left is stored.                                          *)
LEMMA KeepLearns == LearningInv /\ Keep => LearningInv'
<1> SUFFICES ASSUME LearningInv, Keep PROVE LearningInv'
  OBVIOUS
<1>1. PICK n \in DOMAIN held : KeepAll(held[n]) /\ held' = RemoveAt(held, n)
  BY DEF Keep
<1> DEFINE h == held[n]
           new == h.incoming
           known == Append(attempts, h.attempt)
<1>2. IsHeld(h) /\ IsStore(store)
  BY DEF LearningInv, AttemptsKept, DecisionsStand
<1>3. PICK merged : merged = Merge(store, new, known)
  OBVIOUS
<1>4. /\ attempts' = known /\ store' = merged
      /\ decided' = [id \in {id \in DOMAIN decided : Find(merged, id) # 0} |-> decided[id]]
  BY <1>1, <1>3 DEF KeepAll
<1>5. PICK c : c = [history |-> known, store |-> store, new |-> new, word |-> decided]
  OBVIOUS
<1> HIDE DEF h, new, known
<1>6. Mergeable(c)
  <2>1. IsStore(c.store) /\ IsStore(c.new)
    BY <1>2, <1>5 DEF IsHeld, new
  <2> QED BY <1>5, <2>1 DEF Mergeable, LearningInv, DecisionsStand
<1>7. /\ IsStore(merged)
      /\ \A k \in DOMAIN merged :
           /\ Obeys(decided, merged[k])
           /\ merged[k].observations <= Tally(store, merged[k].id) + Tally(new, merged[k].id)
  <2>1. PICK m : m = Merge(c.store, c.new, c.history)
    OBVIOUS
  <2>2. m = merged
    BY <1>3, <1>5, <2>1
  <2>3. /\ IsStore(m)
        /\ \A k \in DOMAIN m :
             /\ Obeys(c.word, m[k])
             /\ m[k].observations <= Tally(c.store, m[k].id) + Tally(c.new, m[k].id)
    BY <1>6, <2>1, MergeFits
  <2> QED BY <1>5, <2>2, <2>3
<1>8. AttemptsKept'
  <2>1. IsList(attempts') /\ \A i \in DOMAIN attempts' : IsAttempt(attempts'[i])
    <3>1. /\ IsList(known) /\ DOMAIN known = (DOMAIN attempts) \cup {Len(attempts) + 1}
          /\ \A i \in DOMAIN attempts : known[i] = attempts[i]
          /\ known[Len(attempts) + 1] = h.attempt
      BY ListDomain, ListAppended DEF LearningInv, AttemptsKept, known
    <3> QED BY <1>2, <1>4, <3>1 DEF LearningInv, AttemptsKept, IsHeld
  <2>2. IsList(held') /\ \A k \in DOMAIN held' : IsHeld(held'[k])
    <3>1. Len(held) \in Nat /\ DOMAIN held = 1 .. Len(held) /\ held \in Seq(ToSet(held))
      BY ListDomain DEF LearningInv, AttemptsKept, IsList
    <3>2. held' = SubSeq(held, 1, n - 1) \o SubSeq(held, n + 1, Len(held))
      BY <1>1 DEF RemoveAt
    <3>3. /\ held' \in Seq(ToSet(held))
      BY <3>1, <3>2
    <3>4. \A k \in DOMAIN held' : held'[k] \in ToSet(held)
      BY <3>3
    <3>5. \A x \in ToSet(held) : IsHeld(x)
      BY DEF ToSet, LearningInv, AttemptsKept
    <3> QED BY <3>3, <3>4, <3>5, ListFrom
  <2> QED BY <2>1, <2>2 DEF AttemptsKept
<1>9. DecisionsStand'
  <2>1. DOMAIN merged = 1 .. Len(merged) /\ Len(merged) \in Nat
    BY <1>7, ListDomain DEF IsStore
  <2>2. \A id : Find(merged, id) # 0 => id \in IdsOf(merged)
    BY <1>7, FindIn
  <2>3. \A k \in DOMAIN merged : Find(merged, merged[k].id) # 0
    <3>1. \A k \in DOMAIN merged : merged[k].id \in IdsOf(merged)
      BY DEF IdsOf
    <3>2. 0 \notin DOMAIN merged
      BY <2>1
    <3> QED BY <1>7, <3>1, <3>2, FindIn
  <2>4. /\ DOMAIN decided' \subseteq IdsOf(merged) \cap DOMAIN decided
        /\ \A id \in DOMAIN decided' : decided'[id] = decided[id]
    BY <1>4, <2>2
  <2>5. \A k \in DOMAIN merged : merged[k].id \in DOMAIN decided => merged[k].id \in DOMAIN decided'
    BY <1>4, <2>3
  <2>6. \A k \in DOMAIN merged : Obeys(decided', merged[k])
    BY <1>7, <2>4, <2>5 DEF Obeys
  <2> QED BY <1>4, <1>7, <2>4, <2>6 DEF DecisionsStand, LearningInv
<1>10. Counted'
  <2> SUFFICES ASSUME NEW k \in DOMAIN merged, Plain(known, merged[k].id)
               PROVE  merged[k].observations <= Cardinality(ShownBy(known, merged[k].id))
    BY <1>4 DEF Counted
  <2> DEFINE id == merged[k].id
             shown == Cardinality(ShownBy(attempts, id))
  <2>1. /\ shown \in Nat
        /\ Cardinality(ShownBy(known, id)) = shown + (IF id \in SuggestedIds(h.attempt) THEN 1 ELSE 0)
        /\ Plain(attempts, id) /\ (id \in SuggestedIds(h.attempt) => ~h.attempt.handing)
    BY ShownGrows DEF LearningInv, AttemptsKept, known
  <2>2. Tally(store, id) <= shown /\ Tally(store, id) \in Nat
    <3>1. CASE id \in IdsOf(store)
      <4>1. PICK j \in DOMAIN store : store[j].id = id
        BY <3>1 DEF IdsOf
      <4> HIDE DEF id, shown
      <4> QED BY <1>2, <2>1, <4>1, TallyFits DEF LearningInv, Counted, shown
    <3>2. CASE id \notin IdsOf(store)
      <4> HIDE DEF id, shown
      <4> QED BY <1>2, <2>1, <3>2, TallyFits
    <3> QED BY <3>1, <3>2
  <2>3. /\ Tally(new, id) <= (IF id \in SuggestedIds(h.attempt) THEN 1 ELSE 0)
        /\ Tally(new, id) \in Nat
    <3>1. CASE id \in IdsOf(new)
      <4>1. PICK j \in DOMAIN new : new[j].id = id
        BY <3>1 DEF IdsOf
      <4>2. id \in SuggestedIds(h.attempt) /\ ~h.attempt.handing
        BY <1>2, <2>1, <3>1 DEF IsHeld, new
      <4>3. new[j].observations <= 1 /\ IsStore(new)
        BY <1>2, <4>2 DEF IsHeld, new
      <4> HIDE DEF id, shown
      <4> QED BY <4>1, <4>2, <4>3, TallyFits
    <3>2. CASE id \notin IdsOf(new)
      <4>1. IsStore(new)
        BY <1>2 DEF IsHeld, new
      <4> HIDE DEF id, shown
      <4> QED BY <3>2, <4>1, TallyFits
    <3> QED BY <3>1, <3>2
  <2>4. merged[k].observations \in Nat /\ merged[k].observations <= Tally(store, id) + Tally(new, id)
    BY <1>7 DEF IsStore, IsSuggestion
  <2> HIDE DEF id, shown
  <2>5. merged[k].observations <= Cardinality(ShownBy(known, id))
    BY <2>1, <2>2, <2>3, <2>4
  <2> QED BY <2>5 DEF id
<1> QED BY <1>8, <1>9, <1>10 DEF LearningInv

(* The operator decides on a suggestion.                                   *)
LEMMA DecideLearns == LearningInv /\ Decide => LearningInv'
<1> SUFFICES ASSUME LearningInv, Decide PROVE LearningInv'
  OBVIOUS
<1>1. PICK n \in DOMAIN store, word \in Decision :
        /\ store' = [store EXCEPT ![n].status = word]
        /\ decided' = Updated(decided, store[n].id, word)
  BY DEF Decide, Decision
<1>2. UNCHANGED <<attempts, held>>
  BY DEF Decide
<1>3. /\ IsList(store) /\ OwnIds(store) /\ \A k \in DOMAIN store : IsSuggestion(store[k])
      /\ DOMAIN store = 1 .. Len(store) /\ Len(store) \in Nat
  BY ListDomain DEF LearningInv, DecisionsStand, IsStore
<1>4. PICK s : s = [store[n] EXCEPT !.status = word]
  OBVIOUS
<1>5. IsSuggestion(s) /\ s.id = store[n].id /\ s.status = word /\ s.observations = store[n].observations
  BY <1>3, <1>4 DEF IsSuggestion
<1>6. DOMAIN store' = DOMAIN store /\ store'[n] = s /\ \A k \in DOMAIN store : k # n => store'[k] = store[k]
  BY <1>1, <1>4
<1>7. \A k \in DOMAIN store :
        /\ IsSuggestion(store'[k]) /\ store'[k].id = store[k].id
        /\ store'[k].observations = store[k].observations
  BY <1>3, <1>5, <1>6
<1>8. IsStore(store')
  <2>1. store' = [k \in 1 .. Len(store) |-> store'[k]]
    BY <1>1, <1>3
  <2>2. IsList(store')
    BY <1>3, <2>1, ListOf
  <2>3. OwnIds(store')
    BY <1>3, <1>6, <1>7 DEF OwnIds
  <2> QED BY <1>6, <1>7, <2>2, <2>3 DEF IsStore
<1>9. IdsOf(store') = IdsOf(store)
  BY <1>6, <1>7 DEF IdsOf
<1>10. /\ DOMAIN decided' = DOMAIN decided \cup {store[n].id}
       /\ decided'[store[n].id] = word
       /\ \A id \in DOMAIN decided : id # store[n].id => decided'[id] = decided[id]
  BY <1>1 DEF Updated
<1>11. \A id \in DOMAIN decided' : id \in IdsOf(store) /\ decided'[id] \in Decision
  BY <1>10 DEF LearningInv, DecisionsStand, IdsOf
<1>12. ASSUME NEW k \in DOMAIN store PROVE Obeys(decided', store'[k])
  <2>1. CASE k = n
    BY <1>5, <1>6, <1>10, <2>1 DEF Obeys
  <2>2. CASE k # n
    <3>1. store[k].id # store[n].id /\ store'[k] = store[k]
      BY <1>3, <1>6, <2>2 DEF OwnIds
    <3> QED BY <1>10, <3>1 DEF LearningInv, DecisionsStand, Obeys
  <2> QED BY <2>1, <2>2
<1>13. DecisionsStand'
  BY <1>6, <1>8, <1>9, <1>11, <1>12 DEF DecisionsStand
<1>14. AttemptsKept' /\ Counted'
  BY <1>2, <1>6, <1>7 DEF LearningInv, AttemptsKept, Counted, Plain, ShownBy
<1> QED BY <1>13, <1>14 DEF LearningInv

(* Every step keeps the invariant of what is learnt.                       *)
LEMMA NextLearning == LearningInv /\ [Next]_vars => LearningInv'
<1> SUFFICES ASSUME LearningInv, [Next]_vars PROVE LearningInv'
  OBVIOUS
<1>1. ASSUME UNCHANGED <<attempts, store, held, decided>> PROVE LearningInv'
  BY <1>1 DEF LearningInv, AttemptsKept, DecisionsStand, Counted, Plain, ShownBy
<1>2. CASE Build
  BY <1>1, <1>2 DEF Build, learningVars
<1>3. CASE Trace
  BY <1>1, <1>3 DEF Trace, learningVars
<1>4. CASE Run
  BY <1>4, RunLearns
<1>5. CASE Keep
  BY <1>5, KeepLearns
<1>6. CASE Decide
  BY <1>6, DecideLearns
<1>7. CASE DeleteEdge
  BY <1>1, <1>7 DEF DeleteEdge
<1>8. CASE UNCHANGED vars
  BY <1>1, <1>8 DEF vars, learningVars
<1> QED BY <1>2, <1>3, <1>4, <1>5, <1>6, <1>7, <1>8 DEF Next

(* What is learnt is learnt right at any time.                             *)
THEOREM LearningIsSound == Spec => []LearningInv
<1> QED BY InitLearning, NextLearning, PTL DEF Spec

(* An attempt shows exactly what it suggests, whatever happened before.    *)
LEMMA ShowsById ==
  ASSUME NEW a, IsAttempt(a), NEW id
  PROVE  Shows(a, id) <=> id \in SuggestedIds(a)
<1>1. PICK l : l = Suggested(a, <<>>)
  OBVIOUS
<1>2. IdsOf(l) = SuggestedIds(a)
  BY <1>1, SuggestedFresh
<1>3. Shows(a, id) <=> \E i \in DOMAIN l : l[i].id = id
  BY <1>1 DEF Shows
<1> QED BY <1>2, <1>3 DEF IdsOf

(* merge_learning_suggestions counts no observation twice, in whatever     *)
(* order what was derived is held back and merged, of a suggestion shown   *)
(* only by attempts whose derivation was not handed the stored suggestions:*)
(* it has no more observations than successful attempts on record showed   *)
(* it.  (The flow that hands them over counts them again, see              *)
(* CountsAreAlwaysEarned.)                                                 *)
THEOREM CountsAlwaysEarned == Spec => []CountsAreEarned
<1>1. LearningInv => CountsAreEarned
  <2> SUFFICES ASSUME LearningInv, NEW k \in DOMAIN store,
                      \A i \in Showing(store[k].id) : ~attempts[i].handing
               PROVE  Earned(store[k])
    BY DEF CountsAreEarned
  <2>1. \A i \in DOMAIN attempts :
          Shows(attempts[i], store[k].id) <=> store[k].id \in SuggestedIds(attempts[i])
    BY ShowsById DEF LearningInv, AttemptsKept
  <2>2. Showing(store[k].id) = ShownBy(attempts, store[k].id)
    BY <2>1 DEF ShownBy, Showing
  <2> QED BY <2>2 DEF LearningInv, Counted, Plain, Earned
<1> QED BY <1>1, LearningIsSound, PTL

(* The decisions of the operator are followed by the statuses, and by what *)
(* reranks.                                                                *)
LEMMA OperatorIsHeard == LearningInv => OperatorDecides
<1> SUFFICES ASSUME LearningInv PROVE OperatorDecides
  OBVIOUS
<1>1. \A k \in DOMAIN store : Obeys(decided, store[k])
  BY DEF LearningInv, DecisionsStand
<1>2. \A k \in DOMAIN store : store[k].id \in DOMAIN decided => store[k].status = decided[store[k].id]
  BY <1>1 DEF Obeys
<1>3. ASSUME NEW family, NEW t \in DOMAIN Signals(family, store, "promoted")
      PROVE  \E k \in DOMAIN store :
               /\ store[k].id \in DOMAIN decided /\ decided[store[k].id] = "promoted"
               /\ store[k].target = t
  <2> DEFINE used == {s \in ToSet(store) : s.status \in Accepted("promoted") /\ s.family = family
                                            /\ s.target # NoTarget}
  <2>1. DOMAIN Signals(family, store, "promoted") = {s.target : s \in used}
    BY DEF Signals
  <2>2. PICK s \in used : s.target = t
    <3> HIDE DEF used
    <3> QED BY <2>1
  <2>3. PICK k \in DOMAIN store : store[k] = s
    BY DEF ToSet
  <2>4. s.status = "promoted"
    BY DEF Accepted
  <2> QED BY <1>1, <2>2, <2>3, <2>4 DEF Obeys, Decision
<1> QED BY <1>2, <1>3 DEF OperatorDecides
-----------------------------------------------------------------------------
(* Edges of tools, and graphs of them.                                     *)
EdgeFields ==
  {"source", "target", "relation", "kind", "explicit", "sources", "conf", "strength",
   "layer", "flow", "manual", "deleted"}

IsEdge(e) ==
  /\ DOMAIN e = EdgeFields /\ e.source # e.target
  /\ IsFiniteSet(e.sources) /\ e.conf \in Int /\ e.flow.count \in Int /\ e.deleted \in BOOLEAN

IsGraph(g) == \A p \in DOMAIN g : IsEdge(g[p]) /\ p = PairOf(g[p])

(* add_relation makes an edge.                                             *)
LEMMA RawEdgeFits ==
  ASSUME NEW source, NEW target, source # target, NEW relation, NEW strength,
         NEW conf \in Int, NEW layer
  PROVE  LET e == RawEdge(source, target, relation, strength, conf, layer) IN
         IsEdge(e) /\ e.source = source /\ e.target = target
<1>1. IsFiniteSet({})
  BY FS_EmptySet
<1>2. PICK flow : flow = NoFlow
  OBVIOUS
<1>3. flow.count = 0
  BY <1>2, Zenon DEF NoFlow
<1>4. PICK e : e = RawEdge(source, target, relation, strength, conf, layer)
  OBVIOUS
<1>5. e = [source |-> source, target |-> target, relation |-> relation, kind |-> "",
           explicit |-> "", sources |-> {}, conf |-> conf, strength |-> strength, layer |-> layer,
           flow |-> flow, manual |-> FALSE, deleted |-> FALSE]
  BY <1>2, <1>4 DEF RawEdge
<1>6. /\ DOMAIN e = EdgeFields /\ e.source = source /\ e.target = target /\ e.sources = {}
      /\ e.conf = conf /\ e.flow = flow /\ e.deleted = FALSE
  BY <1>5 DEF EdgeFields
<1>7. e.flow.count \in Int
  <2>1. 0 \in Int
    OBVIOUS
  <2> QED BY <1>3, <1>6, <2>1, Zenon
<1>8. IsEdge(e)
  BY <1>1, <1>6, <1>7 DEF IsEdge
<1> QED BY <1>4, <1>6, <1>8

(* Putting an edge in its place.                                           *)
LEMMA PutFits ==
  ASSUME NEW g, IsGraph(g), NEW e, IsEdge(e)
  PROVE  /\ IsGraph(PutEdge(g, e))
         /\ DOMAIN PutEdge(g, e) = DOMAIN g \cup {PairOf(e)}
         /\ PutEdge(g, e)[PairOf(e)] = e
         /\ \A p \in DOMAIN g : p # PairOf(e) => PutEdge(g, e)[p] = g[p]
BY DEF IsGraph, PutEdge, Updated, PairOf

(* What a merge keeps of the edge there was.                               *)
LEMMA NormalizedFits ==
  ASSUME NEW e, IsEdge(e), NEW layer, NEW default
  PROVE  LET n == Normalized(e, layer, default) IN
         /\ IsEdge(n) /\ PairOf(n) = PairOf(e)
         /\ n.explicit = e.explicit /\ n.deleted = e.deleted
<1>1. PICK s : s = IF layer = 2 THEN "name_based" ELSE default
  OBVIOUS
<1>2. IsFiniteSet({s})
  BY FS_Singleton
<1> QED BY <1>1, <1>2 DEF Normalized, IsEdge, EdgeFields, PairOf

(* Two edges of one pair are merged into an edge of that pair.             *)
LEMMA MergedEdgeFits ==
  ASSUME NEW x, IsEdge(x), NEW y, IsEdge(y)
  PROVE  LET m == MergedEdge(x, y) IN
         /\ IsEdge(m) /\ PairOf(m) = PairOf(x)
         /\ m.explicit = x.explicit /\ (x.deleted => m.deleted)
<1>1. PICK srcs : srcs = x.sources \cup y.sources
  OBVIOUS
<1>2. IsFiniteSet(srcs)
  BY <1>1, FS_Union DEF IsEdge
<1>3. PICK conf : conf = MergedScore(x.conf, y.conf, Cardinality(srcs))
  OBVIOUS
<1>4. conf \in Int
  <2>1. Cardinality(srcs) \in Nat
    BY <1>2, FS_CardinalityType
  <2> QED BY <1>3, <2>1 DEF MergedScore, Greater, Least, IsEdge
<1>5. PICK flow : flow = MergedFlow(x.flow, y.flow)
  OBVIOUS
<1>6. flow.count \in Int
  BY <1>5 DEF MergedFlow, IsEdge
<1>7. PICK deleted : deleted = MergedMarks(x, y).deleted
  OBVIOUS
<1>8. deleted = (x.deleted \/ y.deleted)
  BY <1>7 DEF MergedMarks
<1>9. PICK relation, kind, strength, manual :
        MergedEdge(x, y) =
          [x EXCEPT !.strength = strength, !.sources = srcs, !.conf = conf, !.flow = flow,
                    !.kind = kind, !.relation = relation, !.manual = manual, !.deleted = deleted]
  BY <1>1, <1>3, <1>5, <1>7 DEF MergedEdge
<1>10. PICK m : m = MergedEdge(x, y)
  OBVIOUS
<1>11. DOMAIN x = EdgeFields
  BY DEF IsEdge
<1>12. /\ DOMAIN m = EdgeFields /\ m.source = x.source /\ m.target = x.target
       /\ m.explicit = x.explicit /\ m.sources = srcs /\ m.conf = conf /\ m.flow = flow
       /\ m.deleted = deleted
  BY <1>9, <1>10, <1>11 DEF EdgeFields
<1> QED BY <1>2, <1>4, <1>6, <1>8, <1>10, <1>12 DEF IsEdge, PairOf

(* Merging an edge into a graph: no edge is lost, and of the one that was  *)
(* there its direction and its deletion are kept.                          *)
LEMMA MergeEdgeFits ==
  ASSUME NEW g, IsGraph(g), NEW e, IsEdge(e)
  PROVE  LET h == MergeEdge(g, e) IN
         /\ IsGraph(h) /\ DOMAIN h = DOMAIN g \cup {PairOf(e)}
         /\ \A p \in DOMAIN g : h[p].explicit = g[p].explicit /\ (g[p].deleted => h[p].deleted)
<1>1. PICK h : h = MergeEdge(g, e)
  OBVIOUS
<1>2. CASE PairOf(e) \notin DOMAIN g
  <2>1. h = PutEdge(g, e)
    BY <1>1, <1>2 DEF MergeEdge, PairOf
  <2> QED BY <1>1, <1>2, <2>1, PutFits
<1>3. CASE PairOf(e) \in DOMAIN g
  <2>1. PICK old : old = g[PairOf(e)]
    OBVIOUS
  <2>2. IsEdge(old) /\ PairOf(old) = PairOf(e)
    BY <1>3, <2>1 DEF IsGraph
  <2>3. PICK n : n = Normalized(old, old.layer, "structural")
    OBVIOUS
  <2>4. IsEdge(n) /\ PairOf(n) = PairOf(e) /\ n.explicit = old.explicit /\ n.deleted = old.deleted
    BY <2>2, <2>3, NormalizedFits
  <2>5. PICK m : m = MergedEdge(n, e)
    OBVIOUS
  <2>6. IsEdge(m) /\ PairOf(m) = PairOf(e) /\ m.explicit = old.explicit /\ (old.deleted => m.deleted)
    BY <2>4, <2>5, MergedEdgeFits
  <2>7. h = PutEdge(g, m)
    BY <1>1, <1>3, <2>1, <2>3, <2>5 DEF MergeEdge, PairOf
  <2> QED BY <1>1, <2>1, <2>6, <2>7, PutFits
<1> QED BY <1>2, <1>3

(* Writing a field of an edge that is neither its ends nor its numbers.    *)
LEMMA RelationFits ==
  ASSUME NEW g, IsGraph(g), NEW p \in DOMAIN g, NEW relation
  PROVE  IsGraph([g EXCEPT ![p].relation = relation])
<1>1. PICK h : h = [g EXCEPT ![p].relation = relation]
  OBVIOUS
<1>2. PICK e : e = [g[p] EXCEPT !.relation = relation]
  OBVIOUS
<1>3. IsEdge(e) /\ PairOf(e) = PairOf(g[p])
  BY <1>2 DEF IsGraph, IsEdge, EdgeFields, PairOf
<1>4. DOMAIN h = DOMAIN g /\ h[p] = e /\ \A q \in DOMAIN g : q # p => h[q] = g[q]
  BY <1>1, <1>2
<1> QED BY <1>1, <1>3, <1>4 DEF IsGraph

(* A workflow states the direction of an edge that is there.               *)
LEMMA DirectionFits ==
  ASSUME NEW g, IsGraph(g), NEW p \in DOMAIN g
  PROVE  LET h == [g EXCEPT ![p].explicit = "forward"] IN
         /\ IsGraph(h) /\ DOMAIN h = DOMAIN g /\ h[p].explicit = "forward"
         /\ \A q \in DOMAIN g : q # p => h[q] = g[q]
         /\ h[p].flow = g[p].flow /\ h[p].sources = g[p].sources
<1>1. PICK h : h = [g EXCEPT ![p].explicit = "forward"]
  OBVIOUS
<1>2. PICK e : e = [g[p] EXCEPT !.explicit = "forward"]
  OBVIOUS
<1>3. /\ IsEdge(e) /\ PairOf(e) = PairOf(g[p]) /\ e.explicit = "forward"
      /\ e.flow = g[p].flow /\ e.sources = g[p].sources
  BY <1>2 DEF IsGraph, IsEdge, EdgeFields, PairOf
<1>4. DOMAIN h = DOMAIN g /\ h[p] = e /\ \A q \in DOMAIN g : q # p => h[q] = g[q]
  BY <1>1, <1>2
<1> QED BY <1>1, <1>3, <1>4 DEF IsGraph

(* A deletion marks the edge and leaves directions as they are.            *)
LEMMA DeletionFits ==
  ASSUME NEW g, IsGraph(g), NEW p \in DOMAIN g
  PROVE  LET h == [g EXCEPT ![p].deleted = TRUE] IN
         /\ IsGraph(h) /\ DOMAIN h = DOMAIN g /\ h[p].deleted
         /\ \A q \in DOMAIN g : h[q].explicit = g[q].explicit
         /\ \A q \in DOMAIN g : h[q].flow = g[q].flow /\ h[q].sources = g[q].sources
<1>1. PICK h : h = [g EXCEPT ![p].deleted = TRUE]
  OBVIOUS
<1>2. PICK e : e = [g[p] EXCEPT !.deleted = TRUE]
  OBVIOUS
<1>3. /\ IsEdge(e) /\ PairOf(e) = PairOf(g[p]) /\ e.explicit = g[p].explicit /\ e.deleted
      /\ e.flow = g[p].flow /\ e.sources = g[p].sources
  BY <1>2 DEF IsGraph, IsEdge, EdgeFields, PairOf
<1>4. DOMAIN h = DOMAIN g /\ h[p] = e /\ \A q \in DOMAIN g : q # p => h[q] = g[q]
  BY <1>1, <1>2
<1> QED BY <1>1, <1>3, <1>4 DEF IsGraph
-----------------------------------------------------------------------------
(* What the edges state, with what is written (w) growing meanwhile.       *)
Grounds(w, p, e) ==
  /\ e.flow.link => "openapi_link" \in e.sources
  /\ FlowIsStated(w, p, e) /\ LinkNeverGuesses(w, p, e)

Grounded(w, g) == \A p \in DOMAIN g : Grounds(w, p, g[p])

(* A graph of edges that are grounded.                                     *)
Sound(w, g) == IsGraph(g) /\ Grounded(w, g)

(* Two flows of which none is a link's: one that states a path and a field *)
(* replaces both, one that states nothing replaces none.                   *)
LEMMA FlowsMerge ==
  ASSUME NEW x, NEW y
  PROVE  LET m == MergedFlow(x, y) IN
         /\ m.link => x.link \/ y.link
         /\ ~x.link /\ y.from # Absent /\ y.field # Absent => m.from = y.from /\ m.field = y.field
         /\ ~x.link /\ y.from = Absent /\ y.field = Absent => m.from = x.from /\ m.field = x.field
<1>1. PICK m : m = MergedFlow(x, y)
  OBVIOUS
<1>2. NoFlow.from = Absent /\ NoFlow.field = Absent
  BY DEF NoFlow
<1>3. CASE x = NoFlow
  BY <1>1, <1>2, <1>3 DEF MergedFlow
<1>4. CASE x # NoFlow /\ y = NoFlow
  BY <1>1, <1>2, <1>4 DEF MergedFlow
<1>5. CASE x # NoFlow /\ y # NoFlow
  <2>1. PICK keep : keep = (x.link /\ ~y.link)
    OBVIOUS
  <2>2. PICK count, from, field, link :
          /\ from = (IF y.from = Absent \/ (keep /\ x.from # Absent) THEN x.from ELSE y.from)
          /\ field = (IF y.field = Absent THEN x.field ELSE y.field)
          /\ link = (x.link \/ y.link)
          /\ m = [count |-> count, from |-> from, field |-> field, link |-> link, stated |-> TRUE]
    BY <1>1, <1>5, <2>1 DEF MergedFlow
  <2>3. m.from = from /\ m.field = field /\ m.link = link
    BY <2>2
  <2> QED BY <1>1, <2>1, <2>2, <2>3
<1> QED BY <1>3, <1>4, <1>5

(* Two edges of the same tools that are grounded are merged into one that  *)
(* is.                                                                     *)
LEMMA MergedGrounds ==
  ASSUME NEW w, NEW p, NEW x, IsEdge(x), Grounds(w, p, x), NEW y, IsEdge(y), Grounds(w, p, y)
  PROVE  Grounds(w, p, MergedEdge(x, y))
<1>1. PICK srcs : srcs = x.sources \cup y.sources
  OBVIOUS
<1>2. PICK flow : flow = MergedFlow(x.flow, y.flow)
  OBVIOUS
<1>3. PICK relation, kind, strength, conf, manual, deleted :
        MergedEdge(x, y) =
          [x EXCEPT !.strength = strength, !.sources = srcs, !.conf = conf, !.flow = flow,
                    !.kind = kind, !.relation = relation, !.manual = manual, !.deleted = deleted]
  BY <1>1, <1>2 DEF MergedEdge
<1>4. PICK m : m = MergedEdge(x, y)
  OBVIOUS
<1>5. DOMAIN x = EdgeFields
  BY DEF IsEdge
<1>6. m.sources = srcs /\ m.flow = flow
  BY <1>3, <1>4, <1>5 DEF EdgeFields
<1>7. flow.link => "openapi_link" \in srcs
  BY <1>1, <1>2, FlowsMerge DEF Grounds
<1>8. LinkNeverGuesses(w, p, m)
  BY <1>1, <1>6 DEF Grounds, LinkNeverGuesses
<1>9. ASSUME "openapi_link" \notin srcs, \A f \in Stated(w, p) : f[1] # Absent /\ f[2] # Absent
      PROVE  \/ FlowOf(m) \in Stated(w, p)
             \/ FlowOf(m) = <<Absent, Absent>> /\ m.sources \cap {"api_contract", "run"} = {}
  <2>1. ~x.flow.link /\ ~y.flow.link
    BY <1>1, <1>9 DEF Grounds
  <2>2. /\ \/ FlowOf(x) \in Stated(w, p)
           \/ FlowOf(x) = <<Absent, Absent>> /\ x.sources \cap {"api_contract", "run"} = {}
        /\ \/ FlowOf(y) \in Stated(w, p)
           \/ FlowOf(y) = <<Absent, Absent>> /\ y.sources \cap {"api_contract", "run"} = {}
    BY <1>1, <1>9 DEF Grounds, FlowIsStated
  <2>3. CASE FlowOf(y) \in Stated(w, p)
    <3>1. y.flow.from # Absent /\ y.flow.field # Absent
      BY <1>9, <2>3 DEF FlowOf
    <3>2. flow.from = y.flow.from /\ flow.field = y.flow.field
      BY <1>2, <2>1, <3>1, FlowsMerge
    <3> QED BY <1>6, <2>3, <3>2 DEF FlowOf
  <2>4. CASE FlowOf(y) = <<Absent, Absent>> /\ y.sources \cap {"api_contract", "run"} = {}
    <3>1. y.flow.from = Absent /\ y.flow.field = Absent
      BY <2>4 DEF FlowOf
    <3>2. flow.from = x.flow.from /\ flow.field = x.flow.field
      BY <1>2, <2>1, <3>1, FlowsMerge
    <3>3. FlowOf(m) = FlowOf(x)
      BY <1>6, <3>2 DEF FlowOf
    <3> QED BY <1>1, <1>6, <2>2, <2>4, <3>3
  <2> QED BY <2>2, <2>3, <2>4
<1>10. FlowIsStated(w, p, m)
  BY <1>6, <1>9 DEF FlowIsStated
<1> QED BY <1>4, <1>6, <1>7, <1>8, <1>10 DEF Grounds

(* A raw edge states nothing, and gets a source that states nothing.       *)
LEMMA RawGrounds ==
  ASSUME NEW source, NEW target, NEW relation, NEW strength, NEW conf, NEW layer, NEW w, NEW p
  PROVE  Grounds(w, p, RawEdge(source, target, relation, strength, conf, layer))
<1>1. PICK flow : flow = NoFlow
  OBVIOUS
<1>2. flow.link = FALSE /\ flow.from = Absent /\ flow.field = Absent
  BY <1>1 DEF NoFlow
<1>3. PICK e : e = RawEdge(source, target, relation, strength, conf, layer)
  OBVIOUS
<1>4. e.sources = {} /\ e.flow = flow
  BY <1>1, <1>3 DEF RawEdge
<1> QED BY <1>2, <1>3, <1>4 DEF Grounds, FlowIsStated, LinkNeverGuesses, FlowOf

LEMMA NormalizedGrounds ==
  ASSUME NEW w, NEW p, NEW e, IsEdge(e), Grounds(w, p, e), NEW layer
  PROVE  Grounds(w, p, Normalized(e, layer, "structural"))
<1>1. PICK s \in {"name_based", "structural"} : s = IF layer = 2 THEN "name_based" ELSE "structural"
  OBVIOUS
<1>2. CASE e.sources # {}
  BY <1>2 DEF Normalized
<1>3. CASE e.sources = {}
  <2>1. PICK n : n = Normalized(e, layer, "structural")
    OBVIOUS
  <2>2. n.sources = {s} /\ n.flow = e.flow
    BY <1>1, <1>3, <2>1 DEF Normalized, IsEdge, EdgeFields
  <2> QED BY <1>3, <2>1, <2>2 DEF Grounds, FlowIsStated, LinkNeverGuesses, FlowOf
<1> QED BY <1>2, <1>3

(* Putting, merging and writing edges leave a sound graph.                 *)
LEMMA PutSound ==
  ASSUME NEW w, NEW g, Sound(w, g), NEW e, IsEdge(e), Grounds(w, PairOf(e), e)
  PROVE  Sound(w, PutEdge(g, e))
<1>1. PICK h : h = PutEdge(g, e)
  OBVIOUS
<1>2. /\ IsGraph(h) /\ DOMAIN h = DOMAIN g \cup {PairOf(e)} /\ h[PairOf(e)] = e
      /\ \A p \in DOMAIN g : p # PairOf(e) => h[p] = g[p]
  BY <1>1, PutFits DEF Sound
<1> QED BY <1>1, <1>2 DEF Sound, Grounded

LEMMA MergeSound ==
  ASSUME NEW w, NEW g, Sound(w, g), NEW e, IsEdge(e), Grounds(w, PairOf(e), e)
  PROVE  Sound(w, MergeEdge(g, e))
<1>1. CASE PairOf(e) \notin DOMAIN g
  BY <1>1, PutSound DEF MergeEdge, PairOf
<1>2. CASE PairOf(e) \in DOMAIN g
  <2>1. PICK old : old = g[PairOf(e)]
    OBVIOUS
  <2>2. IsEdge(old) /\ PairOf(old) = PairOf(e) /\ Grounds(w, PairOf(e), old)
    BY <1>2, <2>1 DEF Sound, IsGraph, Grounded
  <2>3. PICK n : n = Normalized(old, old.layer, "structural")
    OBVIOUS
  <2>4. IsEdge(n) /\ PairOf(n) = PairOf(e) /\ Grounds(w, PairOf(e), n)
    BY <2>2, <2>3, NormalizedFits, NormalizedGrounds
  <2>5. PICK m : m = MergedEdge(n, e)
    OBVIOUS
  <2>6. IsEdge(m) /\ PairOf(m) = PairOf(e) /\ Grounds(w, PairOf(e), m)
    BY <2>4, <2>5, MergedEdgeFits, MergedGrounds
  <2>7. MergeEdge(g, e) = PutEdge(g, m)
    BY <1>2, <2>1, <2>3, <2>5 DEF MergeEdge, PairOf
  <2> QED BY <2>6, <2>7, PutSound
<1> QED BY <1>1, <1>2

LEMMA WrittenSound ==
  ASSUME NEW w, NEW g, Grounded(w, g), NEW h, DOMAIN h = DOMAIN g,
         \A p \in DOMAIN g : h[p].flow = g[p].flow /\ h[p].sources = g[p].sources
  PROVE  Grounded(w, h)
<1> SUFFICES ASSUME NEW p \in DOMAIN g PROVE Grounds(w, p, h[p])
  BY DEF Grounded
<1>1. h[p].flow = g[p].flow /\ h[p].sources = g[p].sources /\ Grounds(w, p, g[p])
  BY DEF Grounded
<1> QED BY <1>1 DEF Grounds, FlowIsStated, LinkNeverGuesses, FlowOf
LEMMA RelationSound ==
  ASSUME NEW w, NEW g, Sound(w, g), NEW p \in DOMAIN g, NEW relation
  PROVE  Sound(w, [g EXCEPT ![p].relation = relation])
<1>1. PICK h : h = [g EXCEPT ![p].relation = relation]
  OBVIOUS
<1>2. IsGraph(g) /\ Grounded(w, g)
  BY DEF Sound
<1>3. IsGraph(h)
  BY <1>1, <1>2, RelationFits
<1>4. DOMAIN h = DOMAIN g /\ \A q \in DOMAIN g : q # p => h[q] = g[q]
  BY <1>1
<1>5. h[p] = [g[p] EXCEPT !.relation = relation]
  BY <1>1
<1>6. h[p].flow = g[p].flow /\ h[p].sources = g[p].sources
  BY <1>2, <1>5 DEF IsGraph, IsEdge, EdgeFields
<1>7. \A q \in DOMAIN g : h[q].flow = g[q].flow /\ h[q].sources = g[q].sources
  BY <1>4, <1>6
<1> QED BY <1>1, <1>2, <1>3, <1>4, <1>7, WrittenSound DEF Sound
-----------------------------------------------------------------------------
(* The edges the stages put.                                               *)
LEMMA EvidenceFits ==
  ASSUME NEW e, IsEdge(e), NEW source, NEW flow, flow.count = 0,
         NEW x, DOMAIN x = EdgeFields, x.source = e.source, x.target = e.target,
         x.conf = e.conf, x.deleted = e.deleted, x.sources = {source}, x.flow = flow
  PROVE  IsEdge(x) /\ PairOf(x) = PairOf(e)
<1>1. IsFiniteSet({source})
  BY FS_Singleton
<1>2. x.flow.count \in Int
  <2>1. 0 \in Int
    OBVIOUS
  <2> QED BY <2>1, Zenon
<1> QED BY <1>1, <1>2 DEF IsEdge, PairOf

(* The edge of a link between two tools is an edge.                        *)
LEMMA LinkEdgeFits ==
  ASSUME NEW consumer, NEW producer, consumer # producer, NEW link
  PROVE  /\ IsEdge(LinkEdge(consumer, producer, link))
         /\ PairOf(LinkEdge(consumer, producer, link)) = <<consumer, producer>>
         /\ LinkEdge(consumer, producer, link).sources = {"openapi_link"}
<1>1. PICK conf \in Int : conf = IF LinkRelation(link) = "requires" THEN 95 ELSE 90
  OBVIOUS
<1>2. PICK e : e = RawEdge(consumer, producer, LinkRelation(link), "EXTRACTED", conf, 1)
  OBVIOUS
<1>3. PICK kind : kind = IF LinkRelation(link) = "requires" THEN "data" ELSE "semantic"
  OBVIOUS
<1>4. PICK flow : flow = [count |-> 0, from |-> Primary(link).from, field |-> Primary(link).field,
                          link |-> TRUE, stated |-> TRUE]
  OBVIOUS
<1>5. flow.count = 0
  BY <1>4, Zenon
<1>6. IsEdge(e) /\ PairOf(e) = <<consumer, producer>>
  BY <1>2, RawEdgeFits DEF PairOf
<1>7. PICK x : x = LinkEdge(consumer, producer, link)
  OBVIOUS
<1>8. x = [e EXCEPT !.kind = kind, !.sources = {"openapi_link"}, !.flow = flow]
  BY <1>1, <1>2, <1>3, <1>4, <1>7 DEF LinkEdge
<1>9. DOMAIN e = EdgeFields
  BY <1>6 DEF IsEdge
<1>10. /\ DOMAIN x = EdgeFields /\ x.source = e.source /\ x.target = e.target
      /\ x.conf = e.conf /\ x.deleted = e.deleted /\ x.sources = {"openapi_link"} /\ x.flow = flow
  BY <1>8, <1>9 DEF EdgeFields
<1>11. IsEdge(x) /\ PairOf(x) = PairOf(e)
  BY <1>5, <1>6, <1>10, EvidenceFits
<1> QED BY <1>6, <1>7, <1>10, <1>11

(* The edge of a contract between two tools is an edge.                    *)
LEMMA ContractEdgeFits ==
  ASSUME NEW consumer, NEW producer, consumer.name # producer.name, NEW c, NEW p
  PROVE  LET x == ContractEdge(consumer, producer, c, p) IN
         /\ IsEdge(x) /\ PairOf(x) = <<consumer.name, producer.name>>
         /\ FlowOf(x) = <<FromPath(p), c.field>> /\ ~x.flow.link /\ x.sources = {"api_contract"}
<1>1. PICK e : e = RawEdge(consumer.name, producer.name, "requires", "INFERRED", 82, 2)
  OBVIOUS
<1>2. PICK flow : flow = [count |-> 0, from |-> FromPath(p), field |-> c.field, link |-> FALSE,
                          stated |-> TRUE]
  OBVIOUS
<1>3. flow.count = 0 /\ flow.from = FromPath(p) /\ flow.field = c.field /\ flow.link = FALSE
  BY <1>2, Zenon
<1>4. IsEdge(e) /\ PairOf(e) = <<consumer.name, producer.name>>
  BY <1>1, RawEdgeFits DEF PairOf
<1>5. PICK x : x = ContractEdge(consumer, producer, c, p)
  OBVIOUS
<1>6. x = [e EXCEPT !.kind = "data", !.sources = {"api_contract"}, !.flow = flow]
  BY <1>1, <1>2, <1>5 DEF ContractEdge
<1>7. DOMAIN e = EdgeFields
  BY <1>4 DEF IsEdge
<1>8. /\ DOMAIN x = EdgeFields /\ x.source = e.source /\ x.target = e.target
      /\ x.conf = e.conf /\ x.deleted = e.deleted /\ x.sources = {"api_contract"} /\ x.flow = flow
  BY <1>6, <1>7 DEF EdgeFields
<1>9. IsEdge(x) /\ PairOf(x) = PairOf(e)
  BY <1>3, <1>4, <1>8, EvidenceFits
<1> QED BY <1>3, <1>4, <1>5, <1>8, <1>9 DEF FlowOf

(* The edge of a workflow is an edge.                                      *)
LEMMA WorkflowEdgeFits ==
  ASSUME NEW r, r.source # r.target
  PROVE  LET x == WorkflowEdge(r) IN
         /\ IsEdge(x) /\ PairOf(x) = <<r.source, r.target>> /\ x.sources = {"arazzo"}
         /\ FlowOf(x) = <<FirstBinding(r).from, FirstBinding(r).field>> /\ ~x.flow.link
<1>1. PICK conf \in Int : conf = IF r.kind = "sequential" THEN 95 ELSE 100
  OBVIOUS
<1>2. PICK e : e = RawEdge(r.source, r.target, "precedes", "EXTRACTED", conf, 1)
  OBVIOUS
<1>3. PICK kind : kind = IF r.bindings = <<>> THEN "workflow" ELSE "data"
  OBVIOUS
<1>4. PICK flow : flow = [count |-> 0, from |-> FirstBinding(r).from,
                          field |-> FirstBinding(r).field, link |-> FALSE, stated |-> TRUE]
  OBVIOUS
<1>5. /\ flow.count = 0 /\ flow.link = FALSE
      /\ flow.from = FirstBinding(r).from /\ flow.field = FirstBinding(r).field
  BY <1>4, Zenon
<1>6. IsEdge(e) /\ PairOf(e) = <<r.source, r.target>>
  BY <1>2, RawEdgeFits DEF PairOf
<1>7. PICK x : x = WorkflowEdge(r)
  OBVIOUS
<1>8. x = [e EXCEPT !.kind = kind, !.explicit = "forward", !.sources = {"arazzo"}, !.flow = flow]
  BY <1>1, <1>2, <1>3, <1>4, <1>7 DEF WorkflowEdge
<1>9. DOMAIN e = EdgeFields
  BY <1>6 DEF IsEdge
<1>10. /\ DOMAIN x = EdgeFields /\ x.source = e.source /\ x.target = e.target
      /\ x.conf = e.conf /\ x.deleted = e.deleted /\ x.sources = {"arazzo"} /\ x.flow = flow
  BY <1>8, <1>9 DEF EdgeFields
<1>11. IsEdge(x) /\ PairOf(x) = PairOf(e)
  BY <1>5, <1>6, <1>10, EvidenceFits
<1> QED BY <1>5, <1>6, <1>7, <1>10, <1>11 DEF FlowOf
-----------------------------------------------------------------------------
(* The stages, loop by loop: each keeps a graph of grounded edges between  *)
(* different tools.                                                        *)
GraphSoFar(c, i, g) == Sound(c.w, g)

DetectOne(c, g, r) == PutDetected(g, r)
Detecting == INSTANCE FoldInduction WITH Op <- DetectOne, Good <- GraphSoFar

(* The detected relations leave a graph.                                   *)
LEMMA DetectedFit ==
  ASSUME NEW w, NEW g, Sound(w, g), NEW found, IsList(found),
         \A i \in DOMAIN found : found[i].source # found[i].target /\ found[i].conf \in Int
  PROVE  Sound(w, FoldLeft(PutDetected, g, found))
<1>1. PICK n \in Nat : DOMAIN found = 1 .. n
  BY ListDomain
<1>2. PICK c : c = [w |-> w]
  OBVIOUS
<1>6. FoldLeft(PutDetected, g, found) = Detecting!Result(c, g, found)
  BY DEF DetectOne, FoldLeft, MapThenFoldSet, Max, Detecting!Result,
         Detecting!MapThenFoldSet, Detecting!Largest
<1>3. ASSUME NEW i \in 1 .. n, NEW acc, Sound(w, acc)
      PROVE  Sound(w, PutDetected(acc, found[i]))
  <2>1. PICK r : r = found[i]
    OBVIOUS
  <2>2. r.source # r.target /\ r.conf \in Int
    BY <1>1, <2>1
  <2>3. PICK e : e = RawEdge(r.source, r.target, r.relation, Bucket(r.layer, r.conf), r.conf, r.layer)
    OBVIOUS
  <2>4. IsEdge(e) /\ Grounds(w, PairOf(e), e)
    BY <2>2, <2>3, RawEdgeFits, RawGrounds
  <2>5. PutDetected(acc, r) \in {acc, PutEdge(acc, e)}
    BY <2>3 DEF PutDetected
  <2>6. Sound(w, PutEdge(acc, e))
    BY <1>3, <2>4, PutSound
  <2> QED BY <1>3, <2>1, <2>5, <2>6
<1>4. \A i \in 1 .. n : \A acc : GraphSoFar(c, i - 1, acc) => GraphSoFar(c, i, DetectOne(c, acc, found[i]))
  BY <1>2, <1>3 DEF GraphSoFar, DetectOne
<1>5. GraphSoFar(c, 0, g)
  BY <1>2 DEF GraphSoFar
<1> QED BY <1>1, <1>2, <1>4, <1>5, <1>6, Detecting!FoldInduction DEF GraphSoFar

PairOne(c, g, pair) == PutPair(g, c.tool, pair, c.tools)
PairAll(c, g, tool) ==
  FoldLeft(LAMBDA h, pair : PutPair(h, tool, pair, c.tools), g, tool.pairs)
Pairing == INSTANCE FoldInduction WITH Op <- PairOne, Good <- GraphSoFar
PairingAll == INSTANCE FoldInduction WITH Op <- PairAll, Good <- GraphSoFar

(* The pairs of one tool leave a graph.                                    *)
LEMMA PairsOfToolFit ==
  ASSUME NEW c, NEW g, Sound(c.w, g), NEW tool, IsTool(tool)
  PROVE  Sound(c.w, PairAll(c, g, tool))
<1>1. PICK n \in Nat : DOMAIN tool.pairs = 1 .. n
  BY ListDomain DEF IsTool
<1>2. PICK d : d = [w |-> c.w, tool |-> tool, tools |-> c.tools]
  OBVIOUS
<1>3. PairAll(c, g, tool) = Pairing!Result(d, g, tool.pairs)
  BY <1>2 DEF PairAll, PairOne, FoldLeft, MapThenFoldSet, Max, Pairing!Result,
         Pairing!MapThenFoldSet, Pairing!Largest
<1>4. ASSUME NEW acc, Sound(c.w, acc), NEW pair
      PROVE  Sound(c.w, PutPair(acc, tool, pair, c.tools))
  <2>1. PICK strength : strength = IF pair.manual THEN "EXTRACTED" ELSE "INFERRED"
    OBVIOUS
  <2>2. PICK e : e = RawEdge(tool.name, pair.tool, "complementary", strength, 0, 2)
    OBVIOUS
  <2>3. CASE pair.tool = tool.name
    <3>1. PutPair(acc, tool, pair, c.tools) = acc
      BY <2>3 DEF PutPair
    <3> QED BY <1>4, <3>1
  <2>4. CASE pair.tool # tool.name
    <3>1. IsEdge(e) /\ Grounds(c.w, PairOf(e), e)
      BY <2>2, <2>4, RawEdgeFits, RawGrounds
    <3>2. PutPair(acc, tool, pair, c.tools) \in {acc, PutEdge(acc, e)}
      BY <2>1, <2>2 DEF PutPair
    <3>3. Sound(c.w, PutEdge(acc, e))
      BY <1>4, <3>1, PutSound
    <3> QED BY <1>4, <3>2, <3>3
  <2> QED BY <2>3, <2>4
<1>5. \A i \in 1 .. n : \A acc : GraphSoFar(d, i - 1, acc) => GraphSoFar(d, i, PairOne(d, acc, tool.pairs[i]))
  BY <1>2, <1>4 DEF GraphSoFar, PairOne
<1>6. GraphSoFar(d, 0, g)
  BY <1>2 DEF GraphSoFar
<1> QED BY <1>1, <1>2, <1>3, <1>5, <1>6, Pairing!FoldInduction DEF GraphSoFar

(* The tools of a stage.                                                   *)
AreTools(tools) == IsList(tools) /\ \A i \in DOMAIN tools : IsTool(tools[i])

(* The pairs of all tools leave a graph.                                   *)
LEMMA PairsFit ==
  ASSUME NEW w, NEW g, Sound(w, g), NEW tools, AreTools(tools)
  PROVE  Sound(w, WithPairs(g, tools))
<1>1. PICK n \in Nat : DOMAIN tools = 1 .. n
  BY ListDomain DEF AreTools
<1>2. PICK c : c = [w |-> w, tools |-> tools]
  OBVIOUS
<1>3. WithPairs(g, tools) = PairingAll!Result(c, g, tools)
  BY <1>2 DEF WithPairs, PairAll, FoldLeft, MapThenFoldSet, Max, PairingAll!Result,
         PairingAll!MapThenFoldSet, PairingAll!Largest
<1>4. \A i \in 1 .. n : \A acc : GraphSoFar(c, i - 1, acc) => GraphSoFar(c, i, PairAll(c, acc, tools[i]))
  BY <1>1, PairsOfToolFit DEF GraphSoFar, AreTools
<1>5. GraphSoFar(c, 0, g)
  BY <1>2 DEF GraphSoFar
<1> QED BY <1>1, <1>2, <1>3, <1>4, <1>5, PairingAll!FoldInduction DEF GraphSoFar
-----------------------------------------------------------------------------
LinkOne(c, g, link) == PutLink(g, c.tool.name, link, c.tools)
LinkAll(c, g, tool) ==
  FoldLeft(LAMBDA h, link : PutLink(h, tool.name, link, c.tools), g, LinksOf(tool))
Linking == INSTANCE FoldInduction WITH Op <- LinkOne, Good <- GraphSoFar
LinkingAll == INSTANCE FoldInduction WITH Op <- LinkAll, Good <- GraphSoFar

(* The tool a link leads to is one the link names.                         *)
LEMMA LinkIsNamed ==
  ASSUME NEW tools, AreTools(tools), NEW link, LinkTarget(link, tools) # NoConsumer
  PROVE  \E k \in DOMAIN tools :
           tools[k].name = LinkTarget(link, tools) /\ Named(link, tools[k], tools)
<1>1. DOMAIN tools = 1 .. Len(tools) /\ Len(tools) \in Nat
  BY ListDomain DEF AreTools
<1>2. ASSUME NEW S \in SUBSET DOMAIN tools, S # {}
      PROVE  \E k \in S : LastOf(S, tools) = tools[k].name
  <2>1. IsFiniteSet(S) /\ S \in SUBSET Int
    <3>1. IsFiniteSet(1 .. Len(tools))
      BY <1>1, FS_Interval
    <3>2. S \in SUBSET (1 .. Len(tools))
      BY <1>1
    <3> QED BY <3>1, <3>2, FS_Subset
  <2>2. PICK m \in S : \A k \in S : m >= k
    BY <1>2, <2>1, GreatestOf
  <2>3. \A k \in S : k <= m
    BY <1>1, <2>2
  <2> QED BY <2>2, <2>3 DEF LastOf
<1>3. PICK carriers : carriers = Carriers(link.operation, tools)
  OBVIOUS
<1>4. PICK there : there = At(link.ref, tools)
  OBVIOUS
<1>5. carriers \in SUBSET DOMAIN tools /\ there \in SUBSET DOMAIN tools
  BY <1>3, <1>4 DEF Carriers, At
<1>6. CASE link.operation # Absent /\ carriers # {}
  <2>1. LinkTarget(link, tools) = LastOf(carriers, tools)
    BY <1>3, <1>6 DEF LinkTarget
  <2>2. PICK k \in carriers : LastOf(carriers, tools) = tools[k].name
    BY <1>2, <1>5, <1>6
  <2>3. \/ tools[k].operation = link.operation /\ ~SharedOperation(link.operation, tools)
        \/ tools[k].name = link.operation /\ tools[k].operation # link.operation
    BY <1>3 DEF Carriers
  <2>4. ASSUME tools[k].operation = link.operation, ~SharedOperation(link.operation, tools)
        PROVE  Only(link, tools[k], tools)
    BY <1>5, <2>4 DEF SharedOperation, Only
  <2>5. Named(link, tools[k], tools)
    BY <1>6, <2>3, <2>4 DEF Named
  <2> QED BY <1>5, <2>1, <2>2, <2>5
<1>7. CASE ~(link.operation # Absent /\ carriers # {}) /\ there # {}
  <2>1. LinkTarget(link, tools) = LastOf(there, tools)
    BY <1>3, <1>4, <1>7 DEF LinkTarget
  <2>2. PICK k \in there : LastOf(there, tools) = tools[k].name
    BY <1>2, <1>5, <1>7
  <2>3. link.ref # Absent /\ tools[k].ref = link.ref
    BY <1>4 DEF At
  <2> QED BY <1>5, <2>1, <2>2, <2>3 DEF Named
<1>8. CASE ~(link.operation # Absent /\ carriers # {}) /\ ~(there # {})
  BY <1>3, <1>4, <1>8 DEF LinkTarget
<1> QED BY <1>6, <1>7, <1>8

(* One link of a tool leaves a sound graph.                                *)
LEMMA LinkFits ==
  ASSUME NEW w, AreTools(w.tools), NEW g, Sound(w, g),
         NEW i \in DOMAIN w.tools, NEW n \in DOMAIN w.tools[i].links
  PROVE  Sound(w, PutLink(g, w.tools[i].name, w.tools[i].links[n], w.tools))
<1>1. PICK producer, link : producer = w.tools[i].name /\ link = w.tools[i].links[n]
  OBVIOUS
<1>2. PICK consumer : consumer = LinkTarget(link, w.tools)
  OBVIOUS
<1>3. PICK e : e = LinkEdge(consumer, producer, link)
  OBVIOUS
<1>4. PICK merged : merged = MergeEdge(g, e)
  OBVIOUS
<1>5. CASE consumer \in {NoConsumer, producer}
  <2>1. PutLink(g, producer, link, w.tools) = g
    BY <1>2, <1>5 DEF PutLink
  <2> QED BY <1>1, <2>1
<1>6. CASE consumer \notin {NoConsumer, producer}
  <2>1. /\ IsEdge(e) /\ PairOf(e) = <<consumer, producer>> /\ e.sources = {"openapi_link"}
    BY <1>3, <1>6, LinkEdgeFits
  <2>2. PICK k \in DOMAIN w.tools : w.tools[k].name = consumer /\ Named(link, w.tools[k], w.tools)
    BY <1>2, <1>6, LinkIsNamed
  <2>3. Grounds(w, PairOf(e), e)
    <3>1. <<consumer, producer>>[1] = consumer /\ <<consumer, producer>>[2] = producer
      OBVIOUS
    <3>2. LinkNeverGuesses(w, PairOf(e), e)
      BY <1>1, <2>1, <2>2, <3>1 DEF LinkNeverGuesses
    <3> QED BY <2>1, <3>2 DEF Grounds, FlowIsStated
  <2>4. Sound(w, merged) /\ <<consumer, producer>> \in DOMAIN merged
    BY <1>4, <2>1, <2>3, MergeSound, MergeEdgeFits DEF Sound
  <2>5. PICK required : required = [merged EXCEPT ![<<consumer, producer>>].relation = "requires"]
    OBVIOUS
  <2>6. Sound(w, required)
    BY <2>4, <2>5, RelationSound
  <2>7. PutLink(g, producer, link, w.tools) \in {merged, required}
    BY <1>2, <1>3, <1>4, <1>6, <2>5 DEF PutLink
  <2> QED BY <1>1, <2>4, <2>6, <2>7
<1> QED BY <1>5, <1>6

(* The links of one tool leave a sound graph.                              *)
LEMMA LinksOfToolFit ==
  ASSUME NEW c, c.tools = c.w.tools, AreTools(c.tools), NEW g, Sound(c.w, g),
         NEW j \in DOMAIN c.tools
  PROVE  Sound(c.w, LinkAll(c, g, c.tools[j]))
<1>1. PICK tool : tool = c.tools[j]
  OBVIOUS
<1>2. PICK links : links = LinksOf(tool)
  OBVIOUS
<1>3. IsList(links) /\ ToSet(links) \subseteq ToSet(tool.links)
  BY <1>1, <1>2, FilteredList DEF LinksOf, IsTool, AreTools
<1>4. PICK n \in Nat : DOMAIN links = 1 .. n
  BY <1>3, ListDomain
<1>5. PICK d : d = [w |-> c.w, tool |-> tool, tools |-> c.tools]
  OBVIOUS
<1>6. LinkAll(c, g, tool) = Linking!Result(d, g, links)
  BY <1>2, <1>5 DEF LinkAll, LinkOne, FoldLeft, MapThenFoldSet, Max, Linking!Result,
         Linking!MapThenFoldSet, Linking!Largest
<1>7. ASSUME NEW i \in 1 .. n, NEW acc, Sound(c.w, acc)
      PROVE  Sound(c.w, PutLink(acc, tool.name, links[i], c.tools))
  <2>1. PICK m \in DOMAIN tool.links : links[i] = tool.links[m]
    BY <1>3, <1>4 DEF ToSet
  <2> QED BY <1>1, <1>7, <2>1, LinkFits
<1>8. \A i \in 1 .. n : \A acc : GraphSoFar(d, i - 1, acc) => GraphSoFar(d, i, LinkOne(d, acc, links[i]))
  BY <1>5, <1>7 DEF GraphSoFar, LinkOne
<1>9. GraphSoFar(d, 0, g)
  BY <1>5 DEF GraphSoFar
<1> QED BY <1>1, <1>4, <1>5, <1>6, <1>8, <1>9, Linking!FoldInduction DEF GraphSoFar

(* The links of all tools leave a sound graph.                             *)
LEMMA LinksFit ==
  ASSUME NEW w, AreTools(w.tools), NEW g, Sound(w, g)
  PROVE  Sound(w, WithLinks(g, w.tools))
<1>1. PICK n \in Nat : DOMAIN w.tools = 1 .. n
  BY ListDomain DEF AreTools
<1>2. PICK c : c = [w |-> w, tools |-> w.tools]
  OBVIOUS
<1>3. WithLinks(g, w.tools) = LinkingAll!Result(c, g, w.tools)
  BY <1>2 DEF WithLinks, LinkAll, FoldLeft, MapThenFoldSet, Max, LinkingAll!Result,
         LinkingAll!MapThenFoldSet, LinkingAll!Largest
<1>4. \A i \in 1 .. n : \A acc : GraphSoFar(c, i - 1, acc) => GraphSoFar(c, i, LinkAll(c, acc, w.tools[i]))
  BY <1>1, <1>2, LinksOfToolFit DEF GraphSoFar
<1>5. GraphSoFar(c, 0, g)
  BY <1>2 DEF GraphSoFar
<1> QED BY <1>1, <1>2, <1>3, <1>4, <1>5, LinkingAll!FoldInduction DEF GraphSoFar
-----------------------------------------------------------------------------
(* The place of a name is a number.                                        *)
LEMMA PlaceFits ==
  ASSUME NEW x \in ToSet(Names)
  PROVE  Place(Names, x) \in Nat /\ Place(Names, x) \in DOMAIN Names
         /\ Names[Place(Names, x)] = x
<1>1. DOMAIN Names = 1 .. Len(Names) /\ Len(Names) \in Nat
  BY CollectionsAssumption, ListDomain
<1>2. \E i \in DOMAIN Names : Names[i] = x
  BY DEF ToSet
<1>3. Place(Names, x) \in DOMAIN Names /\ Names[Place(Names, x)] = x
  BY <1>2 DEF Place
<1> QED BY <1>1, <1>3

(* The row that matches a consumer's is one of the tool's, and matches it.  *)
LEMMA FirstMatchFits ==
  ASSUME NEW tool, IsList(tool.produces), NEW c
  PROVE  FirstMatch(tool, c) # 0 => /\ FirstMatch(tool, c) \in DOMAIN tool.produces
                                    /\ SameField(tool.produces[FirstMatch(tool, c)], c)
<1> DEFINE I == {i \in 1 .. Len(tool.produces) : SameField(tool.produces[i], c)}
<1>1. DOMAIN tool.produces = 1 .. Len(tool.produces) /\ Len(tool.produces) \in Nat
  BY ListDomain
<1>2. FirstMatch(tool, c) = IF I # {} THEN CHOOSE x \in I : \A y \in I : x <= y ELSE 0
  BY DEF FirstMatch, SelectInSeq, Min
<1>3. CASE I # {}
  <2>1. PICK m \in I : \A y \in I : m <= y
    <3>1. I \subseteq Nat
      BY <1>1
    <3>2. PICK m \in I : \A y \in I : <<y, m>> \notin OpToRel(<, Nat)
      <4> HIDE DEF I
      <4> QED BY <1>3, <3>1, NatLessThanWellFounded, WFMin
    <3>3. \A y \in I : m <= y
      <4> TAKE y \in I
      <4>1. y \in Nat /\ m \in Nat
        BY <3>1
      <4>2. ~(y < m)
        <5> HIDE DEF I
        <5> QED BY <3>2, <4>1 DEF OpToRel
      <4> QED BY <4>1, <4>2
    <3> QED BY <3>3
  <2>2. FirstMatch(tool, c) \in I
    <3> HIDE DEF I
    <3> QED BY <1>2, <1>3, <2>1
  <2> QED BY <1>1, <2>2
<1>4. CASE I = {}
  <2> HIDE DEF I
  <2> QED BY <1>2, <1>4
<1> QED BY <1>3, <1>4

(* The tools a consumed row is taken from are some of its yielders.        *)
LEMMA BestYieldersFit ==
  ASSUME NEW tools, AreTools(tools), NEW consumer, NEW c
  PROVE  /\ IsList(BestYielders(consumer, c, tools))
         /\ ToSet(BestYielders(consumer, c, tools)) \subseteq Yielders(consumer, c, tools)
<1> DEFINE S == Yielders(consumer, c, tools)
           key == [i \in S |->
                     <<0 - ContractScore(tools[i], tools[i].produces[FirstMatch(tools[i], c)]),
                       Place(Names, tools[i].name), i>>]
<1>1. Len(tools) \in Nat /\ DOMAIN tools = 1 .. Len(tools)
  BY ListDomain DEF AreTools
<1>2. S \subseteq DOMAIN tools /\ \A i \in S : FirstMatch(tools[i], c) # 0
  BY DEF Yielders
<1>3. IsFiniteSet(S)
  <2>1. IsFiniteSet(1 .. Len(tools))
    BY <1>1, FS_Interval
  <2>2. S \in SUBSET (1 .. Len(tools))
    BY <1>1, <1>2
  <2> QED BY <2>1, <2>2, FS_Subset
<1> HIDE DEF S
<1>4. ASSUME NEW i \in S PROVE key[i] \in Key(3) /\ key[i][3] = i
  <2>1. IsTool(tools[i]) /\ i \in Int
    BY <1>1, <1>2 DEF AreTools
  <2>2. PICK f : f = FirstMatch(tools[i], c)
    OBVIOUS
  <2>3. f \in DOMAIN tools[i].produces
    BY <1>2, <2>1, <2>2, FirstMatchFits DEF IsTool
  <2>4. tools[i].produces[f].score \in Int
    BY <2>1, <2>3 DEF IsTool
  <2>5. ContractScore(tools[i], tools[i].produces[f]) \in Int
    BY <2>4 DEF ContractScore
  <2>6. Place(Names, tools[i].name) \in Int
    BY <2>1, PlaceFits DEF IsTool
  <2>7. PICK a \in Int, b \in Int :
          /\ a = 0 - ContractScore(tools[i], tools[i].produces[f])
          /\ b = Place(Names, tools[i].name)
    <3>1. 0 - ContractScore(tools[i], tools[i].produces[f]) \in Int
      BY <2>5
    <3> QED BY <2>6, <3>1
  <2>8. key[i] = <<a, b, i>>
    BY <2>2, <2>7
  <2>9. <<a, b, i>> \in [1 .. 3 -> Int] /\ <<a, b, i>>[3] = i
    BY <2>1
  <2> QED BY <2>8, <2>9 DEF Key
<1>5. PICK order : order = Sorted(S, key)
  OBVIOUS
<1>6. IsList(order) /\ ToSet(order) = S
  <2> HIDE DEF key
  <2>1. \A i \in S : key[i] \in Key(3)
    BY <1>4
  <2>2. \A i, j \in S : key[i] = key[j] => i = j
    BY <1>4
  <2>3. 3 \in Nat
    OBVIOUS
  <2> QED BY <1>3, <1>5, <2>1, <2>2, <2>3, SortedList
<1>7. PICK m : m = Least(Len(order), MaxProducers)
  OBVIOUS
<1>8. m \in Nat /\ m <= Len(order) /\ Len(order) \in Nat /\ DOMAIN order = 1 .. Len(order)
  BY <1>6, <1>7, ListDomain, CollectionsAssumption DEF Least
<1>9. PICK best : best = BestYielders(consumer, c, tools)
  OBVIOUS
<1>10. best = SubSeq(order, 1, m)
  BY <1>5, <1>7, <1>9 DEF BestYielders, S
<1>11. order \in Seq(S)
  BY <1>6 DEF IsList
<1>12. best \in Seq(S) /\ DOMAIN best = 1 .. m
  BY <1>8, <1>10, <1>11
<1>13. ToSet(best) \subseteq S
  <2>1. \A i \in 1 .. m : best[i] = order[i] /\ i \in DOMAIN order
    BY <1>8, <1>10, <1>11
  <2>2. \A i \in DOMAIN order : order[i] \in S
    BY <1>6 DEF ToSet
  <2> QED BY <1>12, <2>1, <2>2 DEF ToSet
<1> QED BY <1>9, <1>12, <1>13, ListFrom DEF S

(* Two rows that match are indexed under a common key.                     *)
LEMMA KeysShared ==
  ASSUME NEW p, NEW c, SameField(p, c)
  PROVE  IndexKeys(p) \cap IndexKeys(c) # {}
<1>1. \A row : IndexKeys(row) =
        {k \in {<<"semantic", row.sem>>, <<"field", row.field>>, <<"loose", LooseKey[row.field]>>,
                <<"description", row.alias>>} : k[2] # Absent}
  BY DEF IndexKeys
<1>2. ASSUME NEW n, NEW v, v # Absent PROVE <<n, v>>[2] # Absent
  BY <1>2
<1>3. CASE p.sem # Absent /\ p.sem = c.sem
  <2>1. <<"semantic", p.sem>> \in IndexKeys(p) /\ <<"semantic", p.sem>> \in IndexKeys(c)
    BY <1>1, <1>2, <1>3
  <2> QED BY <2>1
<1>4. CASE p.field # Absent /\ p.field = c.field
  <2>1. <<"field", p.field>> \in IndexKeys(p) /\ <<"field", p.field>> \in IndexKeys(c)
    BY <1>1, <1>2, <1>4
  <2> QED BY <2>1
<1>5. CASE LooseKey[p.field] # Absent /\ LooseKey[p.field] = LooseKey[c.field]
  <2>1. /\ <<"loose", LooseKey[p.field]>> \in IndexKeys(p)
        /\ <<"loose", LooseKey[p.field]>> \in IndexKeys(c)
    BY <1>1, <1>2, <1>5
  <2> QED BY <2>1
<1>6. CASE p.alias # Absent /\ p.alias = c.alias
  <2>1. <<"description", p.alias>> \in IndexKeys(p) /\ <<"description", p.alias>> \in IndexKeys(c)
    BY <1>1, <1>2, <1>6
  <2> QED BY <2>1
<1> QED BY <1>3, <1>4, <1>5, <1>6 DEF SameField

(* The flow of two rows that match is a stated one.                        *)
LEMMA RowsState ==
  ASSUME NEW tools, NEW i \in DOMAIN tools, NEW k \in DOMAIN tools,
         NEW c \in ToSet(tools[i].consumes), NEW p \in ToSet(tools[k].produces), SameField(p, c)
  PROVE  <<FromPath(p), c.field>> \in ContractFlows(tools, <<tools[i].name, tools[k].name>>)
<1> DEFINE pair == <<tools[i].name, tools[k].name>>
           Called(name) == {j \in DOMAIN tools : tools[j].name = name}
           produced == UNION {ToSet(tools[j].produces) : j \in Called(pair[2])}
           consumed == UNION {ToSet(tools[j].consumes) : j \in Called(pair[1])}
<1>1. i \in Called(pair[1]) /\ k \in Called(pair[2])
  OBVIOUS
<1>2. c \in consumed /\ p \in produced
  BY <1>1
<1>3. ContractFlows(tools, pair) =
        {<<FromPath(x[1]), x[2].field>> :
           x \in {x \in produced \X consumed : IndexKeys(x[1]) \cap IndexKeys(x[2]) # {}}}
  BY DEF ContractFlows
<1> HIDE DEF produced, consumed
<1>4. PICK x : x = <<p, c>>
  OBVIOUS
<1>5. x \in produced \X consumed /\ x[1] = p /\ x[2] = c
  BY <1>2, <1>4
<1>6. IndexKeys(p) \cap IndexKeys(c) # {}
  BY KeysShared
<1> QED BY <1>3, <1>5, <1>6

(* One match of a contract leaves a sound graph.                           *)
LEMMA ContractFits ==
  ASSUME NEW w, AreTools(w.tools), NEW g, Sound(w, g), NEW j \in DOMAIN w.tools,
         NEW c \in ToSet(w.tools[j].consumes), NEW i \in Yielders(w.tools[j], c, w.tools)
  PROVE  Sound(w, PutContract(g, w.tools[j], w.tools[i], c))
<1>1. PICK consumer, producer : consumer = w.tools[j] /\ producer = w.tools[i]
  OBVIOUS
<1>2. PICK k : k = FirstMatch(producer, c)
  OBVIOUS
<1>3. i \in DOMAIN w.tools /\ producer.name # consumer.name /\ k # 0
  BY <1>1, <1>2 DEF Yielders
<1>4. IsList(producer.produces)
  BY <1>1, <1>3 DEF AreTools, IsTool
<1>5. k \in DOMAIN producer.produces /\ SameField(producer.produces[k], c)
  BY <1>2, <1>3, <1>4, FirstMatchFits
<1>6. PICK p : p = producer.produces[k]
  OBVIOUS
<1>7. PICK e : e = ContractEdge(consumer, producer, c, p)
  OBVIOUS
<1>8. /\ IsEdge(e) /\ PairOf(e) = <<consumer.name, producer.name>>
      /\ FlowOf(e) = <<FromPath(p), c.field>> /\ ~e.flow.link /\ e.sources = {"api_contract"}
  BY <1>3, <1>7, ContractEdgeFits
<1>9. FlowOf(e) \in Stated(w, PairOf(e))
  <2>1. p \in ToSet(producer.produces)
    BY <1>5, <1>6 DEF ToSet
  <2> QED BY <1>1, <1>3, <1>5, <1>6, <1>8, <2>1, RowsState DEF Stated
<1>11. Grounds(w, PairOf(e), e)
  BY <1>8, <1>9 DEF Grounds, FlowIsStated, LinkNeverGuesses
<1>12. PICK merged : merged = MergeEdge(g, e)
  OBVIOUS
<1>13. Sound(w, merged) /\ PairOf(e) \in DOMAIN merged
  <2>1. IsEdge(e) /\ Sound(w, merged)
    BY <1>8, <1>11, <1>12, MergeSound
  <2>2. IsGraph(g)
    BY DEF Sound
  <2> QED BY <1>12, <2>1, <2>2, MergeEdgeFits
<1>14. PICK new : new = [merged EXCEPT ![PairOf(e)].relation = "requires"]
  OBVIOUS
<1>15. Sound(w, new)
  BY <1>13, <1>14, RelationSound
<1>16. PutContract(g, consumer, producer, c) = new
  BY <1>2, <1>6, <1>7, <1>12, <1>14 DEF PutContract, PairOf
<1> QED BY <1>1, <1>15, <1>16

ContractOne(c, g, i) == PutContract(g, c.consumer, c.tools[i], c.row)
RowOne(c, g, row) == PutRow(g, c.tool, row, c.tools)
RowAll(c, g, tool) ==
  FoldLeft(LAMBDA h, row : PutRow(h, tool, row, c.tools), g, NeedsData(tool))
Contracting == INSTANCE FoldInduction WITH Op <- ContractOne, Good <- GraphSoFar
Rowing == INSTANCE FoldInduction WITH Op <- RowOne, Good <- GraphSoFar
RowingAll == INSTANCE FoldInduction WITH Op <- RowAll, Good <- GraphSoFar

(* One consumed row leaves a sound graph.                                  *)
LEMMA RowFits ==
  ASSUME NEW w, AreTools(w.tools), NEW g, Sound(w, g), NEW j \in DOMAIN w.tools,
         NEW row \in ToSet(w.tools[j].consumes)
  PROVE  Sound(w, PutRow(g, w.tools[j], row, w.tools))
<1>1. PICK consumer, tools : consumer = w.tools[j] /\ tools = w.tools
  OBVIOUS
<1>2. PICK best : best = BestYielders(consumer, row, tools)
  OBVIOUS
<1>3. IsList(best) /\ ToSet(best) \subseteq Yielders(consumer, row, tools)
  BY <1>1, <1>2, BestYieldersFit
<1>4. PICK n \in Nat : DOMAIN best = 1 .. n
  BY <1>3, ListDomain
<1>5. PICK d : d = [w |-> w, consumer |-> consumer, row |-> row, tools |-> tools]
  OBVIOUS
<1>6. PutRow(g, consumer, row, tools) = Contracting!Result(d, g, best)
  BY <1>2, <1>5 DEF PutRow, ContractOne, FoldLeft, MapThenFoldSet, Max, Contracting!Result,
         Contracting!MapThenFoldSet, Contracting!Largest
<1>7. ASSUME NEW i \in 1 .. n, NEW acc, Sound(w, acc)
      PROVE  Sound(w, PutContract(acc, consumer, tools[best[i]], row))
  <2>1. best[i] \in Yielders(consumer, row, tools)
    BY <1>3, <1>4 DEF ToSet
  <2> QED BY <1>1, <1>7, <2>1, ContractFits
<1>8. \A i \in 1 .. n : \A acc : GraphSoFar(d, i - 1, acc) => GraphSoFar(d, i, ContractOne(d, acc, best[i]))
  BY <1>5, <1>7 DEF GraphSoFar, ContractOne
<1>9. GraphSoFar(d, 0, g)
  BY <1>5 DEF GraphSoFar
<1> QED BY <1>1, <1>4, <1>5, <1>6, <1>8, <1>9, Contracting!FoldInduction DEF GraphSoFar

(* The consumed rows of one tool leave a sound graph.                      *)
LEMMA RowsOfToolFit ==
  ASSUME NEW c, c.tools = c.w.tools, AreTools(c.tools), NEW g, Sound(c.w, g),
         NEW j \in DOMAIN c.tools
  PROVE  Sound(c.w, RowAll(c, g, c.tools[j]))
<1>1. PICK tool : tool = c.tools[j]
  OBVIOUS
<1>2. PICK rows : rows = NeedsData(tool)
  OBVIOUS
<1>3. IsList(rows) /\ ToSet(rows) \subseteq ToSet(tool.consumes)
  BY <1>1, <1>2, FilteredList DEF NeedsData, IsTool, AreTools
<1>4. PICK n \in Nat : DOMAIN rows = 1 .. n
  BY <1>3, ListDomain
<1>5. PICK d : d = [w |-> c.w, tool |-> tool, tools |-> c.tools]
  OBVIOUS
<1>6. RowAll(c, g, tool) = Rowing!Result(d, g, rows)
  BY <1>2, <1>5 DEF RowAll, RowOne, FoldLeft, MapThenFoldSet, Max, Rowing!Result,
         Rowing!MapThenFoldSet, Rowing!Largest
<1>7. ASSUME NEW i \in 1 .. n, NEW acc, Sound(c.w, acc)
      PROVE  Sound(c.w, PutRow(acc, tool, rows[i], c.tools))
  <2>1. rows[i] \in ToSet(tool.consumes)
    BY <1>3, <1>4 DEF ToSet
  <2> QED BY <1>1, <1>7, <2>1, RowFits
<1>8. \A i \in 1 .. n : \A acc : GraphSoFar(d, i - 1, acc) => GraphSoFar(d, i, RowOne(d, acc, rows[i]))
  BY <1>5, <1>7 DEF GraphSoFar, RowOne
<1>9. GraphSoFar(d, 0, g)
  BY <1>5 DEF GraphSoFar
<1> QED BY <1>1, <1>4, <1>5, <1>6, <1>8, <1>9, Rowing!FoldInduction DEF GraphSoFar

(* The contracts of all tools leave a sound graph.                         *)
LEMMA ContractsFit ==
  ASSUME NEW w, AreTools(w.tools), NEW g, Sound(w, g)
  PROVE  Sound(w, WithContracts(g, w.tools))
<1>1. PICK n \in Nat : DOMAIN w.tools = 1 .. n
  BY ListDomain DEF AreTools
<1>2. PICK c : c = [w |-> w, tools |-> w.tools]
  OBVIOUS
<1>3. WithContracts(g, w.tools) = RowingAll!Result(c, g, w.tools)
  BY <1>2 DEF WithContracts, RowAll, FoldLeft, MapThenFoldSet, Max, RowingAll!Result,
         RowingAll!MapThenFoldSet, RowingAll!Largest
<1>4. \A i \in 1 .. n : \A acc : GraphSoFar(c, i - 1, acc) => GraphSoFar(c, i, RowAll(c, acc, w.tools[i]))
  BY <1>1, <1>2, RowsOfToolFit DEF GraphSoFar
<1>5. GraphSoFar(c, 0, g)
  BY <1>2 DEF GraphSoFar
<1> QED BY <1>1, <1>2, <1>3, <1>4, <1>5, RowingAll!FoldInduction DEF GraphSoFar
-----------------------------------------------------------------------------
(* An edge of a workflow that is followed leads where the workflow says.   *)
Follows(g, r) ==
  <<r.source, r.target>> \in DOMAIN g /\ g[<<r.source, r.target>>].explicit = "forward"

FollowOne(c, g, r) == PutWorkflow(g, r)
FollowedSoFar(w, i, g) == Sound(w, g) /\ \A j \in 1 .. i : Follows(g, w.workflows[j])
Following == INSTANCE FoldInduction WITH Op <- FollowOne, Good <- FollowedSoFar

(* One workflow step is followed, and none before it is undone.            *)
LEMMA WorkflowFits ==
  ASSUME NEW w, NEW g, Sound(w, g), NEW i \in DOMAIN w.workflows,
         w.workflows[i].source # w.workflows[i].target
  PROVE  LET r == w.workflows[i] IN
         /\ Sound(w, PutWorkflow(g, r)) /\ Follows(PutWorkflow(g, r), r)
         /\ \A q : Follows(g, q) => Follows(PutWorkflow(g, r), q)
<1>0. PICK r : r = w.workflows[i]
  OBVIOUS
<1>1. PICK e : e = WorkflowEdge(r)
  OBVIOUS
<1>2. PICK p : p = <<r.source, r.target>>
  OBVIOUS
<1>3. /\ IsEdge(e) /\ PairOf(e) = p /\ e.sources = {"arazzo"} /\ ~e.flow.link
      /\ FlowOf(e) = <<FirstBinding(r).from, FirstBinding(r).field>>
  BY <1>0, <1>1, <1>2, WorkflowEdgeFits
<1>4. Grounds(w, PairOf(e), e)
  <2>1. CASE r.bindings = <<>>
    <3>1. PICK from, field : FlowOf(e) = <<from, field>> /\ from = Absent /\ field = Absent
      <4>1. FirstBinding(r) = [from |-> Absent, field |-> Absent]
        BY <2>1 DEF FirstBinding
      <4>2. FirstBinding(r).from = Absent /\ FirstBinding(r).field = Absent
        BY <4>1
      <4> QED BY <1>3, <4>2
    <3> QED BY <1>3, <3>1 DEF Grounds, FlowIsStated, LinkNeverGuesses
  <2>2. CASE r.bindings # <<>>
    <3>1. FlowOf(e) = <<Head(r.bindings).from, Head(r.bindings).field>>
      BY <1>3, <2>2 DEF FirstBinding
    <3>2. FlowOf(e) \in WorkflowFlows(w.workflows, p)
      BY <1>0, <1>2, <2>2, <3>1 DEF WorkflowFlows
    <3> QED BY <1>3, <3>2 DEF Grounds, FlowIsStated, LinkNeverGuesses, Stated
  <2> QED BY <2>1, <2>2
<1>5. PICK merged : merged = MergeEdge(g, e)
  OBVIOUS
<1>6. /\ Sound(w, merged) /\ DOMAIN merged = DOMAIN g \cup {p}
      /\ \A q \in DOMAIN g : merged[q].explicit = g[q].explicit
  <2>1. Sound(w, merged)
    BY <1>3, <1>4, <1>5, MergeSound
  <2>2. IsGraph(g)
    BY DEF Sound
  <2> QED BY <1>3, <1>5, <2>1, <2>2, MergeEdgeFits
<1>7. PICK new : new = [merged EXCEPT ![p].explicit = "forward"]
  OBVIOUS
<1>8. /\ IsGraph(new) /\ DOMAIN new = DOMAIN merged /\ new[p].explicit = "forward"
      /\ \A q \in DOMAIN merged : q # p => new[q] = merged[q]
      /\ new[p].flow = merged[p].flow /\ new[p].sources = merged[p].sources
  BY <1>6, <1>7, DirectionFits DEF Sound
<1>9. Sound(w, new)
  <2>1. \A q \in DOMAIN merged : new[q].flow = merged[q].flow /\ new[q].sources = merged[q].sources
    BY <1>8
  <2> QED BY <1>6, <1>8, <2>1, WrittenSound DEF Sound
<1>10. PutWorkflow(g, r) = new
  BY <1>1, <1>2, <1>5, <1>7 DEF PutWorkflow
<1>11. Follows(new, r)
  BY <1>2, <1>6, <1>8 DEF Follows
<1>12. \A q : Follows(g, q) => Follows(new, q)
  BY <1>6, <1>8 DEF Follows
<1> QED BY <1>0, <1>9, <1>10, <1>11, <1>12

(* After the last workflow step all of them are followed.                  *)
LEMMA WorkflowsFit ==
  ASSUME NEW w, NEW g, Sound(w, g), IsList(w.workflows),
         \A i \in DOMAIN w.workflows : w.workflows[i].source # w.workflows[i].target
  PROVE  LET h == FoldLeft(PutWorkflow, g, w.workflows) IN
         Sound(w, h) /\ \A i \in DOMAIN w.workflows : Follows(h, w.workflows[i])
<1>0. PICK flows : flows = w.workflows
  OBVIOUS
<1>1. PICK n \in Nat : DOMAIN flows = 1 .. n
  BY <1>0, ListDomain
<1>2. PICK h : h = FoldLeft(PutWorkflow, g, flows)
  OBVIOUS
<1>3. h = Following!Result(w, g, flows)
  BY <1>2 DEF FollowOne, FoldLeft, MapThenFoldSet, Max, Following!Result,
         Following!MapThenFoldSet, Following!Largest
<1>4. ASSUME NEW i \in 1 .. n, NEW acc, FollowedSoFar(w, i - 1, acc)
      PROVE  FollowedSoFar(w, i, FollowOne(w, acc, flows[i]))
  <2>1. 1 .. i = (1 .. i - 1) \cup {i} /\ i \in DOMAIN flows
    BY <1>1
  <2>2. Sound(w, acc) /\ \A j \in 1 .. i - 1 : Follows(acc, flows[j])
    BY <1>0, <1>4 DEF FollowedSoFar
  <2>3. /\ Sound(w, PutWorkflow(acc, flows[i])) /\ Follows(PutWorkflow(acc, flows[i]), flows[i])
        /\ \A q : Follows(acc, q) => Follows(PutWorkflow(acc, flows[i]), q)
    BY <1>0, <2>1, <2>2, WorkflowFits
  <2> QED BY <1>0, <2>1, <2>2, <2>3 DEF FollowedSoFar, FollowOne
<1>5. FollowedSoFar(w, 0, g)
  BY DEF FollowedSoFar
<1>6. FollowedSoFar(w, n, h)
  BY <1>1, <1>3, <1>4, <1>5, Following!FoldInduction
<1> QED BY <1>0, <1>1, <1>2, <1>6 DEF FollowedSoFar
-----------------------------------------------------------------------------
(* What the runs show is merged: nothing is lost, no direction and no      *)
(* deletion undone.                                                        *)
Keeps(g, h) ==
  /\ DOMAIN g \subseteq DOMAIN h
  /\ \A p \in DOMAIN g : h[p].explicit = g[p].explicit /\ (g[p].deleted => h[p].deleted)

(* An edge a run showed, of a run whose record is among what is written.   *)
IsObserved(e) == IsEdge(e) /\ e.sources = {"run"} /\ ~e.flow.link

MergeOne(c, g, e) == MergeEdge(g, e)
KeptGraph(c, i, g) == Sound(c.w, g) /\ Keeps(c.from, g)
Merging == INSTANCE FoldInduction WITH Op <- MergeOne, Good <- KeptGraph

(* What a run showed is merged: the graph keeps what it had.               *)
LEMMA ObservedFit ==
  ASSUME NEW w, NEW g, Sound(w, g), NEW k \in DOMAIN w.attempts, NEW seen, IsList(seen),
         ToSet(seen) \subseteq w.attempts[k].observed, \A e \in ToSet(seen) : IsObserved(e)
  PROVE  Sound(w, FoldLeft(MergeEdge, g, seen)) /\ Keeps(g, FoldLeft(MergeEdge, g, seen))
<1>1. PICK n \in Nat : DOMAIN seen = 1 .. n
  BY ListDomain
<1>2. PICK h : h = FoldLeft(MergeEdge, g, seen)
  OBVIOUS
<1>3. PICK c : c = [w |-> w, from |-> g]
  OBVIOUS
<1>4. h = Merging!Result(c, g, seen)
  BY <1>2 DEF MergeOne, FoldLeft, MapThenFoldSet, Max, Merging!Result,
         Merging!MapThenFoldSet, Merging!Largest
<1>5. ASSUME NEW i \in 1 .. n, NEW acc, KeptGraph(c, i - 1, acc)
      PROVE  KeptGraph(c, i, MergeOne(c, acc, seen[i]))
  <2>1. PICK new : new = MergeEdge(acc, seen[i])
    OBVIOUS
  <2>2. PICK e : e = seen[i]
    OBVIOUS
  <2>3. IsObserved(e) /\ e \in w.attempts[k].observed
    BY <1>1, <2>2 DEF ToSet
  <2>4. Sound(w, acc) /\ Keeps(g, acc)
    BY <1>3, <1>5 DEF KeptGraph
  <2>5. FlowOf(e) \in Stated(w, PairOf(e))
    <3> DEFINE Here(m) == {FlowOf(x) : x \in {x \in w.attempts[m].observed : PairOf(x) = PairOf(e)}}
    <3>1. FlowOf(e) \in Here(k)
      BY <2>3
    <3>2. RunFlows(w.attempts, PairOf(e)) = UNION {Here(m) : m \in DOMAIN w.attempts}
      BY DEF RunFlows
    <3> HIDE DEF Here
    <3> QED BY <3>1, <3>2 DEF Stated
  <2>6. Grounds(w, PairOf(e), e)
    BY <2>3, <2>5 DEF IsObserved, Grounds, FlowIsStated, LinkNeverGuesses
  <2>7. Sound(w, new)
    BY <2>1, <2>2, <2>3, <2>4, <2>6, MergeSound DEF IsObserved
  <2>8. /\ DOMAIN new = DOMAIN acc \cup {PairOf(e)}
        /\ \A p \in DOMAIN acc : new[p].explicit = acc[p].explicit /\ (acc[p].deleted => new[p].deleted)
    <3>1. IsGraph(acc) /\ IsEdge(e)
      BY <2>3, <2>4 DEF IsObserved, Sound
    <3> QED BY <2>1, <2>2, <3>1, MergeEdgeFits
  <2>9. Keeps(g, new)
    BY <2>4, <2>8 DEF Keeps
  <2> QED BY <1>3, <2>1, <2>7, <2>9 DEF KeptGraph, MergeOne
<1>6. KeptGraph(c, 0, g)
  BY <1>3 DEF KeptGraph, Keeps
<1>7. KeptGraph(c, n, h)
  BY <1>1, <1>4, <1>5, <1>6, Merging!FoldInduction
<1> QED BY <1>2, <1>3, <1>7 DEF KeptGraph
-----------------------------------------------------------------------------
(* What the links of a tool add to what it produces.                       *)
Scored(rows) == IsList(rows) /\ \A i \in DOMAIN rows : rows[i].score \in Int

RowsSoFar(c, i, rows) == Scored(rows)
AliasOne(c, rows, p) == AddAlias(rows, p)
AliasAll(c, rows, link) == FoldLeft(AddAlias, rows, FromResponse(link))
Aliasing == INSTANCE FoldInduction WITH Op <- AliasOne, Good <- RowsSoFar
AliasingAll == INSTANCE FoldInduction WITH Op <- AliasAll, Good <- RowsSoFar

(* One alias of a link leaves a tool's rows scored.                        *)
LEMMA AliasFits ==
  ASSUME NEW rows, Scored(rows), NEW p
  PROVE  Scored(AliasOne(0, rows, p))
<1>1. PICK x : x = Produce(p.field, p.from)
  OBVIOUS
<1>2. x.score = 0
  BY <1>1, Zenon DEF Produce
<1>3. Len(rows) \in Nat /\ DOMAIN rows = 1 .. Len(rows)
  BY ListDomain DEF Scored
<1>4. PICK new : new = Append(rows, x)
  OBVIOUS
<1>5. /\ IsList(new) /\ DOMAIN new = 1 .. Len(rows) + 1
      /\ \A i \in 1 .. Len(rows) : new[i] = rows[i]
      /\ new[Len(rows) + 1] = x
  BY <1>4, ListAppended DEF Scored
<1>6. ASSUME NEW i \in DOMAIN new PROVE new[i].score \in Int
  <2>1. i = Len(rows) + 1 \/ i \in 1 .. Len(rows)
    BY <1>3, <1>5
  <2> QED BY <1>2, <1>3, <1>5, <2>1 DEF Scored
<1>7. AliasOne(0, rows, p) \in {rows, new}
  BY <1>1, <1>4 DEF AliasOne, AddAlias
<1> QED BY <1>5, <1>6, <1>7 DEF Scored

(* All aliases of a tool leave its rows scored.                            *)
LEMMA AliasesFit ==
  ASSUME NEW rows, Scored(rows), NEW link, IsList(link.params)
  PROVE  Scored(AliasAll(0, rows, link))
<1>1. PICK params : params = FromResponse(link)
  OBVIOUS
<1>2. IsList(params)
  BY <1>1, FilteredList DEF FromResponse
<1>3. PICK n \in Nat : DOMAIN params = 1 .. n
  BY <1>2, ListDomain
<1>4. AliasAll(0, rows, link) = Aliasing!Result(0, rows, params)
  BY <1>1 DEF AliasAll, AliasOne, FoldLeft, MapThenFoldSet, Max, Aliasing!Result,
         Aliasing!MapThenFoldSet, Aliasing!Largest
<1>5. \A i \in 1 .. n : \A acc : RowsSoFar(0, i - 1, acc) => RowsSoFar(0, i, AliasOne(0, acc, params[i]))
  BY AliasFits DEF RowsSoFar
<1>6. RowsSoFar(0, 0, rows)
  BY DEF RowsSoFar
<1> QED BY <1>3, <1>4, <1>5, <1>6, Aliasing!FoldInduction DEF RowsSoFar

(* A tool with its links' aliases is a tool.                               *)
LEMMA PromotedFits ==
  ASSUME NEW tool, IsTool(tool)
  PROVE  IsTool(Promoted(tool))
<1>1. PICK links : links = LinksOf(tool)
  OBVIOUS
<1>2. IsList(links) /\ ToSet(links) \subseteq ToSet(tool.links)
  BY <1>1, FilteredList DEF LinksOf, IsTool
<1>3. PICK n \in Nat : DOMAIN links = 1 .. n
  BY <1>2, ListDomain
<1>4. PICK rows : rows = WithLinkAliases(tool)
  OBVIOUS
<1>5. DOMAIN tool = {"name", "operation", "ref", "action", "pairs", "links", "consumes", "produces"}
  BY DEF IsTool
<1>6. rows = AliasingAll!Result(0, tool.produces, links)
  BY <1>1, <1>4 DEF WithLinkAliases, AliasAll, FoldLeft, MapThenFoldSet, Max, AliasingAll!Result,
         AliasingAll!MapThenFoldSet, AliasingAll!Largest
<1>7. ASSUME NEW i \in 1 .. n PROVE IsList(links[i].params)
  <2>1. PICK j \in DOMAIN tool.links : links[i] = tool.links[j]
    BY <1>2, <1>3 DEF ToSet
  <2> QED BY <2>1 DEF IsTool
<1>8. \A i \in 1 .. n : \A acc : RowsSoFar(0, i - 1, acc) => RowsSoFar(0, i, AliasAll(0, acc, links[i]))
  BY <1>7, AliasesFit DEF RowsSoFar
<1>9. RowsSoFar(0, 0, tool.produces)
  BY DEF RowsSoFar, Scored, IsTool
<1>10. Scored(rows)
  BY <1>3, <1>6, <1>8, <1>9, AliasingAll!FoldInduction DEF RowsSoFar
<1>11. Promoted(tool) = [tool EXCEPT !.produces = rows]
  BY <1>4 DEF Promoted
<1>12. PICK t : t = [tool EXCEPT !.produces = rows]
  OBVIOUS
<1>13. /\ DOMAIN t = DOMAIN tool /\ t.produces = rows /\ t.name = tool.name
       /\ t.pairs = tool.pairs /\ t.links = tool.links /\ t.consumes = tool.consumes
  BY <1>5, <1>12
<1> QED BY <1>5, <1>10, <1>11, <1>12, <1>13 DEF IsTool, Scored
-----------------------------------------------------------------------------
(* What is written grows: the aliases of a workflow add to what its tools  *)
(* produce, and a merged run adds its record.  Everything stated stays so. *)
Wider(w, v) ==
  /\ \A p : Stated(w, p) \subseteq Stated(v, p)
  /\ \A p, e : LinkNeverGuesses(w, p, e) => LinkNeverGuesses(v, p, e)

LEMMA GroundedStays ==
  ASSUME NEW w, NEW v, Wider(w, v), NEW g, Grounded(w, g)
  PROVE  Grounded(v, g)
<1> SUFFICES ASSUME NEW p \in DOMAIN g PROVE Grounds(v, p, g[p])
  BY DEF Grounded
<1>1. PICK e : e = g[p]
  OBVIOUS
<1>2. Grounds(w, p, e)
  BY <1>1 DEF Grounded
<1>3. Stated(w, p) \subseteq Stated(v, p)
  BY DEF Wider
<1>4. FlowIsStated(v, p, e)
  BY <1>2, <1>3 DEF Grounds, FlowIsStated
<1>5. LinkNeverGuesses(v, p, e)
  BY <1>2 DEF Grounds, Wider
<1> QED BY <1>1, <1>2, <1>4, <1>5 DEF Grounds

Same(t, u) ==
  /\ DOMAIN u = DOMAIN t /\ u.name = t.name /\ u.operation = t.operation
  /\ u.ref = t.ref /\ u.links = t.links /\ u.consumes = t.consumes

(* The tools b are those of a, with what they produced and more.           *)
Grown(a, b) ==
  /\ DOMAIN b = DOMAIN a
  /\ \A i \in DOMAIN a :
       /\ Same(a[i], b[i]) /\ "produces" \in DOMAIN b[i] /\ IsList(b[i].produces)
       /\ ToSet(a[i].produces) \subseteq ToSet(b[i].produces)

LEMMA GrownWider ==
  ASSUME NEW w, NEW v, Grown(w.tools, v.tools), v.workflows = w.workflows, v.attempts = w.attempts
  PROVE  Wider(w, v)
<1>1. ASSUME NEW p PROVE ContractFlows(w.tools, p) \subseteq ContractFlows(v.tools, p)
  <2> DEFINE Called(tools, name) == {i \in DOMAIN tools : tools[i].name = name}
             Produced(tools) == UNION {ToSet(tools[i].produces) : i \in Called(tools, p[2])}
             Consumed(tools) == UNION {ToSet(tools[i].consumes) : i \in Called(tools, p[1])}
  <2>1. \A name : Called(w.tools, name) = Called(v.tools, name)
    BY DEF Grown, Same
  <2>2. \A i \in DOMAIN w.tools : /\ ToSet(w.tools[i].produces) \subseteq ToSet(v.tools[i].produces)
                                  /\ ToSet(w.tools[i].consumes) = ToSet(v.tools[i].consumes)
    BY DEF Grown, Same
  <2>3. Called(w.tools, p[1]) \subseteq DOMAIN w.tools /\ Called(w.tools, p[2]) \subseteq DOMAIN w.tools
    OBVIOUS
  <2>4. Produced(w.tools) \subseteq Produced(v.tools)
    <3> HIDE DEF Called
    <3> SUFFICES ASSUME NEW x \in Produced(w.tools) PROVE x \in Produced(v.tools)
      OBVIOUS
    <3>1. PICK i \in Called(w.tools, p[2]) : x \in ToSet(w.tools[i].produces)
      OBVIOUS
    <3>2. i \in Called(v.tools, p[2]) /\ x \in ToSet(v.tools[i].produces)
      BY <2>1, <2>2, <2>3, <3>1
    <3> QED BY <3>2
  <2>5. Consumed(w.tools) \subseteq Consumed(v.tools)
    <3> HIDE DEF Called
    <3> SUFFICES ASSUME NEW x \in Consumed(w.tools) PROVE x \in Consumed(v.tools)
      OBVIOUS
    <3>1. PICK i \in Called(w.tools, p[1]) : x \in ToSet(w.tools[i].consumes)
      OBVIOUS
    <3>2. i \in Called(v.tools, p[1]) /\ x \in ToSet(v.tools[i].consumes)
      BY <2>1, <2>2, <2>3, <3>1
    <3> QED BY <3>2
  <2>6. \A tools : ContractFlows(tools, p) =
          {<<FromPath(x[1]), x[2].field>> :
             x \in {x \in Produced(tools) \X Consumed(tools) :
                      IndexKeys(x[1]) \cap IndexKeys(x[2]) # {}}}
    BY DEF ContractFlows
  <2> HIDE DEF Produced, Consumed
  <2> QED BY <2>4, <2>5, <2>6
<1>2. \A p : Stated(w, p) \subseteq Stated(v, p)
  BY <1>1 DEF Stated
<1>3. ASSUME NEW p, NEW e, LinkNeverGuesses(w, p, e), "openapi_link" \in e.sources
      PROVE  LinkNeverGuesses(v, p, e)
  <2>1. PICK i \in DOMAIN w.tools, k \in DOMAIN w.tools :
          /\ w.tools[i].name = p[2] /\ w.tools[k].name = p[1]
          /\ \E n \in DOMAIN w.tools[i].links : Named(w.tools[i].links[n], w.tools[k], w.tools)
    BY <1>3 DEF LinkNeverGuesses
  <2>2. PICK n \in DOMAIN w.tools[i].links : Named(w.tools[i].links[n], w.tools[k], w.tools)
    BY <2>1
  <2>3. PICK link : link = w.tools[i].links[n]
    OBVIOUS
  <2>4. i \in DOMAIN v.tools /\ k \in DOMAIN v.tools /\ DOMAIN v.tools = DOMAIN w.tools
    BY DEF Grown
  <2>5. /\ v.tools[i].name = p[2] /\ v.tools[k].name = p[1] /\ n \in DOMAIN v.tools[i].links
        /\ v.tools[i].links[n] = link
    BY <2>1, <2>3 DEF Grown, Same
  <2>6. \A j \in DOMAIN w.tools : /\ v.tools[j].name = w.tools[j].name /\ v.tools[j].ref = w.tools[j].ref
                                  /\ v.tools[j].operation = w.tools[j].operation
    BY DEF Grown, Same
  <2>7. Named(link, v.tools[k], v.tools)
    BY <2>2, <2>3, <2>4, <2>6 DEF Named, Only
  <2> QED BY <2>4, <2>5, <2>7 DEF LinkNeverGuesses
<1>4. \A p, e : LinkNeverGuesses(w, p, e) => LinkNeverGuesses(v, p, e)
  BY <1>3 DEF LinkNeverGuesses
<1> QED BY <1>2, <1>4 DEF Wider

LEMMA RecordedWider ==
  ASSUME NEW w, NEW v, v.tools = w.tools, v.workflows = w.workflows, IsList(w.attempts),
         NEW a, v.attempts = Append(w.attempts, a)
  PROVE  Wider(w, v)
<1>1. DOMAIN w.attempts \subseteq DOMAIN v.attempts /\ \A i \in DOMAIN w.attempts : v.attempts[i] = w.attempts[i]
  BY ListDomain, ListAppended
<1>2. ASSUME NEW p PROVE RunFlows(w.attempts, p) \subseteq RunFlows(v.attempts, p)
  <2> DEFINE Of(known, i) == {FlowOf(e) : e \in {e \in known[i].observed : PairOf(e) = p}}
  <2>1. \A i \in DOMAIN w.attempts : Of(w.attempts, i) = Of(v.attempts, i)
    BY <1>1
  <2>2. \A known : RunFlows(known, p) = UNION {Of(known, i) : i \in DOMAIN known}
    BY DEF RunFlows
  <2> HIDE DEF Of
  <2> SUFFICES ASSUME NEW f \in RunFlows(w.attempts, p) PROVE f \in RunFlows(v.attempts, p)
    OBVIOUS
  <2>3. PICK i \in DOMAIN w.attempts : f \in Of(w.attempts, i)
    BY <2>2
  <2>4. i \in DOMAIN v.attempts /\ f \in Of(v.attempts, i)
    BY <1>1, <2>1, <2>3
  <2> QED BY <2>2, <2>4
<1>3. \A p : Stated(w, p) \subseteq Stated(v, p)
  BY <1>2 DEF Stated
<1> QED BY <1>3 DEF Wider, LinkNeverGuesses

(* One binding of a workflow.                                              *)
LEMMA AliasedGrows ==
  ASSUME NEW tool, "produces" \in DOMAIN tool, IsList(tool.produces), NEW r, NEW b, NEW tools
  PROVE  LET t == Aliased(tool, r, b, tools) IN
         /\ Same(tool, t) /\ "produces" \in DOMAIN t /\ IsList(t.produces)
         /\ ToSet(tool.produces) \subseteq ToSet(t.produces)
<1>1. PICK x : x = [Produce(b.field, b.from) EXCEPT !.sem = TagOf(r.target, b.field, tools)]
  OBVIOUS
<1>2. PICK rows : rows = <<x>> \o tool.produces
  OBVIOUS
<1>3. PICK one : one = <<x>>
  OBVIOUS
<1>4. IsList(rows) /\ ToSet(tool.produces) \subseteq ToSet(rows)
  <2>1. one \in Seq({x})
    BY <1>3
  <2>2. IsList(one)
    BY <2>1, ListFrom
  <2>3. PICK old : old = tool.produces
    OBVIOUS
  <2>4. rows = one \o old /\ IsList(old)
    BY <1>2, <1>3, <2>3
  <2>5. IsList(rows) /\ ToSet(old) \subseteq ToSet(rows)
    BY <2>2, <2>4, Joined
  <2> QED BY <2>3, <2>5
<1>5. PICK t : t = [tool EXCEPT !.produces = rows]
  OBVIOUS
<1>6. Same(tool, t) /\ "produces" \in DOMAIN t /\ t.produces = rows
  BY <1>5 DEF Same
<1>7. Aliased(tool, r, b, tools) \in {tool, t}
  BY <1>1, <1>2, <1>5 DEF Aliased
<1>8. Same(tool, tool)
  BY DEF Same
<1> QED BY <1>4, <1>6, <1>7, <1>8

GrownSoFar(c, i, tools) == Grown(c.from, tools)
BindOne(c, tools, b) == [i \in DOMAIN tools |-> Aliased(tools[i], c.flow, b, tools)]
BindAll(c, tools, r) == WithAliases(tools, r)
Binding == INSTANCE FoldInduction WITH Op <- BindOne, Good <- GrownSoFar
BindingAll == INSTANCE FoldInduction WITH Op <- BindAll, Good <- GrownSoFar

(* The bindings of one workflow, and of all of them.                       *)
LEMMA AliasesGrow ==
  ASSUME NEW a, NEW tools, Grown(a, tools), NEW r, IsList(r.bindings)
  PROVE  Grown(a, WithAliases(tools, r))
<1>1. PICK n \in Nat : DOMAIN r.bindings = 1 .. n
  BY ListDomain
<1>2. PICK c : c = [from |-> a, flow |-> r]
  OBVIOUS
<1>3. WithAliases(tools, r) = Binding!Result(c, tools, r.bindings)
  BY <1>2 DEF WithAliases, BindOne, FoldLeft, MapThenFoldSet, Max, Binding!Result,
         Binding!MapThenFoldSet, Binding!Largest
<1>4. ASSUME NEW acc, Grown(a, acc), NEW b
      PROVE  Grown(a, BindOne(c, acc, b))
  <2>1. PICK new : new = BindOne(c, acc, b)
    OBVIOUS
  <2>2. DOMAIN new = DOMAIN a /\ \A i \in DOMAIN a : new[i] = Aliased(acc[i], r, b, acc)
    BY <1>2, <1>4, <2>1 DEF BindOne, Grown
  <2>3. ASSUME NEW i \in DOMAIN a
        PROVE  /\ Same(a[i], new[i]) /\ "produces" \in DOMAIN new[i] /\ IsList(new[i].produces)
               /\ ToSet(a[i].produces) \subseteq ToSet(new[i].produces)
    <3>1. /\ Same(a[i], acc[i]) /\ "produces" \in DOMAIN acc[i] /\ IsList(acc[i].produces)
          /\ ToSet(a[i].produces) \subseteq ToSet(acc[i].produces)
      BY <1>4 DEF Grown
    <3>2. /\ Same(acc[i], new[i]) /\ "produces" \in DOMAIN new[i] /\ IsList(new[i].produces)
          /\ ToSet(acc[i].produces) \subseteq ToSet(new[i].produces)
      BY <2>2, <3>1, AliasedGrows
    <3>3. Same(a[i], new[i])
      BY <3>1, <3>2 DEF Same
    <3> QED BY <3>1, <3>2, <3>3
  <2> QED BY <2>1, <2>2, <2>3 DEF Grown
<1>5. \A i \in 1 .. n : \A acc : GrownSoFar(c, i - 1, acc) => GrownSoFar(c, i, BindOne(c, acc, r.bindings[i]))
  BY <1>2, <1>4 DEF GrownSoFar
<1>6. GrownSoFar(c, 0, tools)
  BY <1>2 DEF GrownSoFar
<1> QED BY <1>1, <1>2, <1>3, <1>5, <1>6, Binding!FoldInduction DEF GrownSoFar

LEMMA AllAliasesGrow ==
  ASSUME NEW tools, AreTools(tools), NEW flows, IsList(flows),
         \A i \in DOMAIN flows : IsList(flows[i].bindings)
  PROVE  Grown(tools, FoldLeft(WithAliases, tools, flows))
<1>1. PICK n \in Nat : DOMAIN flows = 1 .. n
  BY ListDomain
<1>2. PICK c : c = [from |-> tools]
  OBVIOUS
<1>3. FoldLeft(WithAliases, tools, flows) = BindingAll!Result(c, tools, flows)
  BY DEF BindAll, FoldLeft, MapThenFoldSet, Max, BindingAll!Result,
         BindingAll!MapThenFoldSet, BindingAll!Largest
<1>4. \A i \in 1 .. n : \A acc : GrownSoFar(c, i - 1, acc) => GrownSoFar(c, i, BindAll(c, acc, flows[i]))
  BY <1>1, <1>2, AliasesGrow DEF GrownSoFar, BindAll
<1>5. Grown(tools, tools)
  BY DEF Grown, Same, AreTools, IsTool
<1>6. GrownSoFar(c, 0, tools)
  BY <1>2, <1>5 DEF GrownSoFar
<1> QED BY <1>1, <1>2, <1>3, <1>4, <1>6, BindingAll!FoldInduction DEF GrownSoFar
-----------------------------------------------------------------------------
(* The graph at any time: its edges are edges that state what was written, *)
(* from the end of the ingest on it follows the workflows, and what the    *)
(* user deleted is deleted.                                                *)
StagesBefore == {"detect", "pair", "link", "contract", "workflow"}

Ingested ==
  /\ collection \in Collections
  /\ stage \in StagesBefore \cup {"ready"}
  /\ stage # "ready" => AreTools(schemas)
  /\ stage = "detect" => DOMAIN graph = {}

Followed ==
  stage = "ready" =>
    \A i \in DOMAIN collection.workflows : Follows(graph, collection.workflows[i])

StaysRemoved ==
  /\ removed \subseteq DOMAIN graph /\ \A p \in removed : graph[p].deleted
  /\ stage # "ready" => removed = {} /\ held = <<>>

HeldEdges == \A k \in DOMAIN held : \A e \in held[k].attempt.observed : IsObserved(e)

GraphInv ==
  /\ Ingested /\ IsGraph(graph) /\ Grounded(Written, graph)
  /\ Followed /\ StaysRemoved /\ HeldEdges

(* A collection begins without edges.                                      *)
LEMMA InitGraph == Init => GraphInv
<1> SUFFICES ASSUME Init PROVE GraphInv
  OBVIOUS
<1>1. /\ collection \in Collections /\ schemas = collection.tools /\ graph = <<>>
      /\ stage = "detect" /\ held = <<>> /\ removed = {}
  BY DEF Init, IngestInit
<1>2. AreTools(schemas)
  BY <1>1, CollectionsAssumption DEF AreTools
<1>3. DOMAIN <<>> = {}
  OBVIOUS
<1> QED BY <1>1, <1>2, <1>3 DEF GraphInv, Ingested, StagesBefore, IsGraph, Grounded, Followed,
                                StaysRemoved, HeldEdges

(* The ingest, stage by stage.                                             *)
LEMMA BuildFits == GraphInv /\ Build => GraphInv'
<1> SUFFICES ASSUME GraphInv, Build PROVE GraphInv'
  OBVIOUS
<1>1. UNCHANGED <<collection, held, removed, attempts>>
  BY DEF Build, Ingest, Detect, Pair, Link, Contract, Workflow, learningVars
<1>2. HeldEdges'
  BY <1>1 DEF GraphInv, HeldEdges
<1>3. collection \in Collections
  BY DEF GraphInv, Ingested
<1>4. stage # "ready" /\ AreTools(schemas) /\ removed = {} /\ held = <<>>
  BY DEF GraphInv, Ingested, StaysRemoved, Build, Ingest, Detect, Pair, Link, Contract, Workflow
<1>5. StaysRemoved'
  BY <1>1, <1>4 DEF StaysRemoved
<1>6. PICK w : w = Written
  OBVIOUS
<1>7. /\ w.tools = schemas /\ w.workflows = collection.workflows /\ w.attempts = attempts
      /\ Sound(w, graph)
  BY <1>6 DEF GraphInv, Sound, Written
<1>8. PICK v : v = Written'
  OBVIOUS
<1>9. v.tools = schemas' /\ v.workflows = collection.workflows /\ v.attempts = attempts
  BY <1>1, <1>8 DEF Written
<1>10. ASSUME Sound(v, graph'), stage' \in (StagesBefore \cup {"ready"}) \ {"detect"},
              stage' # "ready" => AreTools(schemas'), Followed'
       PROVE  GraphInv'
  <2>1. IsGraph(graph)' /\ Grounded(Written, graph)'
    BY <1>8, <1>10 DEF Sound
  <2>2. Ingested'
    BY <1>1, <1>3, <1>10 DEF Ingested
  <2> QED BY <1>2, <1>5, <1>10, <2>1, <2>2 DEF GraphInv
<1>11. schemas' = schemas => v = w
  BY <1>1, <1>6, <1>8 DEF Written
<1>12. stage' # "ready" => Followed'
  BY DEF Followed
<1>13. CASE Detect
  <2>1. Sound(v, graph')
    <3>1. Sound(v, graph)
      BY <1>7, <1>13 DEF GraphInv, Ingested, Detect, Sound, Grounded
    <3>2. CASE Len(schemas) < 2
      BY <1>13, <3>1, <3>2 DEF Detect
    <3>3. CASE ~(Len(schemas) < 2)
      <4>1. graph' = FoldLeft(PutDetected, graph, collection.detected)
        BY <1>13, <3>3 DEF Detect
      <4>2. /\ IsList(collection.detected)
            /\ \A i \in DOMAIN collection.detected :
                 /\ collection.detected[i].source # collection.detected[i].target
                 /\ collection.detected[i].conf \in Int
        BY <1>3, CollectionsAssumption
      <4>3. Sound(v, FoldLeft(PutDetected, graph, collection.detected))
        BY <3>1, <4>2, DetectedFit
      <4> QED BY <4>1, <4>3
    <3> QED BY <3>2, <3>3
  <2>2. AreTools(schemas')
    <3>1. Len(schemas) \in Nat /\ DOMAIN schemas = 1 .. Len(schemas)
      BY <1>4, ListDomain DEF AreTools
    <3>2. schemas' = [i \in DOMAIN schemas |-> Promoted(schemas[i])]
      BY <1>13 DEF Detect
    <3>3. \A i \in DOMAIN schemas' : IsTool(schemas'[i])
      BY <1>4, <3>2, PromotedFits DEF AreTools
    <3>4. schemas' = [i \in 1 .. Len(schemas) |-> schemas'[i]]
      BY <3>1, <3>2
    <3>5. IsList(schemas')
      BY <3>1, <3>4, ListOf
    <3> QED BY <3>3, <3>5 DEF AreTools
  <2>3. stage' \in {"link", "pair"}
    BY <1>13 DEF Detect
  <2> QED BY <1>10, <1>12, <2>1, <2>2, <2>3 DEF StagesBefore
<1>14. CASE Pair
  <2>1. graph' = WithPairs(graph, schemas) /\ schemas' = schemas /\ stage' = "link"
    BY <1>14 DEF Pair
  <2>2. Sound(v, graph')
    BY <1>4, <1>7, <1>11, <2>1, PairsFit
  <2> QED BY <1>4, <1>10, <1>12, <2>1, <2>2 DEF StagesBefore
<1>15. CASE Link
  <2>1. graph' = WithLinks(graph, schemas) /\ schemas' = schemas /\ stage' = "contract"
    BY <1>15 DEF Link
  <2>2. Sound(w, WithLinks(graph, w.tools))
    BY <1>4, <1>7, LinksFit
  <2> QED BY <1>4, <1>7, <1>10, <1>11, <1>12, <2>1, <2>2 DEF StagesBefore
<1>16. CASE Contract
  <2>1. graph' = WithContracts(graph, schemas) /\ schemas' = schemas /\ stage' = "workflow"
    BY <1>16 DEF Contract
  <2>2. Sound(w, WithContracts(graph, w.tools))
    BY <1>4, <1>7, ContractsFit
  <2> QED BY <1>4, <1>7, <1>10, <1>11, <1>12, <2>1, <2>2 DEF StagesBefore
<1>17. CASE Workflow
  <2>1. /\ graph' = FoldLeft(PutWorkflow, graph, w.workflows) /\ stage' = "ready"
        /\ schemas' = FoldLeft(WithAliases, schemas, w.workflows)
    BY <1>7, <1>17 DEF Workflow
  <2>2. /\ IsList(w.workflows)
        /\ \A i \in DOMAIN w.workflows :
             w.workflows[i].source # w.workflows[i].target /\ IsList(w.workflows[i].bindings)
    BY <1>3, <1>7, CollectionsAssumption
  <2>3. PICK g : g = FoldLeft(PutWorkflow, graph, w.workflows)
    OBVIOUS
  <2>4. Sound(w, g) /\ \A i \in DOMAIN w.workflows : Follows(g, w.workflows[i])
    BY <1>7, <2>2, <2>3, WorkflowsFit
  <2>5. Grown(w.tools, v.tools)
    BY <1>4, <1>7, <1>9, <2>1, <2>2, AllAliasesGrow
  <2>6. Wider(w, v)
    BY <1>7, <1>9, <2>5, GrownWider
  <2>7. Sound(v, g)
    BY <2>4, <2>6, GroundedStays DEF Sound
  <2>8. Followed'
    BY <1>1, <1>7, <2>1, <2>3, <2>4 DEF Followed
  <2> QED BY <1>10, <2>1, <2>3, <2>7, <2>8
<1> QED BY <1>13, <1>14, <1>15, <1>16, <1>17 DEF Build, Ingest

(* The edges a run showed.                                                 *)
LEMMA ShownAreEdges ==
  ASSUME NEW run \in Runs, NEW f, NEW e \in AttemptOf(run, f).observed
  PROVE  IsObserved(e)
<1>1. PICK rows : rows = RowsOf(run.steps, f)
  OBVIOUS
<1>2. e \in TraceEdgesOf(run.steps, rows)
  BY <1>1 DEF AttemptOf
<1>3. PICK i \in DOMAIN run.steps, j \in DOMAIN run.steps : \E b :
        /\ e = Observation(run.steps[i].tool, run.steps[j].tool, b)
        /\ run.steps[i].tool # run.steps[j].tool
  <2> DEFINE D == DOMAIN run.steps
             B(i, j) == {b \in BindingRows(run.steps[j]) :
                           /\ b.head = run.steps[i].id /\ run.steps[i].tool # run.steps[j].tool
                           /\ {b.head, run.steps[j].id} \subseteq CompletedIds(rows)}
             O(i, j) == {Observation(run.steps[i].tool, run.steps[j].tool, b) : b \in B(i, j)}
  <2>1. PICK i \in D, j \in D : e \in O(i, j)
    BY <1>2 DEF TraceEdgesOf
  <2>2. PICK b \in B(i, j) : e = Observation(run.steps[i].tool, run.steps[j].tool, b)
    <3> HIDE DEF B
    <3> QED BY <2>1
  <2> QED BY <2>2
<1>4. PICK b : e = Observation(run.steps[i].tool, run.steps[j].tool, b)
  BY <1>3
<1>5. PICK flow : flow = [count |-> 1, from |-> b.field, field |-> b.field, link |-> FALSE,
                          stated |-> TRUE]
  OBVIOUS
<1>6. flow.count = 1 /\ ~flow.link
  BY <1>5, Zenon
<1>7. e = [source |-> run.steps[i].tool, target |-> run.steps[j].tool, relation |-> "requires",
           kind |-> "data", explicit |-> "", sources |-> {"run"}, conf |-> 50,
           strength |-> "INFERRED", layer |-> 5, flow |-> flow, manual |-> FALSE, deleted |-> FALSE]
  BY <1>4, <1>5 DEF Observation
<1>8. /\ DOMAIN e = EdgeFields /\ e.source = run.steps[i].tool /\ e.target = run.steps[j].tool
      /\ e.sources = {"run"} /\ e.conf = 50 /\ e.flow = flow /\ e.deleted = FALSE
  BY <1>7 DEF EdgeFields
<1>9. IsFiniteSet({"run"})
  BY FS_Singleton
<1>10. e.flow.count \in Int
  <2>1. 1 \in Int
    OBVIOUS
  <2> QED BY <1>6, <1>8, <2>1, Zenon
<1>11. e.conf \in Int
  <2>1. 50 \in Int
    OBVIOUS
  <2> QED BY <1>8, <2>1, Zenon
<1>12. e.source # e.target
  BY <1>3, <1>8
<1>13. e.deleted \in BOOLEAN
  BY <1>8
<1>14. IsEdge(e)
  BY <1>8, <1>9, <1>10, <1>11, <1>12, <1>13 DEF IsEdge
<1> QED BY <1>6, <1>8, <1>14 DEF IsObserved

(* A request shows edges and changes none.                                 *)
LEMMA RunShows == LearningInv /\ GraphInv /\ Run => GraphInv'
<1> SUFFICES ASSUME LearningInv, GraphInv, Run PROVE GraphInv'
  OBVIOUS
<1>1. PICK run \in Runs, f \in 0 .. 2 :
        held' = Append(held, [attempt |-> AttemptOf(run, f),
                              incoming |-> Learned(AttemptOf(run, f), attempts,
                                                   IF run.handing THEN store ELSE <<>>)])
  BY DEF Run
<1>2. UNCHANGED <<collection, schemas, graph, stage, removed, attempts>> /\ stage = "ready"
  BY DEF Run, Ready, ingestVars
<1>3. PICK a : a = AttemptOf(run, f)
  OBVIOUS
<1>4. PICK h : h = [attempt |-> a, incoming |-> Learned(a, attempts,
                                                        IF run.handing THEN store ELSE <<>>)]
  OBVIOUS
<1>5. h.attempt = a
  BY <1>4
<1>6. /\ DOMAIN held' = (DOMAIN held) \cup {Len(held) + 1}
      /\ \A k \in DOMAIN held : held'[k] = held[k]
      /\ held'[Len(held) + 1] = h
  <2>1. held' = Append(held, h) /\ IsList(held)
    BY <1>1, <1>3, <1>4 DEF LearningInv, AttemptsKept
  <2> QED BY <2>1, ListDomain, ListAppended
<1>7. \A e \in h.attempt.observed : IsObserved(e)
  BY <1>3, <1>5, ShownAreEdges
<1>8. HeldEdges'
  BY <1>6, <1>7 DEF GraphInv, HeldEdges
<1>9. Written' = Written
  BY <1>2 DEF Written
<1> QED BY <1>2, <1>8, <1>9 DEF GraphInv, Ingested, Followed, StaysRemoved

(* A merge of what a request showed keeps the graph.                       *)
LEMMA KeepShows == LearningInv /\ GraphInv /\ Keep => GraphInv'
<1> SUFFICES ASSUME LearningInv, GraphInv, Keep PROVE GraphInv'
  OBVIOUS
<1>1. PICK n \in DOMAIN held : KeepAll(held[n]) /\ held' = RemoveAt(held, n)
  BY DEF Keep
<1>2. UNCHANGED <<collection, schemas, stage, removed>>
  BY DEF Keep
<1>3. PICK seen : seen = SetToSeq(held[n].attempt.observed)
  OBVIOUS
<1>4. IsFiniteSet(held[n].attempt.observed) /\ \A e \in held[n].attempt.observed : IsObserved(e)
  BY DEF LearningInv, AttemptsKept, IsHeld, GraphInv, HeldEdges
<1>5. IsList(seen) /\ ToSet(seen) = held[n].attempt.observed
  BY <1>3, <1>4, ListOfSet
<1>6. PICK g : g = FoldLeft(MergeEdge, graph, seen)
  OBVIOUS
<1>7. Sound(Written', g) /\ Keeps(graph, g)
  <2>1. PICK w : w = Written
    OBVIOUS
  <2>2. PICK v : v = Written'
    OBVIOUS
  <2>3. PICK a : a = held[n].attempt
    OBVIOUS
  <2>4. w.attempts = attempts /\ IsList(w.attempts) /\ IsGraph(graph) /\ Grounded(w, graph)
    BY <2>1 DEF Written, LearningInv, AttemptsKept, GraphInv
  <2>5. v.tools = w.tools /\ v.workflows = w.workflows /\ v.attempts = Append(w.attempts, a)
    BY <1>1, <1>2, <2>1, <2>2, <2>3 DEF Written, KeepAll
  <2>6. Wider(w, v)
    BY <2>4, <2>5, RecordedWider
  <2>7. Sound(v, graph)
    BY <2>4, <2>6, GroundedStays DEF Sound
  <2>8. Len(w.attempts) + 1 \in DOMAIN v.attempts /\ v.attempts[Len(w.attempts) + 1] = a
    <3>1. Len(w.attempts) \in Nat
      BY <2>4, ListDomain
    <3> QED BY <2>4, <2>5, <3>1, ListAppended
  <2>9. PICK k \in DOMAIN v.attempts : v.attempts[k] = a
    BY <2>8
  <2>10. ToSet(seen) \subseteq v.attempts[k].observed /\ \A e \in ToSet(seen) : IsObserved(e)
    BY <1>4, <1>5, <2>3, <2>9
  <2>11. Sound(v, g) /\ Keeps(graph, g)
    BY <1>5, <1>6, <2>7, <2>10, ObservedFit
  <2> QED BY <2>2, <2>11
<1>8. graph' = g
  BY <1>1, <1>3, <1>6 DEF KeepAll
<1>9. stage = "ready"
  <2>1. DOMAIN <<>> = {}
    OBVIOUS
  <2> QED BY <1>1, <2>1 DEF GraphInv, StaysRemoved
<1>10. StaysRemoved' /\ Followed'
  BY <1>2, <1>7, <1>8, <1>9 DEF GraphInv, StaysRemoved, Followed, Follows, Keeps
<1>11. HeldEdges'
  <2>1. held \in Seq(ToSet(held)) /\ DOMAIN held = 1 .. Len(held) /\ Len(held) \in Nat
    BY ListDomain DEF LearningInv, AttemptsKept, IsList
  <2>2. held' = SubSeq(held, 1, n - 1) \o SubSeq(held, n + 1, Len(held))
    BY <1>1 DEF RemoveAt
  <2>3. held' \in Seq(ToSet(held))
    BY <2>1, <2>2
  <2>4. \A k \in DOMAIN held' : held'[k] \in ToSet(held)
    BY <2>3
  <2>5. \A x \in ToSet(held) : \A e \in x.attempt.observed : IsObserved(e)
    BY DEF ToSet, GraphInv, HeldEdges
  <2> QED BY <2>4, <2>5 DEF HeldEdges
<1>12. IsGraph(graph)' /\ Grounded(Written, graph)'
  BY <1>7, <1>8 DEF Sound
<1>13. Ingested'
  BY <1>2, <1>9 DEF GraphInv, Ingested
<1> QED BY <1>10, <1>11, <1>12, <1>13 DEF GraphInv

(* What the user deletes is marked, and nothing else changes.              *)
LEMMA DeleteFits == GraphInv /\ DeleteEdge => GraphInv'
<1> SUFFICES ASSUME GraphInv, DeleteEdge PROVE GraphInv'
  OBVIOUS
<1>1. PICK p \in DOMAIN graph : graph' = [graph EXCEPT ![p].deleted = TRUE] /\ removed' = {p}
  BY DEF DeleteEdge
<1>2. UNCHANGED <<collection, schemas, stage, held, attempts>> /\ stage = "ready"
  BY DEF DeleteEdge, Ready
<1>3. /\ IsGraph(graph') /\ DOMAIN graph' = DOMAIN graph /\ graph'[p].deleted
      /\ \A q \in DOMAIN graph : graph'[q].explicit = graph[q].explicit
      /\ \A q \in DOMAIN graph : graph'[q].flow = graph[q].flow /\ graph'[q].sources = graph[q].sources
  BY <1>1, DeletionFits DEF GraphInv
<1>4. Followed' /\ StaysRemoved'
  BY <1>1, <1>2, <1>3 DEF GraphInv, Followed, Follows, StaysRemoved
<1>5. Grounded(Written, graph)'
  <2>1. Written' = Written
    BY <1>2 DEF Written
  <2>2. Grounded(Written, graph')
    BY <1>3, WrittenSound DEF GraphInv
  <2> QED BY <2>1, <2>2
<1> QED BY <1>2, <1>3, <1>4, <1>5 DEF GraphInv, Ingested, HeldEdges

(* Every action keeps the graph.                                           *)
LEMMA NextGraph == LearningInv /\ GraphInv /\ [Next]_vars => GraphInv'
<1> SUFFICES ASSUME LearningInv, GraphInv, [Next]_vars PROVE GraphInv'
  OBVIOUS
<1>1. ASSUME UNCHANGED <<collection, schemas, graph, stage, held, removed, attempts>> PROVE GraphInv'
  <2>1. Written' = Written
    BY <1>1 DEF Written
  <2> QED BY <1>1, <2>1 DEF GraphInv, Ingested, Followed, StaysRemoved, HeldEdges
<1>2. CASE Build
  BY <1>2, BuildFits
<1>3. CASE Trace
  BY <1>1, <1>3 DEF Trace, ingestVars, learningVars
<1>4. CASE Run
  BY <1>4, RunShows
<1>5. CASE Keep
  BY <1>5, KeepShows
<1>6. CASE Decide
  BY <1>1, <1>6 DEF Decide, ingestVars
<1>7. CASE DeleteEdge
  BY <1>7, DeleteFits
<1>8. CASE UNCHANGED vars
  BY <1>1, <1>8 DEF vars, ingestVars, learningVars
<1> QED BY <1>2, <1>3, <1>4, <1>5, <1>6, <1>7, <1>8 DEF Next

(* _put_edge and merge_graph_edges, through every stage of an ingestion    *)
(* and after every run: well-formed edges between two tools, no stated     *)
(* direction and no deletion taken back.                                   *)
THEOREM GraphIsSound == Spec => []GraphInv
<1>1. Init => LearningInv /\ GraphInv
  BY InitLearning, InitGraph
<1>2. LearningInv /\ GraphInv /\ [Next]_vars => LearningInv' /\ GraphInv'
  BY NextLearning, NextGraph
<1> QED BY <1>1, <1>2, PTL DEF Spec

(* Whatever stages an ingestion puts an edge in, in whatever order runs are *)
(* merged into it: what it says of the value one tool passes to another is *)
(* one statement of a document or a run, and a response link leads to the  *)
(* tool it names (_put_edge, merge_graph_edges,                            *)
(* _resolve_openapi_link_target).                                          *)
THEOREM EdgesAlwaysGrounded == Spec => []EdgesAreGrounded
<1>1. GraphInv => EdgesAreGrounded
  BY DEF GraphInv, Grounded, Grounds, EdgesAreGrounded
<1> QED BY <1>1, GraphIsSound, PTL

(* Whatever runs end, in whatever order their records are merged, the word *)
(* of the operator stands: on every suggestion that is kept, and on every  *)
(* edge of the graph.                                                      *)
THEOREM OperatorAlwaysRules == Spec => []OperatorRules
<1>1. GraphInv => DeletedStaysDeleted
  BY DEF GraphInv, StaysRemoved, DeletedStaysDeleted
<1>2. LearningInv /\ GraphInv => OperatorRules
  BY <1>1, OperatorIsHeard DEF OperatorRules
<1> QED BY <1>2, LearningIsSound, GraphIsSound, PTL
-----------------------------------------------------------------------------
(* Edges between listed tools.                                             *)
Listed(e) == IsEdge(e) /\ {e.source, e.target} \subseteq ToSet(Names)

AreEdges(edges) == IsList(edges) /\ \A i \in DOMAIN edges : Listed(edges[i])

(* An edge seen from one of its ends, and from the other.                  *)
LEMMA OtherEnd ==
  ASSUME NEW e, IsEdge(e), NEW t, t \in {e.source, e.target}
  PROVE  LET u == Counterpart(e, t) IN
         /\ u \in {e.source, e.target} /\ u # t /\ Counterpart(e, u) = t
         /\ Role(e, t) = "predecessor" <=> Role(e, u) = "successor"
BY DEF IsEdge, Counterpart, Role

(* The keys of the edges that touch a tool.                                *)
LEMMA CandidateKeyFits ==
  ASSUME NEW edges, AreEdges(edges), NEW tool, NEW i \in Touching(edges, tool)
  PROVE  /\ CandidateKey(edges, tool, i, Names) \in Key(5)
         /\ CandidateKey(edges, tool, i, Names)[5] = i
<1>1. i \in DOMAIN edges /\ tool \in {edges[i].source, edges[i].target}
  BY DEF Touching
<1>2. i \in Int
  BY <1>1, ListDomain DEF AreEdges
<1>3. PICK e : e = edges[i]
  OBVIOUS
<1>4. Listed(e)
  BY <1>1, <1>3 DEF AreEdges
<1>5. Counterpart(e, tool) \in ToSet(Names)
  BY <1>1, <1>3, <1>4 DEF Listed, Counterpart
<1>6. PICK place \in Int : place = Place(Names, Counterpart(e, tool))
  BY <1>5, PlaceFits
<1>7. PICK rank \in Int : rank = EvidenceRank(e)
  BY DEF EvidenceRank
<1>8. PICK conf \in Int : conf = 0 - e.conf
  BY <1>4 DEF Listed, IsEdge
<1>9. PICK count \in Int : count = 0 - e.flow.count
  BY <1>4 DEF Listed, IsEdge
<1>10. CandidateKey(edges, tool, i, Names) = <<rank, conf, count, place, i>>
  BY <1>3, <1>6, <1>7, <1>8, <1>9 DEF CandidateKey
<1>11. <<rank, conf, count, place, i>> \in [1 .. 5 -> Int] /\ <<rank, conf, count, place, i>>[5] = i
  BY <1>2
<1> QED BY <1>10, <1>11 DEF Key

Keys(edges, tool) == [i \in Touching(edges, tool) |-> CandidateKey(edges, tool, i, Names)]

(* Any edges that touch a tool, in the order of their keys.                *)
LEMMA CandidatesSorted ==
  ASSUME NEW edges, AreEdges(edges), NEW tool, NEW S \in SUBSET Touching(edges, tool)
  PROVE  LET order == Sorted(S, Keys(edges, tool)) IN
         /\ IsFiniteSet(S) /\ Cardinality(S) \in Nat /\ Cardinality(S) <= Len(edges)
         /\ IsList(order) /\ DOMAIN order = 1 .. Cardinality(S) /\ ToSet(order) = S
<1>1. Len(edges) \in Nat /\ DOMAIN edges = 1 .. Len(edges)
  BY ListDomain DEF AreEdges
<1>2. /\ IsFiniteSet(1 .. Len(edges))
      /\ Cardinality(1 .. Len(edges)) = IF 1 > Len(edges) THEN 0 ELSE Len(edges) - 1 + 1
  BY <1>1, FS_Interval
<1>3. S \in SUBSET (1 .. Len(edges))
  BY <1>1 DEF Touching
<1>4. IsFiniteSet(S) /\ Cardinality(S) <= Cardinality(1 .. Len(edges))
  BY <1>2, <1>3, FS_Subset
<1>5. Cardinality(S) \in Nat /\ Cardinality(S) <= Len(edges)
  <2>1. Cardinality(S) \in Nat
    BY <1>4, FS_CardinalityType
  <2> QED BY <1>1, <1>2, <1>4, <2>1
<1>6. PICK key : key = Keys(edges, tool)
  OBVIOUS
<1>7. \A i \in S : key[i] \in Key(5) /\ key[i][5] = i
  BY <1>6, CandidateKeyFits DEF Keys
<1>8. \A i, j \in S : key[i] = key[j] => i = j
  BY <1>7
<1>9. 5 \in Nat
  OBVIOUS
<1>10. PICK order : order = Sorted(S, key)
  OBVIOUS
<1>11. IsList(order) /\ DOMAIN order = 1 .. Cardinality(S) /\ ToSet(order) = S
  BY <1>4, <1>7, <1>8, <1>9, <1>10, SortedList
<1> QED BY <1>4, <1>5, <1>6, <1>10, <1>11

(* The edges _candidate_groups picks for a role: the best to each tool.    *)
BestOf(edges, tool, role) ==
  {i \in With(edges, tool, role) :
     /\ Counterpart(edges[i], tool) \notin
          (IF role = "related" THEN {} ELSE Conflicting(edges, tool))
     /\ \A j \in With(edges, tool, role) \ {i} :
          Counterpart(edges[j], tool) = Counterpart(edges[i], tool)
            => Precedes(Keys(edges, tool)[i], Keys(edges, tool)[j])}

(* A list cut after m elements.                                            *)
LEMMA PrefixFits ==
  ASSUME NEW list, IsList(list), NEW m \in Nat, m <= Len(list)
  PROVE  LET cut == SubSeq(list, 1, m) IN
         /\ Len(cut) = m /\ ToSet(cut) \subseteq ToSet(list)
         /\ m = Len(list) => ToSet(cut) = ToSet(list)
<1>1. PICK cut : cut = SubSeq(list, 1, m)
  OBVIOUS
<1>2. Len(list) \in Nat /\ DOMAIN list = 1 .. Len(list) /\ list \in Seq(ToSet(list))
  BY ListDomain DEF IsList
<1>3. cut \in Seq(ToSet(list)) /\ DOMAIN cut = 1 .. m /\ \A i \in 1 .. m : cut[i] = list[i]
  BY <1>1, <1>2
<1>4. Len(cut) = m
  BY <1>1, <1>2
<1>5. \A i \in 1 .. m : i \in DOMAIN list
  BY <1>2
<1>6. ToSet(cut) \subseteq ToSet(list) /\ (m = Len(list) => ToSet(cut) = ToSet(list))
  BY <1>2, <1>3, <1>5 DEF ToSet
<1> QED BY <1>1, <1>4, <1>6

(* A list that is cut is full or whole.                                    *)
LEMMA UpToFits ==
  ASSUME NEW list, IsList(list), NEW max \in Nat
  PROVE  /\ ToSet(UpTo(list, max)) \subseteq ToSet(list)
         /\ Len(UpTo(list, max)) = max \/ ToSet(UpTo(list, max)) = ToSet(list)
<1>1. Len(list) \in Nat
  BY ListDomain
<1>2. PICK m : m = IF Len(list) < max THEN Len(list) ELSE max
  OBVIOUS
<1>3. m \in Nat /\ m <= Len(list) /\ (m = max \/ m = Len(list))
  BY <1>1, <1>2
<1>4. UpTo(list, max) = SubSeq(list, 1, m)
  BY <1>2 DEF UpTo
<1> QED BY <1>3, <1>4, PrefixFits

(* A group before it is cut.                                               *)
Whole(edges, tool, role) ==
  LET order == Sorted(BestOf(edges, tool, role), Keys(edges, tool))
  IN  [k \in DOMAIN order |-> Counterpart(edges[order[k]], tool)]

LEMMA GroupIsCut ==
  ASSUME NEW edges, NEW tool, NEW role, NEW max
  PROVE  Group(edges, tool, role, max, Names) = UpTo(Whole(edges, tool, role), max)
BY DEF Group, Whole, BestOf, Keys

(* Every tool of a whole group is shown by its best edge.                  *)
LEMMA GroupIsBest ==
  ASSUME NEW edges, AreEdges(edges), NEW tool, NEW role
  PROVE  /\ IsList(Whole(edges, tool, role))
         /\ ToSet(Whole(edges, tool, role))
              = {Counterpart(edges[i], tool) : i \in BestOf(edges, tool, role)}
<1> DEFINE best == BestOf(edges, tool, role)
<1>1. best \in SUBSET Touching(edges, tool)
  BY DEF BestOf, With
<1>2. PICK order : order = Sorted(best, Keys(edges, tool))
  OBVIOUS
<1>3. /\ Cardinality(best) \in Nat /\ Cardinality(best) <= Len(edges)
      /\ IsList(order) /\ DOMAIN order = 1 .. Cardinality(best) /\ ToSet(order) = best
  <2> HIDE DEF best
  <2> QED BY <1>1, <1>2, CandidatesSorted
<1>4. PICK group : group = Whole(edges, tool, role)
  OBVIOUS
<1>5. group = [k \in 1 .. Cardinality(best) |-> Counterpart(edges[order[k]], tool)]
  BY <1>2, <1>3, <1>4 DEF Whole
<1> HIDE DEF best
<1>6. IsList(group)
  BY <1>3, <1>5, ListOf
<1>9. DOMAIN group = DOMAIN order /\ \A k \in DOMAIN order : group[k] = Counterpart(edges[order[k]], tool)
  BY <1>3, <1>5
<1>10. \A i : i \in best <=> \E k \in DOMAIN order : order[k] = i
  BY <1>3 DEF ToSet
<1>11. ASSUME NEW x
       PROVE  x \in ToSet(group) <=> \E i \in best : x = Counterpart(edges[i], tool)
  <2>1. x \in ToSet(group) <=> \E k \in DOMAIN group : group[k] = x
    BY DEF ToSet
  <2> QED BY <1>9, <1>10, <2>1
<1> QED BY <1>4, <1>6, <1>11 DEF best

(* A tool of a group is one some edge of that role leads to, and none of   *)
(* the opposite role.                                                      *)
LEMMA GroupMember ==
  ASSUME NEW edges, AreEdges(edges), NEW tool, NEW role, role # "related",
         NEW max \in Nat, NEW u \in ToSet(Group(edges, tool, role, max, Names))
  PROVE  u \in Others(edges, tool, role) /\ u \notin Conflicting(edges, tool)
<1>1. PICK i \in BestOf(edges, tool, role) : u = Counterpart(edges[i], tool)
  BY GroupIsBest, GroupIsCut, UpToFits
<1>2. i \in With(edges, tool, role) /\ u \notin Conflicting(edges, tool)
  BY <1>1 DEF BestOf
<1> QED BY <1>1, <1>2 DEF Others

(* And every such tool is in the whole group.                              *)
LEMMA GroupHasAll ==
  ASSUME NEW edges, AreEdges(edges), NEW tool, NEW role, role # "related",
         NEW u \in Others(edges, tool, role), u \notin Conflicting(edges, tool)
  PROVE  u \in ToSet(Whole(edges, tool, role))
<1> DEFINE S == {i \in With(edges, tool, role) : Counterpart(edges[i], tool) = u}
           key == Keys(edges, tool)
<1>1. S # {}
  BY DEF Others
<1>2. S \in SUBSET Touching(edges, tool)
  BY DEF With
<1>3. IsFiniteSet(S)
  <2> HIDE DEF S
  <2> QED BY <1>2, CandidatesSorted
<1>4. \A i \in S : key[i] \in Key(5) /\ key[i][5] = i
  <2> HIDE DEF S
  <2> QED BY <1>2, CandidateKeyFits DEF Keys
<1>5. PICK i \in S : \A j \in S \ {i} : Precedes(key[i], key[j])
  <2> HIDE DEF S, key
  <2>1. \A i, j \in S : key[i] = key[j] => i = j
    BY <1>4
  <2>2. 5 \in Nat
    OBVIOUS
  <2> QED BY <1>1, <1>3, <1>4, <2>1, <2>2, LeastKey
<1>6. i \in BestOf(edges, tool, role)
  <2> HIDE DEF key
  <2> QED BY <1>5 DEF BestOf, key
<1> QED BY <1>5, <1>6, GroupIsBest

-----------------------------------------------------------------------------
(* The edges of the graph, in the order of their tools.                    *)
EdgesOf(g, s) ==
  LET targets == Filtered(Names, {t \in ToSet(Names) : <<s, t>> \in DOMAIN g})
  IN  [i \in DOMAIN targets |-> g[<<s, targets[i]>>]]

GatherOne(c, edges, s) == edges \o EdgesOf(c, s)
Gathered(c, i, edges) ==
  /\ AreEdges(edges)
  /\ \A j \in 1 .. i : \A t \in ToSet(Names) :
       <<Names[j], t>> \in DOMAIN c => c[<<Names[j], t>>] \in ToSet(edges)
Gathering == INSTANCE FoldInduction WITH Op <- GatherOne, Good <- Gathered

(* The edges from one tool to those listed.                                *)
LEMMA EdgesOfFit ==
  ASSUME NEW g, IsGraph(g), NEW s \in ToSet(Names)
  PROVE  /\ AreEdges(EdgesOf(g, s))
         /\ \A t \in ToSet(Names) : <<s, t>> \in DOMAIN g => g[<<s, t>>] \in ToSet(EdgesOf(g, s))
<1> DEFINE T == {t \in ToSet(Names) : <<s, t>> \in DOMAIN g}
<1>1. PICK targets : targets = Filtered(Names, T)
  OBVIOUS
<1>2. IsList(targets) /\ ToSet(targets) = ToSet(Names) \cap T
  <2> HIDE DEF T
  <2> QED BY <1>1, FilteredList, CollectionsAssumption
<1>3. Len(targets) \in Nat /\ DOMAIN targets = 1 .. Len(targets)
  BY <1>2, ListDomain
<1>4. PICK edges : edges = EdgesOf(g, s)
  OBVIOUS
<1>5. edges = [i \in DOMAIN targets |-> g[<<s, targets[i]>>]]
  BY <1>1, <1>4 DEF EdgesOf
<1>6. IsList(edges) /\ DOMAIN edges = DOMAIN targets
  <2>1. edges = [i \in 1 .. Len(targets) |-> edges[i]]
    BY <1>3, <1>5
  <2> QED BY <1>3, <1>5, <2>1, ListOf
<1>7. \A i \in DOMAIN targets : targets[i] \in T
  BY <1>2 DEF ToSet
<1>8. ASSUME NEW i \in DOMAIN edges PROVE Listed(edges[i])
  <2>1. PICK t \in T : edges[i] = g[<<s, t>>]
    BY <1>5, <1>6, <1>7
  <2>2. IsEdge(edges[i]) /\ <<s, t>> = <<edges[i].source, edges[i].target>>
    BY <2>1 DEF IsGraph, PairOf
  <2>3. edges[i].source = s /\ edges[i].target = t
    BY <2>2
  <2> QED BY <2>2, <2>3 DEF Listed
<1>9. ASSUME NEW t \in ToSet(Names), <<s, t>> \in DOMAIN g PROVE g[<<s, t>>] \in ToSet(edges)
  <2>1. PICK i \in DOMAIN targets : targets[i] = t
    BY <1>2, <1>9 DEF ToSet
  <2> QED BY <1>5, <1>6, <2>1 DEF ToSet
<1> QED BY <1>4, <1>6, <1>8, <1>9 DEF AreEdges

(* Two lists of edges after each other.                                    *)
LEMMA EdgesJoined ==
  ASSUME NEW x, AreEdges(x), NEW y, AreEdges(y)
  PROVE  AreEdges(x \o y) /\ ToSet(x) \subseteq ToSet(x \o y) /\ ToSet(y) \subseteq ToSet(x \o y)
<1>1. /\ Len(x) \in Nat /\ DOMAIN x = 1 .. Len(x) /\ x \in Seq(ToSet(x) \cup ToSet(y))
      /\ Len(y) \in Nat /\ DOMAIN y = 1 .. Len(y) /\ y \in Seq(ToSet(x) \cup ToSet(y))
  <2>1. x \in Seq(ToSet(x)) /\ y \in Seq(ToSet(y))
    BY DEF AreEdges, IsList
  <2> QED BY <2>1, ListDomain DEF AreEdges
<1>2. PICK new : new = x \o y
  OBVIOUS
<1>3. /\ new \in Seq(ToSet(x) \cup ToSet(y)) /\ DOMAIN new = 1 .. Len(x) + Len(y)
      /\ \A i \in 1 .. Len(x) : new[i] = x[i]
      /\ \A i \in 1 .. Len(x) + Len(y) : i > Len(x) => new[i] = y[i - Len(x)]
  BY <1>1, <1>2
<1>4. IsList(new)
  BY <1>3, ListFrom
<1>5. \A e \in ToSet(x) \cup ToSet(y) : Listed(e)
  BY DEF AreEdges, ToSet
<1>6. \A i \in DOMAIN new : new[i] \in ToSet(x) \cup ToSet(y)
  BY <1>3
<1>7. ToSet(x) \subseteq ToSet(new)
  <2>1. \A i \in DOMAIN x : i \in DOMAIN new /\ new[i] = x[i]
    BY <1>1, <1>3
  <2> QED BY <2>1 DEF ToSet
<1>8. ToSet(y) \subseteq ToSet(new)
  <2>1. ASSUME NEW k \in DOMAIN y PROVE k + Len(x) \in DOMAIN new /\ new[k + Len(x)] = y[k]
    <3>1. k \in Nat /\ k >= 1 /\ k <= Len(y)
      BY <1>1
    <3>2. k + Len(x) \in 1 .. Len(x) + Len(y) /\ k + Len(x) > Len(x) /\ (k + Len(x)) - Len(x) = k
      BY <1>1, <3>1
    <3>3. new[k + Len(x)] = y[(k + Len(x)) - Len(x)]
      BY <1>3, <3>2
    <3> QED BY <1>3, <3>2, <3>3
  <2> QED BY <2>1 DEF ToSet
<1> QED BY <1>2, <1>4, <1>5, <1>6, <1>7, <1>8 DEF AreEdges

(* The edges by the names of their tools are those of the graph.           *)
LEMMA GraphEdgesFit ==
  ASSUME IsGraph(graph)
  PROVE  /\ AreEdges(GraphEdges)
         /\ \A s, t \in ToSet(Names) : <<s, t>> \in DOMAIN graph => graph[<<s, t>>] \in ToSet(GraphEdges)
<1>1. PICK n \in Nat : DOMAIN Names = 1 .. n
  BY ListDomain, CollectionsAssumption
<1>2. PICK g : g = graph
  OBVIOUS
<1>3. PICK edges : edges = GraphEdges
  OBVIOUS
<1>4. edges = Gathering!Result(g, <<>>, Names)
  BY <1>2, <1>3 DEF GraphEdges, EdgesFrom, GatherOne, EdgesOf, FoldLeft, MapThenFoldSet, Max, Gathering!Result,
         Gathering!MapThenFoldSet, Gathering!Largest
<1>5. ASSUME NEW i \in 1 .. n, NEW acc, Gathered(g, i - 1, acc)
      PROVE  Gathered(g, i, GatherOne(g, acc, Names[i]))
  <2>1. Names[i] \in ToSet(Names) /\ 1 .. i = (1 .. i - 1) \cup {i}
    BY <1>1 DEF ToSet
  <2>2. PICK own : own = EdgesOf(g, Names[i])
    OBVIOUS
  <2>3. /\ AreEdges(own)
        /\ \A t \in ToSet(Names) : <<Names[i], t>> \in DOMAIN g => g[<<Names[i], t>>] \in ToSet(own)
    BY <1>2, <2>1, <2>2, EdgesOfFit
  <2>4. PICK new : new = acc \o own
    OBVIOUS
  <2>5. AreEdges(new) /\ ToSet(acc) \subseteq ToSet(new) /\ ToSet(own) \subseteq ToSet(new)
    BY <1>5, <2>3, <2>4, EdgesJoined DEF Gathered
  <2>6. ASSUME NEW j \in 1 .. i, NEW t \in ToSet(Names), <<Names[j], t>> \in DOMAIN g
        PROVE  g[<<Names[j], t>>] \in ToSet(new)
    <3>1. CASE j = i
      BY <2>3, <2>5, <2>6, <3>1
    <3>2. CASE j \in 1 .. i - 1
      BY <1>5, <2>5, <2>6, <3>2 DEF Gathered
    <3> QED BY <2>1, <3>1, <3>2
  <2> QED BY <2>2, <2>4, <2>5, <2>6 DEF Gathered, GatherOne
<1>6. Gathered(g, 0, <<>>)
  <2>1. IsList(<<>>) /\ DOMAIN <<>> = {}
    BY NoneFresh DEF IsFresh, IsStore
  <2> QED BY <2>1 DEF Gathered, AreEdges
<1>7. Gathered(g, n, edges)
  BY <1>1, <1>4, <1>5, <1>6, Gathering!FoldInduction
<1>8. ASSUME NEW s \in ToSet(Names), NEW t \in ToSet(Names), <<s, t>> \in DOMAIN g
      PROVE  g[<<s, t>>] \in ToSet(edges)
  <2>1. PICK j \in 1 .. n : Names[j] = s
    BY <1>1 DEF ToSet
  <2> QED BY <1>7, <1>8, <2>1 DEF Gathered
<1> QED BY <1>2, <1>3, <1>7, <1>8 DEF Gathered
-----------------------------------------------------------------------------
(* No tool is shown both before and after another: an edge seen from its   *)
(* other end has the opposite role.                                        *)
LEMMA OneWay == IsGraph(graph) => OrderIsOneWay
<1> SUFFICES ASSUME IsGraph(graph) PROVE OrderIsOneWay
  OBVIOUS
<1>1. PICK edges : edges = GraphEdges
  OBVIOUS
<1>2. AreEdges(edges)
  BY <1>1, GraphEdgesFit
<1>3. /\ \A t : ToSet(Shown(edges, t).predecessors) =
                  ToSet(Group(edges, t, "predecessor", MaxCandidates, Names))
      /\ MaxCandidates \in Nat
  BY RunsAssumption DEF Shown, Candidates
<1>4. ASSUME NEW t, NEW u, u \in ToSet(Shown(edges, t).predecessors),
             t \in ToSet(Shown(edges, u).predecessors)
      PROVE  FALSE
  <2>1. u \in Others(edges, t, "predecessor") /\ u \notin Conflicting(edges, t)
    BY <1>2, <1>3, <1>4, GroupMember
  <2>2. t \in Others(edges, u, "predecessor")
    BY <1>2, <1>3, <1>4, GroupMember
  <2>3. PICK j \in With(edges, u, "predecessor") : t = Counterpart(edges[j], u)
    BY <2>2 DEF Others
  <2>4. j \in DOMAIN edges /\ u \in {edges[j].source, edges[j].target} /\ Role(edges[j], u) = "predecessor"
    BY <2>3 DEF With, Touching
  <2>5. IsEdge(edges[j])
    BY <1>2, <2>4 DEF AreEdges, Listed
  <2>6. t \in {edges[j].source, edges[j].target} /\ Counterpart(edges[j], t) = u /\ Role(edges[j], t) = "successor"
    BY <2>3, <2>4, <2>5, OtherEnd
  <2>7. j \in With(edges, t, "successor")
    BY <2>4, <2>6 DEF With, Touching
  <2>8. u \in Others(edges, t, "successor")
    BY <2>6, <2>7 DEF Others
  <2> QED BY <2>1, <2>8 DEF Conflicting
<1> QED BY <1>1, <1>4 DEF OrderIsOneWay

(* The stated order is shown, or the two tools as ambiguous.               *)
LEMMA Workflows == GraphInv => WorkflowsAreFollowed
<1> SUFFICES ASSUME GraphInv, Ready, NEW i \in DOMAIN collection.workflows
             PROVE  LET r == collection.workflows[i]
                        shown == Shown(GraphEdges, r.target)
                    IN  \/ r.source \in ToSet(shown.predecessors) \cup ToSet(shown.ambiguous)
                        \/ Full(shown.predecessors) \/ Full(shown.ambiguous)
  BY DEF WorkflowsAreFollowed
<1>1. PICK r : r = collection.workflows[i]
  OBVIOUS
<1>2. r.source # r.target /\ r.source \in ToSet(Names) /\ r.target \in ToSet(Names)
  BY <1>1, CollectionsAssumption DEF GraphInv, Ingested
<1>3. PICK p : p = <<r.source, r.target>>
  OBVIOUS
<1>4. p \in DOMAIN graph /\ graph[p].explicit = "forward" /\ IsGraph(graph)
  BY <1>1, <1>3 DEF GraphInv, Followed, Follows, Ready
<1>5. PICK edges : edges = GraphEdges
  OBVIOUS
<1>6. AreEdges(edges) /\ graph[p] \in ToSet(edges)
  BY <1>2, <1>3, <1>4, <1>5, GraphEdgesFit
<1>7. PICK j \in DOMAIN edges : edges[j] = graph[p]
  BY <1>6 DEF ToSet
<1>8. edges[j].source = r.source /\ edges[j].target = r.target
  BY <1>3, <1>4, <1>7 DEF IsGraph, PairOf
<1>9. Direction(edges[j]) = "forward"
  BY <1>4, <1>7 DEF Direction
<1>10. Counterpart(edges[j], r.target) = r.source /\ Role(edges[j], r.target) = "predecessor"
  BY <1>2, <1>8, <1>9 DEF Counterpart, Role
<1>11. r.source \in Others(edges, r.target, "predecessor")
  BY <1>8, <1>10 DEF Others, With, Touching
<1>12. PICK shown : shown = Shown(edges, r.target)
  OBVIOUS
<1>13. /\ shown.predecessors = UpTo(Whole(edges, r.target, "predecessor"), MaxCandidates)
       /\ shown.ambiguous = UpTo(Filtered(Names, Conflicting(edges, r.target)), MaxCandidates)
       /\ MaxCandidates \in Nat
  BY <1>12, GroupIsCut, RunsAssumption DEF Shown, Candidates
<1>14. CASE r.source \in Conflicting(edges, r.target)
  <2>1. PICK l : l = Filtered(Names, Conflicting(edges, r.target))
    OBVIOUS
  <2>2. IsList(l) /\ r.source \in ToSet(l)
    BY <1>2, <1>14, <2>1, FilteredList, CollectionsAssumption
  <2>3. Full(shown.ambiguous) \/ r.source \in ToSet(shown.ambiguous)
    BY <1>13, <2>1, <2>2, UpToFits DEF Full
  <2> QED BY <1>1, <1>5, <1>12, <2>3
<1>15. CASE r.source \notin Conflicting(edges, r.target)
  <2>1. r.source \in ToSet(Whole(edges, r.target, "predecessor"))
    BY <1>6, <1>11, <1>15, GroupHasAll
  <2>2. IsList(Whole(edges, r.target, "predecessor"))
    BY <1>6, GroupIsBest
  <2>3. Full(shown.predecessors) \/ r.source \in ToSet(shown.predecessors)
    BY <1>13, <2>1, <2>2, UpToFits DEF Full
  <2> QED BY <1>1, <1>5, <1>12, <2>3
<1> QED BY <1>14, <1>15

(* However detectors, links, contracts, workflows and runs disagree, the   *)
(* order shown between two tools is one order, and a workflow's is shown   *)
(* unless the list is at its limit: then, its edges ranking last, others   *)
(* take its place (see WorkflowsAreShown).                                 *)
THEOREM OrderAlwaysSound == Spec => []OrderIsSound
<1>1. GraphInv => OrderIsSound
  BY OneWay, Workflows DEF GraphInv, OrderIsSound
<1> QED BY <1>1, GraphIsSound, PTL
-----------------------------------------------------------------------------
(* The trace of a request.                                                 *)

IsHandle(h, handle) ==
  /\ handle = [stage |-> handle.stage, parent |-> handle.parent, status |-> handle.status,
               inside |-> handle.inside, entered |-> handle.entered,
               finished |-> handle.finished, raised |-> handle.raised]
  /\ handle.parent \in 0 .. h - 1
  /\ handle.entered \in BOOLEAN /\ handle.finished \in BOOLEAN /\ handle.raised \in BOOLEAN

(* Spans are copies of finished handles, one of each.                      *)
AreCopies(copies) ==
  /\ IsList(copies)
  /\ \A s \in ToSet(copies) :
       s.sequence \in DOMAIN handles /\ handles[s.sequence].finished
       /\ s.parent = handles[s.sequence].parent
  /\ \A s, t \in ToSet(copies) : s.sequence = t.sequence => s = t

Copied(h, copies) == \E s \in ToSet(copies) : s.sequence = h

HasError(copies) == \E s \in ToSet(copies) : s.status = "error"

(* While the trace is open, every handle that was entered is active or     *)
(* finished, what is finished has its copy, and a failure has left one.    *)
OpenTrace ==
  /\ \A h \in DOMAIN handles : handles[h].finished => Copied(h, spans)
  /\ \A h \in DOMAIN handles : handles[h].entered => h \in ToSet(active) \/ handles[h].finished
  /\ \A h \in DOMAIN handles : handles[h].raised => handles[h].finished /\ HasError(spans)

(* The envelope of a finished trace has all of that.                       *)
ClosedTrace ==
  /\ AreCopies(envelope.spans)
  /\ \A h \in DOMAIN handles : handles[h].entered => Copied(h, envelope.spans)
  /\ \A h \in DOMAIN handles : handles[h].raised => HasError(envelope.spans)
  /\ ~envelope.named /\ HasError(envelope.spans) => envelope.status = "error"

TraceInv ==
  /\ IsList(handles) /\ \A h \in DOMAIN handles : IsHandle(h, handles[h])
  /\ IsList(active) /\ ToSet(active) \subseteq DOMAIN handles
  /\ AreCopies(spans)
  /\ Open => OpenTrace
  /\ ~Open => ClosedTrace

(* Copies stay copies while handles are added and finished ones are left.  *)
LEMMA CopiesStay ==
  ASSUME NEW copies, AreCopies(copies), DOMAIN handles \subseteq DOMAIN handles',
         \A h \in DOMAIN handles : handles[h].finished =>
           handles'[h].finished /\ handles'[h].parent = handles[h].parent
  PROVE  AreCopies(copies)'
BY DEF AreCopies

(* The empty list has no elements.                                         *)
LEMMA NoElements == IsList(<<>>) /\ ToSet(<<>>) = {} /\ DOMAIN <<>> = {}
BY DEF IsList, ToSet

(* Nothing is traced yet.                                                  *)
LEMMA NoTrace ==
  ASSUME handles = <<>>, active = <<>>, spans = <<>>, envelope = NoEnvelope
  PROVE  TraceInv
BY NoElements DEF TraceInv, AreCopies, Open, OpenTrace

(* A span is started: under an active one, under a named one or alone.     *)
LEMMA Started == TraceInv /\ StartSpan => TraceInv'
<1> SUFFICES ASSUME TraceInv, StartSpan PROVE TraceInv'
  OBVIOUS
<1>1. PICK n \in Nat : n = Len(handles) /\ DOMAIN handles = 1 .. n
  BY ListDomain DEF TraceInv
<1>2. DefaultParent \in 0 .. n
  <2>1. CASE active = <<>>
    BY <1>1, <2>1 DEF DefaultParent, None
  <2>2. CASE active # <<>>
    <3>1. Len(active) \in Nat /\ DOMAIN active = 1 .. Len(active)
      BY ListDomain DEF TraceInv
    <3>2. active \in Seq(ToSet(active))
      BY DEF TraceInv, IsList
    <3>3. Len(active) \in DOMAIN active
      BY <2>2, <3>1, <3>2
    <3>4. Last(active) \in ToSet(active)
      BY <3>3 DEF Last, ToSet
    <3>5. Last(active) \in 1 .. n
      BY <1>1, <3>4 DEF TraceInv
    <3> QED BY <1>1, <2>2, <3>5 DEF DefaultParent
  <2> QED BY <2>1, <2>2
<1>3. PICK kind \in Stages, parent \in {DefaultParent} \cup DOMAIN handles :
        handles' = Append(handles, NewHandle(kind, parent))
  BY DEF StartSpan
<1>4. parent \in 0 .. n
  BY <1>1, <1>2, <1>3
<1>5. PICK new : new = NewHandle(kind, parent)
  OBVIOUS
<1>6. IsHandle(n + 1, new) /\ ~new.entered /\ ~new.finished /\ ~new.raised
  BY <1>1, <1>4, <1>5 DEF NewHandle, IsHandle
<1>7. /\ IsList(handles') /\ DOMAIN handles' = 1 .. n + 1
      /\ \A i \in 1 .. n : handles'[i] = handles[i]
      /\ handles'[n + 1] = new
  BY <1>1, <1>3, <1>5, ListAppended DEF TraceInv
<1>8. \A h \in DOMAIN handles' : h = n + 1 \/ (h \in DOMAIN handles /\ handles'[h] = handles[h])
  BY <1>1, <1>7
<1>9. UNCHANGED <<active, spans, envelope>> /\ Open /\ Open'
  BY DEF StartSpan, Open
<1>10. AreCopies(spans)'
  BY <1>1, <1>7, <1>9, CopiesStay DEF TraceInv, AreCopies
<1>11. OpenTrace'
  BY <1>1, <1>6, <1>7, <1>8, <1>9 DEF TraceInv, OpenTrace, Copied, HasError
<1>12. \A h \in DOMAIN handles' : IsHandle(h, handles'[h])
  BY <1>6, <1>7, <1>8 DEF TraceInv
<1>13. ToSet(active') \subseteq DOMAIN handles' /\ IsList(active')
  BY <1>1, <1>7, <1>9 DEF TraceInv
<1> QED BY <1>7, <1>9, <1>10, <1>11, <1>12, <1>13 DEF TraceInv

(* A handle changes in what its span is not copied of.                     *)
LEMMA Altered ==
  ASSUME TraceInv, NEW h \in DOMAIN handles, NEW handle, IsHandle(h, handle),
         handle.parent = handles[h].parent, handle.finished = handles[h].finished,
         handle.raised => handles[h].raised,
         handle.entered => handles[h].entered \/ (Open /\ h \in ToSet(active')),
         handles' = [handles EXCEPT ![h] = handle],
         IsList(active'), ToSet(active) \subseteq ToSet(active'), ToSet(active') \subseteq DOMAIN handles,
         UNCHANGED <<spans, envelope>>
  PROVE  TraceInv'
<1>1. PICK n \in Nat : n = Len(handles) /\ DOMAIN handles = 1 .. n
  BY ListDomain DEF TraceInv
<1>2. /\ DOMAIN handles' = DOMAIN handles /\ handles'[h] = handle
      /\ \A k \in DOMAIN handles : k # h => handles'[k] = handles[k]
  OBVIOUS
<1>3. IsList(handles')
  <2>1. handles' = [i \in 1 .. n |-> handles'[i]]
    BY <1>1
  <2> QED BY <1>1, <2>1, ListOf
<1>4. \A k \in DOMAIN handles : handles[k].finished =>
         handles'[k].finished /\ handles'[k].parent = handles[k].parent
  BY <1>2
<1>5. AreCopies(spans)'
  <2>1. PICK copies : copies = spans
    OBVIOUS
  <2>2. AreCopies(copies)'
    BY <1>2, <1>4, <2>1, CopiesStay DEF TraceInv
  <2> QED BY <2>1, <2>2 DEF AreCopies
<1>6. \A k \in DOMAIN handles' : IsHandle(k, handles'[k])
  BY <1>2 DEF TraceInv
<1>7. Open' = Open
  BY DEF Open
<1>8. CASE Open
  <2>1. OpenTrace'
    BY <1>2, <1>8 DEF TraceInv, OpenTrace, Copied, HasError
  <2> QED BY <1>2, <1>3, <1>5, <1>6, <1>7, <1>8, <2>1 DEF TraceInv
<1>9. CASE ~Open
  <2>1. PICK copies : copies = envelope.spans
    OBVIOUS
  <2>2. AreCopies(copies)'
    BY <1>2, <1>4, <1>9, <2>1, CopiesStay DEF TraceInv, ClosedTrace
  <2>3. AreCopies(envelope.spans)'
    BY <2>1, <2>2 DEF AreCopies
  <2>4. \A k \in DOMAIN handles' :
          /\ handles'[k].entered => handles[k].entered
          /\ handles'[k].raised => handles[k].raised
    BY <1>2, <1>9
  <2>5. ClosedTrace'
    BY <1>2, <1>9, <2>3, <2>4 DEF TraceInv, ClosedTrace, Copied, HasError
  <2> QED BY <1>2, <1>3, <1>5, <1>6, <1>7, <1>9, <2>5 DEF TraceInv
<1> QED BY <1>8, <1>9

(* A span is completed: its copy is added, and it is active no more.       *)
LEMMA SpanCompleted ==
  ASSUME TraceInv, NEW h \in DOMAIN handles, NEW handle, IsHandle(h, handle),
         handle.parent = handles[h].parent, handle.finished = handles[h].finished,
         handle.entered = handles[h].entered,
         handle.raised => handles[h].raised \/ (Open /\ ~handles[h].finished /\ handle.status = "error"),
         Completed(h, handle), UNCHANGED envelope
  PROVE  TraceInv'
<1>1. CASE handle.finished
  <2>1. handles' = [handles EXCEPT ![h] = handle] /\ UNCHANGED <<active, spans, envelope>>
    BY <1>1 DEF Completed
  <2>2. IsList(active') /\ ToSet(active') \subseteq DOMAIN handles /\ ToSet(active) \subseteq ToSet(active')
    BY <2>1 DEF TraceInv
  <2> QED BY <1>1, <2>1, <2>2, Altered
<1>2. CASE ~handle.finished
  <2>1. PICK done : done = [handle EXCEPT !.finished = TRUE]
    OBVIOUS
  <2>2. PICK span : span = SpanOf(h, handle)
    OBVIOUS
  <2>3. /\ handles' = [handles EXCEPT ![h] = done]
        /\ active' = Filtered(active, ToSet(active) \ {h})
        /\ spans' = Append(spans, span)
    BY <1>2, <2>1, <2>2 DEF Completed
  <2>4. /\ IsHandle(h, done) /\ done.finished /\ done.parent = handle.parent
        /\ done.entered = handle.entered /\ done.raised = handle.raised
    BY <2>1 DEF IsHandle
  <2>5. span.sequence = h /\ span.parent = handle.parent /\ span.status = handle.status
    BY <2>2 DEF SpanOf
  <2>6. /\ DOMAIN handles' = DOMAIN handles /\ handles'[h] = done
        /\ \A k \in DOMAIN handles : k # h => handles'[k] = handles[k]
    BY <2>3
  <2>7. IsList(handles')
    <3>1. PICK n \in Nat : n = Len(handles) /\ DOMAIN handles = 1 .. n
      BY ListDomain DEF TraceInv
    <3>2. handles' = [i \in 1 .. n |-> handles'[i]]
      BY <2>3, <3>1
    <3> QED BY <3>1, <3>2, ListOf
  <2>8. IsList(active') /\ ToSet(active') = ToSet(active) \ {h}
    BY <2>3, FilteredList DEF TraceInv
  <2>9. IsList(spans') /\ ToSet(spans') = ToSet(spans) \cup {span}
    BY <2>3, OneAppended DEF TraceInv, AreCopies
  <2>10. \A k \in DOMAIN handles : handles[k].finished =>
           handles'[k].finished /\ handles'[k].parent = handles[k].parent
    BY <1>2, <2>6
  <2>11. \A s \in ToSet(spans) : s.sequence # h
    BY <1>2 DEF TraceInv, AreCopies
  <2>12. AreCopies(spans)'
    <3>1. \A s \in ToSet(spans') :
            /\ s.sequence \in DOMAIN handles' /\ handles'[s.sequence].finished
            /\ s.parent = handles'[s.sequence].parent
      BY <2>4, <2>5, <2>6, <2>9, <2>10 DEF TraceInv, AreCopies
    <3>2. \A s, t \in ToSet(spans') : s.sequence = t.sequence => s = t
      BY <2>5, <2>9, <2>11 DEF TraceInv, AreCopies
    <3> QED BY <2>9, <3>1, <3>2 DEF AreCopies
  <2>13. \A k \in DOMAIN handles' : IsHandle(k, handles'[k])
    BY <2>4, <2>6 DEF TraceInv
  <2>14. Open' = Open /\ envelope' = envelope
    BY DEF Open
  <2>15. CASE Open
    <3>1. OpenTrace
      BY <2>15 DEF TraceInv
    <3>2. \A k \in DOMAIN handles' : handles'[k].finished => Copied(k, spans)'
      BY <2>5, <2>6, <2>9, <3>1 DEF OpenTrace, Copied
    <3>3. \A k \in DOMAIN handles' : handles'[k].entered => k \in ToSet(active') \/ handles'[k].finished
      BY <2>4, <2>6, <2>8, <3>1 DEF OpenTrace
    <3>4. HasError(spans) => HasError(spans)'
      BY <2>9 DEF HasError
    <3>5. \A k \in DOMAIN handles' : handles'[k].raised => handles'[k].finished /\ HasError(spans)'
      <4>1. ASSUME NEW k \in DOMAIN handles, k # h, handles'[k].raised
            PROVE  handles'[k].finished /\ HasError(spans)'
        BY <2>6, <3>1, <3>4, <4>1 DEF OpenTrace
      <4>2. ASSUME handle.raised PROVE HasError(spans)'
        <5>1. CASE handles[h].raised
          BY <3>1, <3>4, <5>1 DEF OpenTrace
        <5>2. CASE handle.status = "error"
          <6>1. span \in ToSet(spans') /\ span.status = "error"
            BY <2>5, <2>9, <5>2
          <6> QED BY <6>1 DEF HasError
        <5> QED BY <4>2, <5>1, <5>2
      <4> QED BY <2>4, <2>6, <4>1, <4>2
    <3>6. OpenTrace'
      BY <3>2, <3>3, <3>5 DEF OpenTrace
    <3> QED BY <2>6, <2>7, <2>8, <2>12, <2>13, <2>14, <2>15, <3>6 DEF TraceInv
  <2>16. CASE ~Open
    <3>1. ClosedTrace
      BY <2>16 DEF TraceInv
    <3>2. PICK copies : copies = envelope.spans
      OBVIOUS
    <3>3. AreCopies(copies)'
      BY <2>6, <2>10, <3>1, <3>2, CopiesStay DEF ClosedTrace
    <3>4. AreCopies(envelope.spans)'
      BY <2>14, <3>2, <3>3 DEF AreCopies
    <3>5. \A k \in DOMAIN handles' :
            /\ handles'[k].entered => handles[k].entered
            /\ handles'[k].raised => handles[k].raised
      BY <2>4, <2>6, <2>16
    <3>6. ClosedTrace'
      BY <2>6, <2>14, <3>1, <3>4, <3>5 DEF ClosedTrace, Copied, HasError
    <3> QED BY <2>6, <2>7, <2>8, <2>12, <2>13, <2>14, <2>16, <3>6 DEF TraceInv
  <2> QED BY <2>15, <2>16
<1> QED BY <1>1, <1>2 DEF IsHandle

(* A block is entered.                                                     *)
LEMMA Entered == TraceInv /\ EnterSpan => TraceInv'
<1> SUFFICES ASSUME TraceInv, EnterSpan PROVE TraceInv'
  OBVIOUS
<1>1. PICK h \in DOMAIN handles :
        /\ handles' = [handles EXCEPT ![h].inside = TRUE, ![h].entered = handles[h].entered \/ Open]
        /\ active' = IF h \in ToSet(active) THEN active ELSE Append(active, h)
        /\ UNCHANGED <<spans, envelope>>
  BY DEF EnterSpan
<1>2. PICK handle : handle = [handles[h] EXCEPT !.inside = TRUE, !.entered = handles[h].entered \/ Open]
  OBVIOUS
<1>3. IsHandle(h, handles[h])
  BY DEF TraceInv
<1>4. /\ handle.parent = handles[h].parent /\ handle.finished = handles[h].finished
      /\ handle.raised = handles[h].raised /\ handle.status = handles[h].status
      /\ handle.stage = handles[h].stage /\ handle.inside = TRUE
      /\ handle.entered = (handles[h].entered \/ Open)
  BY <1>2, <1>3 DEF IsHandle
<1>5. IsHandle(h, handle)
  BY <1>2, <1>3, <1>4 DEF IsHandle, Open
<1>6. handles' = [handles EXCEPT ![h] = handle]
  BY <1>1, <1>2, <1>3 DEF IsHandle
<1>7. IsList(active') /\ ToSet(active') = ToSet(active) \cup {h}
  BY <1>1, OneAppended DEF TraceInv
<1>8. ToSet(active') \subseteq DOMAIN handles
  BY <1>7 DEF TraceInv
<1> QED BY <1>1, <1>4, <1>5, <1>6, <1>7, <1>8, Altered

(* A span is finished by its name.                                         *)
LEMMA Finished == TraceInv /\ FinishSpan => TraceInv'
<1> SUFFICES ASSUME TraceInv, FinishSpan PROVE TraceInv'
  OBVIOUS
<1>0. PICK h \in DOMAIN handles : \E status \in {handles[h].status, "error"} :
        /\ Completed(h, IF handles[h].finished THEN handles[h]
                        ELSE [handles[h] EXCEPT !.status = status])
        /\ UNCHANGED envelope
  BY DEF FinishSpan
<1>1. PICK status \in {handles[h].status, "error"} :
        /\ Completed(h, IF handles[h].finished THEN handles[h]
                        ELSE [handles[h] EXCEPT !.status = status])
        /\ UNCHANGED envelope
  BY <1>0
<1>2. PICK handle : handle = IF handles[h].finished THEN handles[h]
                             ELSE [handles[h] EXCEPT !.status = status]
  OBVIOUS
<1>3. IsHandle(h, handles[h])
  BY DEF TraceInv
<1>4. /\ IsHandle(h, handle) /\ handle.parent = handles[h].parent
      /\ handle.finished = handles[h].finished /\ handle.raised = handles[h].raised
      /\ handle.entered = handles[h].entered
  BY <1>2, <1>3 DEF IsHandle
<1>5. Completed(h, handle)
  BY <1>1, <1>2
<1> QED BY <1>1, <1>4, <1>5, SpanCompleted

(* A block is left, with or without an exception.                          *)
LEMMA Exited == TraceInv /\ ExitSpan => TraceInv'
<1> SUFFICES ASSUME TraceInv, ExitSpan PROVE TraceInv'
  OBVIOUS
<1>1. PICK h \in DOMAIN handles, failed \in BOOLEAN :
        /\ LET left == [handles[h] EXCEPT !.inside = FALSE] IN
           Completed(h, IF failed THEN Failed(left) ELSE left)
        /\ UNCHANGED envelope
  BY DEF ExitSpan
<1>2. PICK left : left = [handles[h] EXCEPT !.inside = FALSE]
  OBVIOUS
<1>3. PICK handle : handle = IF failed THEN Failed(left) ELSE left
  OBVIOUS
<1>4. IsHandle(h, handles[h])
  BY DEF TraceInv
<1>5. /\ IsHandle(h, left) /\ left.parent = handles[h].parent
      /\ left.finished = handles[h].finished /\ left.raised = handles[h].raised
      /\ left.entered = handles[h].entered
  BY <1>2, <1>4 DEF IsHandle
<1>6. CASE failed
  <2>1. handle = [left EXCEPT !.status = "error", !.raised = left.raised \/ (Open /\ ~left.finished)]
    BY <1>3, <1>6 DEF Failed
  <2>2. /\ handle.parent = left.parent /\ handle.finished = left.finished
        /\ handle.entered = left.entered /\ handle.status = "error"
        /\ handle.raised = (left.raised \/ (Open /\ ~left.finished))
        /\ handle.stage = left.stage /\ handle.inside = left.inside
    BY <1>5, <2>1 DEF IsHandle
  <2>3. IsHandle(h, handle)
    BY <1>5, <2>1, <2>2 DEF IsHandle, Open
  <2>4. Completed(h, handle)
    BY <1>1, <1>2, <1>3
  <2>5. handle.raised => handles[h].raised \/ (Open /\ ~handles[h].finished /\ handle.status = "error")
    BY <1>5, <2>2
  <2> QED BY <1>1, <1>5, <2>2, <2>3, <2>4, <2>5, SpanCompleted
<1>7. CASE ~failed
  <2>1. handle = left /\ Completed(h, handle)
    BY <1>1, <1>2, <1>3, <1>7
  <2> QED BY <1>1, <1>5, <2>1, SpanCompleted
<1> QED BY <1>6, <1>7

(* The status of a span that is not finished is set.                       *)
LEMMA StatusSet == TraceInv /\ SetStatus => TraceInv'
<1> SUFFICES ASSUME TraceInv, SetStatus PROVE TraceInv'
  OBVIOUS
<1>1. PICK h \in DOMAIN handles, status \in {"ok", "error"} :
        handles' = [handles EXCEPT ![h].status = status]
  BY DEF SetStatus
<1>2. PICK handle : handle = [handles[h] EXCEPT !.status = status]
  OBVIOUS
<1>3. IsHandle(h, handles[h])
  BY DEF TraceInv
<1>4. /\ IsHandle(h, handle) /\ handle.parent = handles[h].parent
      /\ handle.finished = handles[h].finished /\ handle.raised = handles[h].raised
      /\ handle.entered = handles[h].entered
  BY <1>2, <1>3 DEF IsHandle
<1>5. handles' = [handles EXCEPT ![h] = handle]
  BY <1>1, <1>2
<1>6. UNCHANGED <<active, spans, envelope>>
  BY DEF SetStatus
<1>7. IsList(active') /\ ToSet(active) \subseteq ToSet(active') /\ ToSet(active') \subseteq DOMAIN handles
  BY <1>6 DEF TraceInv
<1> QED BY <1>4, <1>5, <1>6, <1>7, Altered

(* The trace is finished: nothing is active, so what was entered is        *)
(* finished and copied.                                                    *)
LEMMA Closed == TraceInv /\ FinishTrace => TraceInv'
<1> SUFFICES ASSUME TraceInv, FinishTrace PROVE TraceInv'
  OBVIOUS
<1>1. Open /\ ToSet(active) = {} /\ UNCHANGED <<handles, active, spans>>
  BY NoElements DEF FinishTrace
<1>2. OpenTrace
  BY <1>1 DEF TraceInv
<1>3. PICK named \in BOOLEAN :
        envelope' = [status |-> IF named THEN "named" ELSE Outcome, named |-> named, spans |-> spans]
  BY DEF FinishTrace
<1>4. envelope'.status = (IF named THEN "named" ELSE Outcome) /\ envelope'.named = named /\ envelope'.spans = spans
  BY <1>3
<1>5. ~Open'
  <2>1. NoEnvelope.status = "none"
    BY DEF NoEnvelope
  <2>2. Outcome \in {"error", "ok"}
    BY DEF Outcome
  <2>3. envelope'.status # "none"
    BY <1>4, <2>2
  <2> QED BY <2>1, <2>3 DEF Open, NoEnvelope
<1>6. AreCopies(envelope.spans)'
  BY <1>1, <1>4 DEF TraceInv, AreCopies
<1>7. HasError(spans) => Outcome = "error"
  BY DEF HasError, Outcome, ToSet
<1>8. ClosedTrace'
  BY <1>1, <1>2, <1>4, <1>6, <1>7 DEF ClosedTrace, OpenTrace, Copied, HasError, AreCopies
<1>9. AreCopies(spans)'
  BY <1>1 DEF TraceInv, AreCopies
<1> QED BY <1>1, <1>5, <1>8, <1>9 DEF TraceInv

(* Every step of a collection in use keeps the trace.                      *)
LEMMA NextTrace == TraceInv /\ [Next]_vars => TraceInv'
<1> SUFFICES ASSUME TraceInv, [Next]_vars PROVE TraceInv'
  OBVIOUS
<1>1. ASSUME UNCHANGED recorderVars PROVE TraceInv'
  BY <1>1 DEF recorderVars, TraceInv, Open, OpenTrace, ClosedTrace, AreCopies, Copied, HasError
<1>2. CASE Build
  BY <1>1, <1>2 DEF Build
<1>3. CASE Trace
  <2>1. Record
    BY <1>3 DEF Trace
  <2> QED BY <2>1, Started, Entered, Finished, Exited, StatusSet, Closed DEF Record
<1>4. CASE Run
  <2>1. handles' = <<>> /\ active' = <<>> /\ spans' = <<>> /\ envelope' = NoEnvelope
    BY <1>4 DEF Run
  <2> QED BY <2>1, NoElements DEF TraceInv, AreCopies, Open, OpenTrace
<1>5. CASE Keep
  BY <1>1, <1>5 DEF Keep
<1>6. CASE Decide
  BY <1>1, <1>6 DEF Decide
<1>7. CASE DeleteEdge
  BY <1>1, <1>7 DEF DeleteEdge
<1>8. CASE UNCHANGED vars
  BY <1>1, <1>8 DEF vars
<1> QED BY <1>2, <1>3, <1>4, <1>5, <1>6, <1>7, <1>8 DEF Next

(* In the order of their sequence, a parent comes before its children.     *)
LEMMA TreeShown == TraceInv => TreeIsExported
<1> SUFFICES ASSUME TraceInv PROVE TreeIsExported
  OBVIOUS
<1>1. PICK copies : copies = envelope.spans
  OBVIOUS
<1>2. AreCopies(copies) /\ \A h \in DOMAIN handles : handles[h].entered /\ ~Open => Copied(h, copies)
  <2>1. CASE Open
    <3>1. copies = <<>>
      BY <1>1, <2>1 DEF Open, NoEnvelope
    <3> QED BY <2>1, <3>1, NoElements DEF AreCopies
  <2>2. CASE ~Open
    BY <1>1, <2>2 DEF TraceInv, ClosedTrace
  <2> QED BY <2>1, <2>2
<1>3. PICK S : S = ToSet(copies)
  OBVIOUS
<1>4. PICK key : key = [s \in S |-> <<s.sequence>>]
  OBVIOUS
<1>5. IsFiniteSet(S)
  BY <1>2, <1>3, ListIsFinite DEF AreCopies
<1>6. \A s \in S : s.sequence \in DOMAIN handles /\ s.sequence \in Nat
  <2>1. DOMAIN handles \subseteq Nat
    BY ListDomain DEF TraceInv
  <2> QED BY <1>2, <1>3, <2>1 DEF AreCopies
<1>7. \A s \in S : key[s] \in Key(1) /\ key[s][1] = s.sequence
  BY <1>4, <1>6 DEF Key
<1>8. \A s, t \in S : key[s] = key[t] => s = t
  <2>1. \A s, t \in S : key[s] = key[t] => s.sequence = t.sequence
    BY <1>7
  <2> QED BY <1>2, <1>3, <2>1 DEF AreCopies
<1>9. PICK order : order = Sorted(S, key)
  OBVIOUS
<1>10. ExportOrder = order
  BY <1>1, <1>3, <1>4, <1>9 DEF ExportOrder
<1>11. 1 \in Nat
  OBVIOUS
<1>12. /\ IsList(order) /\ DOMAIN order = 1 .. Cardinality(S) /\ ToSet(order) = S
       /\ \A i, j \in 1 .. Cardinality(S) : i < j => Precedes(key[order[i]], key[order[j]])
  BY <1>5, <1>7, <1>8, <1>9, <1>11, SortedList
<1>13. Cardinality(S) \in Nat
  BY <1>5, FS_CardinalityType
<1>14. \A s, t \in S : Precedes(key[s], key[t]) => s.sequence < t.sequence
  <2> SUFFICES ASSUME NEW s \in S, NEW t \in S, Precedes(key[s], key[t]) PROVE s.sequence < t.sequence
    OBVIOUS
  <2>1. DOMAIN key[s] = 1 .. 1
    BY <1>7 DEF Key
  <2>2. PICK i \in 1 .. 1 : key[s][i] < key[t][i]
    BY <2>1 DEF Precedes
  <2>3. i = 1
    BY <2>2
  <2> QED BY <1>7, <2>2, <2>3
<1>15. \A i \in DOMAIN order : order[i] \in S
  BY <1>12 DEF ToSet
<1> SUFFICES ASSUME NEW i \in DOMAIN order, NEW p, p = order[i].parent, p # None, handles[p].entered
             PROVE  ExportedParent(i) = p
  BY <1>10 DEF TreeIsExported
<1>16. PICK c : c = order[i].sequence
  OBVIOUS
<1>17. c \in DOMAIN handles /\ c \in Nat /\ p = handles[c].parent
  BY <1>2, <1>3, <1>6, <1>15, <1>16 DEF AreCopies
<1>18. p \in 1 .. c - 1 /\ p \in DOMAIN handles
  <2>1. p \in 0 .. c - 1
    BY <1>17 DEF TraceInv, IsHandle
  <2>2. PICK n \in Nat : DOMAIN handles = 1 .. n
    BY ListDomain DEF TraceInv
  <2> QED BY <1>17, <2>1, <2>2 DEF None
<1>19. Copied(p, copies)
  <2>1. ~Open
    <3>1. ASSUME Open PROVE S = {}
      BY <1>1, <1>3, <3>1, NoElements DEF Open, NoEnvelope
    <3> QED BY <1>15, <3>1
  <2> QED BY <1>2, <1>18, <2>1
<1>20. PICK s \in S : s.sequence = p
  BY <1>3, <1>19 DEF Copied
<1>21. PICK j \in DOMAIN order : order[j] = s
  BY <1>12, <1>20 DEF ToSet
<1>22. order[j].sequence = p
  BY <1>20, <1>21
<1>23. j < i
  <2>1. ASSUME i < j PROVE FALSE
    <3>1. Precedes(key[order[i]], key[order[j]])
      BY <1>12, <2>1
    <3>2. order[i].sequence < order[j].sequence
      BY <1>14, <1>15, <3>1
    <3> QED BY <1>16, <1>17, <1>18, <1>22, <3>2
  <2>2. i # j
    BY <1>16, <1>17, <1>18, <1>22
  <2> QED BY <1>12, <1>13, <2>1, <2>2
<1>24. j \in 1 .. i - 1
  BY <1>12, <1>13, <1>23
<1>25. p \in {order[k].sequence : k \in 1 .. i - 1}
  BY <1>22, <1>24
<1> QED BY <1>10, <1>25 DEF ExportedParent

(* A failure that left a block of an open span is in the envelope.         *)
LEMMA ErrorsShown == TraceInv => ErrorsAreReported
BY DEF TraceInv, ClosedTrace, ErrorsAreReported

(* recorder.py and otel.py, for every number of spans, in whatever order   *)
(* blocks are left and spans finished: the tree of the spans is exported   *)
(* as it was traced, and a failure is reported.                            *)
THEOREM TraceAlwaysExported == Spec => []TraceIsExported
<1>1. Init => TraceInv
  BY NoTrace DEF Init, RecorderInit
<1>2. TraceInv => TraceIsExported
  BY TreeShown, ErrorsShown DEF TraceIsExported
<1> QED BY <1>1, <1>2, NextTrace, PTL DEF Spec
=============================================================================
