----------------------------- MODULE Retrieval -----------------------------
(***************************************************************************)
(* One search of RetrievalEngine (retrieval/engine.py): the channels score *)
(* the tools, the scores are fused by rank, the graph adds candidates of   *)
(* its own, boosts and guards reorder them, and the results are told how   *)
(* they depend on each other.  A large corpus is narrowed first            *)
(* (retrieval/prefilter.py), and the end may be made diverse               *)
(* (retrieval/diversity.py).  What BM25, embeddings, annotations and       *)
(* metadata say of a query are inputs; graph scores are in thousandths,    *)
(* similarities and factors in hundredths, fused scores rounded down.      *)
(*                                                                         *)
(* First the graph channel (retrieval/graph_search.py): tools of the       *)
(* categories a query names, the chains that lead to them, and the tools   *)
(* around a set of seeds.  A graph g is                                    *)
(*   nodes : all nodes in the order they were added;  kind : node ->       *)
(*   "tool", "category" or "domain";  edges : a sequence of [from, to,     *)
(*   relation], one for a pair;  members : whether relations are members   *)
(*   of RelationType (a graph that was not read from a file)               *)
(* and Words[n] what a node is found by: [name, text, parts, method,       *)
(* verbs].  Its scores are integers in thousandths, rounded down.          *)
(***************************************************************************)
EXTENDS SequencesExt, Orderings

CONSTANTS
  NameOrder,      \* every node, in the order of their names
  Words           \* node -> [name, text, parts, method, verbs]

Least(a, b) == IF a < b THEN a ELSE b
Most(a, b) == IF a < b THEN b ELSE a

First(seq, k) == SubSeq(seq, 1, Least(k, Len(seq)))

(* stable_score_items: best first, then by name.                            *)
Ranking(scores) ==
  Sorted(DOMAIN scores, [n \in DOMAIN scores |-> <<-scores[n], Place(NameOrder, n)>>])

Score(scores, n) == IF n \in DOMAIN scores THEN scores[n] ELSE 0

(* The better of two scores of every name.                                  *)
Better(s, t) == [n \in DOMAIN s \cup DOMAIN t |-> Most(Score(s, n), Score(t, n))]

Only(scores, S) == [n \in DOMAIN scores \cap S |-> scores[n]]

Top(scores, k) == Only(scores, ToSet(First(Ranking(scores), k)))

Around(g, n) == {e \in ToSet(g.edges) : n \in {e.from, e.to}}

Other(e, n) == IF e.from = n THEN e.to ELSE e.from

EdgesByName(g, n) ==
  Sorted(Around(g, n), [e \in Around(g, n) |-> <<Place(NameOrder, e.from), Place(NameOrder, e.to)>>])

Weight(relation) ==
  CASE relation = "requires" -> 1000 [] relation = "precedes" -> 900
    [] relation = "similar_to" -> 800 [] relation = "complementary" -> 700
    [] relation = "belongs_to" -> 500 [] relation = "conflicts_with" -> 200 [] OTHER -> 300

(* expand_from_seeds: a node is left once, by the shortest way; every edge  *)
(* that leads on to a node not left yet scores it.                          *)
RECURSIVE Expand(_, _, _, _, _)

Onward(g, n, left) == SelectSeq(EdgesByName(g, n), LAMBDA e : Other(e, n) \notin left)

Reached(g, n, depth, edges, scores) ==
  FoldLeft(LAMBDA acc, e :
             IF g.kind[Other(e, n)] # "tool" THEN acc
             ELSE Better(acc, Other(e, n) :> ((Weight(e.relation) * 2) \div (depth + 2))),
           scores, edges)

ExpandFrom(g, n, depth, rest, left, scores, maxDepth, edges) ==
  Expand(g, rest \o [i \in DOMAIN edges |-> <<Other(edges[i], n), depth + 1>>],
         left, Reached(g, n, depth, edges, scores), maxDepth)

Expand(g, queue, left, scores, maxDepth) ==
  IF queue = <<>> THEN scores
  ELSE LET n == queue[1][1]  depth == queue[1][2] IN
       IF n \in left \/ depth >= maxDepth
       THEN Expand(g, Tail(queue), left \cup {n}, scores, maxDepth)
       ELSE ExpandFrom(g, n, depth, Tail(queue), left \cup {n}, scores, maxDepth,
                       Onward(g, n, left \cup {n}))

Present(g, names) == SelectSeq(names, LAMBDA n : n \in ToSet(g.nodes))

FromSeeds(g, seeds, maxDepth) ==
  Expand(g, [i \in DOMAIN seeds |-> <<seeds[i], 0>>], {}, [n \in ToSet(seeds) |-> 1000], maxDepth)

ExpandFromSeeds(g, seeds, maxDepth, limit) == Top(FromSeeds(g, Present(g, seeds), maxDepth), limit)

(* _get_category_index: a name token belongs to the last category that has  *)
(* it, any other token to the first.                                        *)
Members(g, c) == {e.from : e \in {x \in ToSet(g.edges) : x.to = c /\ g.kind[x.from] = "tool"}}

Indexed(g, index, c) ==
  ([t \in Words[c].name |-> c] @@ index)
  @@ [t \in Words[c].text \cup UNION {Words[n].parts \cup Words[n].text : n \in Members(g, c)} |-> c]

CategoryIndex(g) ==
  FoldLeft(LAMBDA index, c : Indexed(g, index, c), <<>>,
           SelectSeq(g.nodes, LAMBDA n : g.kind[n] = "category"))

(* _compute_intent_boost, in tenths                                         *)
Methods(intent) ==
  CASE intent = "write" -> {"POST", "PUT", "PATCH"} [] intent = "read" -> {"GET"}
    [] intent = "delete" -> {"DELETE"} [] OTHER -> {}

IntentBoost(intent, n) ==
  LET read == intent = "read" IN
  Most(IF Words[n].method \in Methods(intent) THEN IF read THEN 15 ELSE 18 ELSE 10,
       IF intent # "neutral" /\ intent \in Words[n].verbs THEN IF read THEN 13 ELSE 15 ELSE 10)

(* _compute_desc_boost, in tenths                                           *)
TextBoost(words, n) ==
  LET hits == Cardinality(words \cap Words[n].text) IN IF hits >= 2 THEN 10 + 3 * hits ELSE 10

Relevance(words, intent, n, base) ==
  (((((base * (2 + Cardinality(words \cap Words[n].name))) \div 2) * IntentBoost(intent, n)) \div 10)
   * TextBoost(words, n)) \div 10

(* The categories a query names, and by how many of its words.              *)
Matched(index, words) ==
  [c \in {index[t] : t \in words \cap DOMAIN index} |->
     Cardinality({t \in words \cap DOMAIN index : index[t] = c})]

Hits(matched, g, n) == {c \in DOMAIN matched : n \in Members(g, c)}

BaseOf(matched, c) == (1000 * matched[c]) \div Cardinality(DOMAIN matched)

BestBase(matched, hits) ==
  BaseOf(matched, CHOOSE c \in hits : \A d \in hits : matched[c] >= matched[d])

InCategories(g, matched, words, intent) ==
  [n \in UNION {Members(g, c) : c \in DOMAIN matched} |->
     Relevance(words, intent, n, BestBase(matched, Hits(matched, g, n)))]

(* _expand_chains: along requires and precedes, two steps, from the best    *)
(* five; a relation is told by the name of its member.                      *)
RECURSIVE Chain(_, _, _, _, _)

Workflow(g, e) == g.members /\ e.relation \in {"requires", "precedes"}

Links(g, n, met) ==
  SelectSeq(EdgesByName(g, n), LAMBDA e : Workflow(g, e) /\ Other(e, n) \notin met)

ToolsAlong(g, n, edges) ==
  SelectSeq([i \in DOMAIN edges |-> Other(edges[i], n)], LAMBDA m : g.kind[m] = "tool")

Decayed(base, depth) == (IF depth = 0 THEN base * 60 ELSE (base * 36)) \div 100

ChainFrom(g, rest, met, base, scores, depth, steps) ==
  Chain(g, rest \o [i \in DOMAIN steps |-> <<steps[i], depth + 1>>], met, base,
        Better(scores, [n \in ToSet(steps) |-> Decayed(base, depth)]))

Chain(g, queue, met, base, scores) ==
  IF queue = <<>> THEN scores
  ELSE LET n == queue[1][1]  depth == queue[1][2] IN
       IF depth >= 2 THEN Chain(g, Tail(queue), met, base, scores)
       ELSE LET edges == Links(g, n, met) IN
            ChainFrom(g, Tail(queue), met \cup {Other(edges[i], n) : i \in DOMAIN edges}, base,
                      scores, depth, ToolsAlong(g, n, edges))

Chains(g, scores) ==
  FoldLeft(LAMBDA acc, n : Better(acc, Chain(g, << <<n, 0>> >>, {n}, scores[n], <<>>)), <<>>,
           Present(g, First(Ranking(scores), 5)))

WithChains(g, scores, limit) == Top(Better(scores, Chains(g, scores)), limit)

(* resource_first_search                                                    *)
ResourceFirst(g, index, words, intent, limit) ==
  IF words \cap DOMAIN index = {} THEN <<>>
  ELSE WithChains(g, InCategories(g, Matched(index, words), words, intent), limit)

(***************************************************************************)
(* The search                                                              *)
(***************************************************************************)
CONSTANTS
  Engines,         \* configurations of the engine and of the request
  Queries,         \* what the channels say of a query
  Graphs,          \* graphs a search may meet
  Resembles,       \* name -> name -> how alike two tools are
  HashOrders,      \* orders in which Python may walk a set of names
  KeywordTop,      \* 50: hits of BM25 the prefilter keeps
  PrefilterFrom,   \* 500: corpora from this size are narrowed
  MinPool, MaxPool,   \* 150 and 500
  DominantHead     \* _DOMINANT_KEYWORD_HEAD, 5

ASSUME BoundsAssumption ==
  /\ KeywordTop \in Nat \ {0} /\ PrefilterFrom \in Nat
  /\ MinPool \in Nat /\ MaxPool \in Nat /\ KeywordTop <= MaxPool /\ DominantHead \in Nat \ {0}

VARIABLES
  engine,      \* [weights, topK, depth, prefilter, embedding, diversity, reranker]
  query,       \* [words, intent, keyword, clauses, ...], see Queries
  graph,       \* the tool graph and, as its tools, the registry
  stage,       \* how far the pipeline has come
  pool,        \* the names the costly channels may score
  found,       \* resource_scores, later graph_scores
  scores,      \* final_scores
  results,     \* candidates, best first
  told,        \* result -> [relations, prerequisites]
  summary      \* build_workflow_summary of the results

search == <<engine, query, graph, stage, pool, found, scores, results, told, summary>>

Tools(g) == {n \in ToSet(g.nodes) : g.kind[n] = "tool"}

(* _get_adaptive_weights: no embedding; with one; a small corpus.           *)
Adaptive(embedding) ==
  IF embedding THEN [keyword |-> 2500, graph |-> 1500, embedding |-> 5500, annotation |-> 500]
  ELSE [keyword |-> 8500, graph |-> 1500, embedding |-> 0, annotation |-> 0]

(***************************************************************************)
(* The prefilter                                                           *)
(***************************************************************************)
Keyword(e, q) == IF e.weights.keyword > 0 THEN q.keyword ELSE <<>>
Clauses(e, q) == IF e.weights.keyword > 0 THEN q.clauses ELSE <<>>

KeywordHits(e, q) == ToSet(First(Ranking(Keyword(e, q)), KeywordTop))

Large(e, g) == e.prefilter /\ Cardinality(Tools(g)) >= PrefilterFrom

(* Names are added one by one until the pool has its size.                  *)
AddUntil(names, start, limit) ==
  FoldLeft(LAMBDA acc, n : IF Cardinality(acc) >= limit THEN acc ELSE acc \cup {n}, start, names)

Neighbours(g, from) ==
  SelectSeq(Ranking(ExpandFromSeeds(g, from, 1, 2 * MinPool)), LAMBDA n : n \in Tools(g))

Widen(g, scored, hits, start) ==
  LET from == First(IF scored # <<>> THEN Ranking(scored)
                    ELSE SelectSeq(NameOrder, LAMBDA n : n \in hits), 20)
  IN  AddUntil(Neighbours(g, from), start, MinPool)

(* Mutant of Cap: the categories come before what BM25 found.               *)
CapByCategory(scored, near, hits) ==
  AddUntil(Ranking(scored) \o SelectSeq(NameOrder, LAMBDA n : n \in near \cup hits), {}, MaxPool)

Cap(scored, near, hits) ==
  AddUntil(Ranking(scored) \o SelectSeq(NameOrder, LAMBDA n : n \in near), hits, MaxPool)

Shaped(g, scored, near, hits, start) ==
  LET wide == IF Cardinality(start) < MinPool THEN Widen(g, scored, hits, start) ELSE start
  IN  IF Cardinality(wide) > MaxPool THEN Cap(scored, near, hits) ELSE wide

(* candidate_pool; no name stands for None: score the whole corpus.         *)
CandidatePool(g, scored, near, hits) ==
  LET signal == (DOMAIN scored) \cup near IN
  IF signal = {} \/ Cardinality(signal \cup hits) >= Cardinality(Tools(g)) THEN {}
  ELSE Shaped(g, scored, near, hits, signal \cup hits)

Pool(e, q, g, resource) ==
  IF Large(e, g)
  THEN CandidatePool(g, resource, IF e.embedding THEN q.near ELSE {}, KeywordHits(e, q)) ELSE {}

Within(g, restrict) == IF restrict = {} THEN Tools(g) ELSE restrict

(***************************************************************************)
(* The graph channel                                                       *)
(***************************************************************************)
Deep(e, g) == IF Large(e, g) THEN Most(e.topK * 3, 500) ELSE e.topK * 3

ResourceScores(e, q, g) ==
  IF e.weights.graph > 0 \/ Large(e, g)
  THEN ResourceFirst(g, CategoryIndex(g), q.words, q.intent, Deep(e, g)) ELSE <<>>

(* _build_seed_tools                                                        *)
AddNew(seq, names) ==
  FoldLeft(LAMBDA acc, n : IF n \in ToSet(acc) THEN acc ELSE Append(acc, n), seq, names)

SeedTools(e, q, g) ==
  LET fits == SelectSeq(First(Ranking(q.annotation), 3), LAMBDA n : q.annotation[n] > 70)
  IN  AddNew(First(Ranking(Keyword(e, q)), 10),
             fits \o SelectSeq(q.history, LAMBDA n : n \in Tools(g)))

GraphScores(e, q, g, resource, restrict) ==
  IF e.weights.graph = 0 THEN <<>>
  ELSE Only(Better(ExpandFromSeeds(g, SeedTools(e, q, g), e.depth, e.topK * 3), resource),
            Within(g, restrict))

(***************************************************************************)
(* Fusion by rank                                                          *)
(***************************************************************************)
(* A source whose best hit leads is believed more, up to half again.        *)
Confidence(s, r) ==
  IF Len(r) < 2 \/ s[r[1]] <= 0 THEN 100 ELSE 100 + (50 * (s[r[1]] - s[r[2]])) \div s[r[1]]

Shares(weight, confidence, r) ==
  [n \in ToSet(r) |-> (weight * confidence) \div (60 + Place(r, n))]

Source(s, weight) == Shares(weight, Confidence(s, Ranking(s)), Ranking(s))

Sum2(s, t) == [n \in DOMAIN s \cup DOMAIN t |-> Score(s, n) + Score(t, n)]

(* _compute_embedding_scores looks deeper when the corpus is narrowed.      *)
Semblance(e, q, g, restrict) ==
  IF ~e.embedding THEN <<>>
  ELSE Only(Top(q.embedding, Most(e.topK * 3, Cardinality(restrict))), Within(g, restrict))

Sources(e, q, g, restrict) ==
  << <<Keyword(e, q), e.weights.keyword>>, <<Clauses(e, q), (e.weights.keyword * 6) \div 10>>,
     <<Semblance(e, q, g, restrict), e.weights.embedding>>,
     <<Only(q.annotation, Within(g, restrict)), e.weights.annotation>>,
     <<Only(q.semantic, Within(g, restrict)), (e.weights.keyword * 3) \div 4>> >> \o q.expansions

(* _fuse_and_filter                                                         *)
Fused(g, sources) ==
  Only(FoldLeft(LAMBDA acc, x : IF x[1] = <<>> \/ x[2] = 0 THEN acc ELSE Sum2(acc, Source(x[1], x[2])),
                <<>>, sources),
       Tools(g))

(***************************************************************************)
(* Candidates of the graph and of the clauses                              *)
(***************************************************************************)
Values(s) == {s[n] : n \in DOMAIN s}

Lowest(s) == CHOOSE v \in Values(s) : \A w \in Values(s) : v <= w
Highest(s) == CHOOSE v \in Values(s) : \A w \in Values(s) : w <= v

Injected(s, fresh, limit) ==
  LET strong == SelectSeq(Ranking(fresh), LAMBDA n : 2 * fresh[n] >= Highest(fresh))
      base == (Lowest(s) * 8) \div 10
  IN  [n \in ToSet(First(strong, limit)) |-> (base * fresh[n]) \div Highest(fresh)] @@ s

(* _inject_graph_candidates                                                 *)
InjectGraph(g, s, graphScores, k) ==
  LET fresh == Only(graphScores, Tools(g) \ DOMAIN s) IN
  IF s = <<>> \/ fresh = <<>> THEN s
  ELSE IF Highest(fresh) <= 0 THEN s ELSE Injected(s, fresh, Most(2, k \div 3))

Nth(s, k) == s[Ranking(s)[Least(k, Cardinality(DOMAIN s))]]

Raise(s, lifted) == [n \in DOMAIN s \cup DOMAIN lifted |-> Most(Score(s, n), Score(lifted, n))]

ClauseCandidates(g, clauses, diverse, k, boundary) ==
  LET many == IF diverse THEN 2 * k ELSE k
      r == First(Ranking(clauses), Most(3, many))
      norm == [n \in ToSet(r) |-> (100 * clauses[n]) \div Highest(clauses)]
      floor == (boundary * (IF diverse THEN 108 ELSE 105)) \div 100
  IN  [n \in {m \in ToSet(r) \cap Tools(g) : norm[m] >= IF diverse THEN 10 ELSE 18} |->
         (floor * Most(norm[n], IF diverse THEN 75 ELSE 60)) \div 100]

(* _inject_clause_candidates                                                *)
InjectClauses(g, s, clauses, diverse, k) ==
  IF s = <<>> \/ clauses = <<>> THEN s
  ELSE IF Nth(s, k) <= 0 \/ Highest(clauses) <= 0 THEN s
  ELSE Raise(s, ClauseCandidates(g, clauses, diverse, k, Nth(s, k)))

(***************************************************************************)
(* Boosts                                                                  *)
(***************************************************************************)
Times(s, factor) == [n \in DOMAIN s |-> (s[n] * factor[n]) \div 100]

(* _boost_name_overlap: how a query mentions a name.                        *)
Mentioned(mention) ==
  CASE mention = "same" -> 200 [] mention = "two" -> 125 [] mention = "one" -> 110 [] OTHER -> 100

Explicit(q, s) == {n \in DOMAIN s : q.mention[n] = "whole"}

BoostNames(q, s) ==
  LET boosted == Times(s, [n \in DOMAIN s |-> Mentioned(q.mention[n])])
      floor == (3 * Highest(boosted)) \div 2
  IN  IF s = <<>> THEN s ELSE Raise(boosted, [n \in Explicit(q, s) |-> floor])

(* _boost_method_intent                                                     *)
BoostMethods(q, s) ==
  Times(s, [n \in DOMAIN s |->
              CASE q.intent = "write" /\ Words[n].method = "POST" -> 115
                [] q.intent = "read" /\ Words[n].method = "GET" -> 110
                [] q.intent = "delete" /\ Words[n].method = "DELETE" -> 115 [] OTHER -> 100])

(* _boost_embedding_rerank: the ten best, by their descriptions.            *)
BoostByText(e, q, s) ==
  IF ~e.embedding THEN s
  ELSE LET best == ToSet(First(Ranking(s), 10)) IN
       [n \in DOMAIN s |-> IF n \in best THEN (s[n] * (500 + q.similarity[n])) \div 500 ELSE s[n]]

(* _preserve_dominant_keyword_candidates; raw keyword scores in tenths.     *)
Leads(kept, top, rival) == 100 * kept[top] >= 102 * Score(kept, rival)

Close(s, n, rival, percent) == 100 * s[n] >= percent * s[rival]

Promoted(s, rival) == (s[rival] * 102) \div 100

(* The keyword leader among the first DominantHead, behind a close rival.           *)
TopPromotion(s, r, kept, leader, allowed) ==
  IF allowed /\ leader # r[1] /\ leader \in ToSet(First(r, DominantHead))
     /\ Leads(kept, leader, r[1]) /\ Close(s, leader, r[1], 88)
  THEN Raise(s, leader :> Promoted(s, r[1])) ELSE s

Lift(rank) == 108 + 2 * Most(0, 4 - rank)

(* Mutant of Lifted: the boundary is taken one place too low.               *)
LiftedTooLow(s, r, kept, k, n, allowed) ==
  (Nth(s, DominantHead + 1) * Lift(Place(k, n))) \div 100

Lifted(s, r, kept, k, n, allowed) ==
  LET rank == Place(k, n)
      plain == (Nth(s, DominantHead) * Lift(rank)) \div 100
  IN  IF allowed /\ rank = 1 /\ n # r[1] /\ Place(r, n) <= DominantHead + 3
         /\ Leads(kept, n, r[1]) /\ Close(s, n, r[1], 80)
      THEN Most(plain, Promoted(s, r[1])) ELSE plain

Below(keyword, r, k) ==
  {n \in ToSet(First(k, 5)) \ ToSet(First(r, DominantHead)) :
     100 * keyword[n] >= (IF Place(k, n) <= 3 THEN 75 ELSE 90) * keyword[k[1]]}

Dominant(keyword, s, r, k, allowed) ==
  LET kept == Only(keyword, ToSet(First(k, 10))) IN
  Raise(TopPromotion(s, r, kept, k[1], allowed),
        [n \in Below(keyword, r, k) |-> Lifted(s, r, kept, k, n, allowed)])

Preserve(keyword, s, allowed) ==
  LET k == Ranking(Only(keyword, DOMAIN s)) IN
  IF k = <<>> THEN s
  ELSE IF keyword[k[1]] < 60 \/ Nth(s, DominantHead) <= 0 THEN s
  ELSE Dominant(keyword, s, Ranking(s), k, allowed)

(* _boost_structured_semantics, then tools called before count for less.    *)
Rerank(q, s) ==
  FoldLeft(LAMBDA acc, n : IF n \in DOMAIN acc THEN [acc EXCEPT ![n] = (@ * 8) \div 10] ELSE acc,
           Times(s, q.factor), q.history)

(***************************************************************************)
(* The results                                                             *)
(***************************************************************************)
(* _build_candidates: a diversity of 0 counts as none.                      *)
Wider(e) == e.reranker # <<>> \/ (e.diversity # <<>> /\ e.diversity # <<0>>)

Candidates(e, g, s) ==
  SelectSeq(First(Ranking(s), IF Wider(e) THEN 3 * e.topK ELSE e.topK), LAMBDA n : n \in Tools(g))

Reranked(e, names) ==
  IF e.reranker = <<>> THEN names
  ELSE First(SelectSeq(e.reranker, LAMBDA n : n \in ToSet(names)), 2 * e.topK)

(* mmr_rerank, in ten-thousandths: the first of the best is taken.          *)
Similar(chosen, n) ==
  IF chosen = <<>> THEN 0
  ELSE LET v == {Resembles[n][m] : m \in ToSet(chosen)} IN CHOOSE x \in v : \A y \in v : y <= x

Relevant(s, n) == IF Highest(s) = 0 THEN 0 ELSE (100 * s[n]) \div Highest(s)

Marginal(s, lambda, chosen, n) ==
  lambda * Relevant(s, n) - (100 - lambda) * Similar(chosen, n)

FirstBest(names, value) ==
  names[CHOOSE i \in DOMAIN names :
          \A j \in DOMAIN names : value[names[j]] < value[names[i]]
                                   \/ (value[names[j]] = value[names[i]] /\ i <= j)]

Extend(s, lambda, chosen, rest) ==
  IF rest = <<>> THEN chosen
  ELSE Append(chosen, FirstBest(rest, [n \in ToSet(rest) |-> Marginal(s, lambda, chosen, n)]))

Diverse(e, s, names) ==
  IF e.diversity = <<>> THEN names
  ELSE FoldLeft(LAMBDA acc, i : Extend(s, e.diversity[1], acc,
                                       SelectSeq(names, LAMBDA n : n \notin ToSet(acc))),
                <<>>, [i \in 1 .. e.topK |-> i])

(* _build_candidates and _post_process                                      *)
Results(e, g, s) == First(Diverse(e, s, Reranked(e, Candidates(e, g, s))), e.topK)

(***************************************************************************)
(* What is told of the results                                             *)
(***************************************************************************)
Useful == {"requires", "precedes", "complementary", "conflicts_with"}

EdgesOf(g, n) ==
  SelectSeq(g.edges, LAMBDA e : e.relation \in Useful /\ e.from = n)
  \o SelectSeq(g.edges, LAMBDA e : e.relation \in Useful /\ e.from # n /\ e.to = n)

Told(e, n) ==
  IF e.from = n THEN <<[target |-> e.to, type |-> e.relation, direction |-> "outgoing"]>>
  ELSE IF e.relation \in {"requires", "precedes"}
       THEN <<[target |-> e.from, type |-> e.relation, direction |-> "incoming"]>> ELSE <<>>

(* Of two relations with the same tool the first is told.                   *)
Relations(g, n, others) ==
  FoldLeft(LAMBDA acc, e :
             IF Other(e, n) \notin others \/ \E r \in ToSet(acc) : r.target = Other(e, n)
             THEN acc ELSE acc \o Told(e, n),
           <<>>, EdgesOf(g, n))

Targets(edges) == [i \in DOMAIN edges |-> edges[i].to]

Prerequisites(g, n, others) ==
  Targets(SelectSeq(g.edges, LAMBDA e : e.from = n /\ e.relation = "requires"
                                        /\ e.to \in Tools(g) \ others))

(* _enrich_relations                                                        *)
Enriched(g, names) ==
  [n \in ToSet(names) |-> [relations |-> Relations(g, n, ToSet(names)),
                           prerequisites |-> Prerequisites(g, n, ToSet(names))]]

Outgoing(t, n, type) ==
  {r.target : r \in {x \in ToSet(t[n].relations) : x.direction = "outgoing" /\ x.type = type}}

(* Mutant of OrderPairs: both relations are read the same way.              *)
OrderPairsAlong(t) ==
  UNION {{<<n, m>> : m \in Outgoing(t, n, "precedes") \cup Outgoing(t, n, "requires")} : n \in DOMAIN t}

OrderPairs(t) ==
  UNION {{<<n, m>> : m \in Outgoing(t, n, "precedes")}
         \cup {<<m, n>> : m \in Outgoing(t, n, "requires")} : n \in DOMAIN t}

(* build_workflow_summary: Kahn's algorithm over sets, which Python walks   *)
(* in an order of its own.                                                  *)
Named(pairs) == {p[1] : p \in pairs} \cup {p[2] : p \in pairs}

Waiting(pairs, out, n) == {p \in pairs : p[2] = n /\ p[1] \notin ToSet(out)} # {}

Freed(pairs, out, n, order) ==
  SelectSeq(order, LAMBDA m : <<n, m>> \in pairs /\ ~Waiting(pairs, Append(out, n), m))

KahnStep(pairs, order, acc) ==
  IF acc.queue = <<>> THEN acc
  ELSE LET n == acc.queue[1] IN
       [queue |-> Tail(acc.queue) \o Freed(pairs, acc.out, n, order), out |-> Append(acc.out, n)]

Kahn(pairs, nodes, order) ==
  FoldLeft(LAMBDA acc, i : KahnStep(pairs, order, acc),
           [queue |-> SelectSeq(nodes, LAMBDA n : ~Waiting(pairs, <<>>, n)), out |-> <<>>],
           nodes).out

Summary(pairs, nodes, order) ==
  IF pairs = {} THEN <<>>
  ELSE AddNew(Kahn(pairs, nodes, order), nodes)

(***************************************************************************)
(* One search                                                              *)
(***************************************************************************)
Init ==
  /\ engine \in Engines /\ query \in Queries /\ graph \in Graphs
  /\ stage = "asked" /\ pool = {} /\ found = <<>> /\ scores = <<>>
  /\ results = <<>> /\ told = <<>> /\ summary = <<>>

Given == UNCHANGED <<engine, query, graph>>

Advance(from, to) == stage = from /\ stage' = to /\ Given

Search ==
  /\ Advance("asked", "found") /\ found' = ResourceScores(engine, query, graph)
  /\ UNCHANGED <<pool, scores, results, told, summary>>

MaybePrefilter ==
  /\ Advance("found", "pooled") /\ pool' = Pool(engine, query, graph, found)
  /\ UNCHANGED <<found, scores, results, told, summary>>

ExpandGraph ==
  /\ Advance("pooled", "expanded") /\ found' = GraphScores(engine, query, graph, found, pool)
  /\ UNCHANGED <<pool, scores, results, told, summary>>

FuseAndFilter ==
  /\ Advance("expanded", "fused")
  /\ scores' = Fused(graph, Sources(engine, query, graph, pool))
  /\ UNCHANGED <<pool, found, results, told, summary>>

InjectGraphCandidates ==
  /\ Advance("fused", "injected") /\ scores' = InjectGraph(graph, scores, found, engine.topK)
  /\ UNCHANGED <<pool, found, results, told, summary>>

(* _boost_semantic_phrase_matches follows, with the phrases it knows.       *)
BoostNameOverlap ==
  /\ Advance("injected", "named") /\ scores' = Times(BoostNames(query, scores), query.phrase)
  /\ UNCHANGED <<pool, found, results, told, summary>>

InjectClauseCandidates ==
  /\ Advance("named", "claused")
  /\ scores' = InjectClauses(graph, scores, Clauses(engine, query), query.diverse, engine.topK)
  /\ UNCHANGED <<pool, found, results, told, summary>>

Boost ==
  /\ Advance("claused", "boosted")
  /\ scores' = BoostByText(engine, query, BoostMethods(query, scores))
  /\ UNCHANGED <<pool, found, results, told, summary>>

PreserveDominant ==
  /\ Advance("boosted", "preserved")
  /\ scores' = Preserve(Keyword(engine, query), scores, ~query.diverse)
  /\ UNCHANGED <<pool, found, results, told, summary>>

RerankBySemantics ==
  /\ Advance("preserved", "reranked") /\ scores' = Rerank(query, scores)
  /\ UNCHANGED <<pool, found, results, told, summary>>

BuildResults ==
  /\ Advance("reranked", "built") /\ results' = Results(engine, graph, scores)
  /\ UNCHANGED <<pool, found, scores, told, summary>>

EnrichRelations ==
  /\ Advance("built", "enriched") /\ told' = Enriched(graph, results)
  /\ UNCHANGED <<pool, found, scores, results, summary>>

Summarize ==
  /\ Advance("enriched", "summarized")
  /\ \E o, p \in HashOrders :
       summary' = Summary(OrderPairs(told),
                          SelectSeq(o, LAMBDA n : n \in Named(OrderPairs(told))), p)
  /\ UNCHANGED <<pool, found, scores, results, told>>

Next ==
  \/ Search \/ MaybePrefilter \/ ExpandGraph \/ FuseAndFilter \/ InjectGraphCandidates
  \/ BoostNameOverlap \/ InjectClauseCandidates \/ Boost \/ PreserveDominant
  \/ RerankBySemantics \/ BuildResults \/ EnrichRelations \/ Summarize

Spec == Init /\ [][Next]_search

(***************************************************************************)
(* Properties                                                              *)
(***************************************************************************)
(* The prefilter keeps what BM25 found best and holds its limit, whatever  *)
(* the category and embedding signals add (CategoryPrefilter, _cap).       *)
PrefilterKeepsKeywords ==
  pool # {} =>
    KeywordHits(engine, query) \subseteq pool /\ Cardinality(pool) <= MaxPool

Leaders ==
  {n \in (DOMAIN query.keyword) \cap DOMAIN scores :
     query.keyword[n] >= 60 /\ \A m \in DOMAIN query.keyword \ {n} : query.keyword[m] < query.keyword[n]}

Above(n) == {m \in DOMAIN scores : scores[m] > scores[n]}

Rivals(n) == {m \in DOMAIN query.keyword : 100 * query.keyword[m] >= 75 * query.keyword[n]}

(* When the guard has run, a strong keyword leader is not buried by tools  *)
(* without close lexical evidence, however the fusion, the clauses, the    *)
(* graph and the boosts agreed on them                                     *)
(* (_preserve_dominant_keyword_candidates).                                *)
LeaderIsNotBuried ==
  stage = "preserved" => \A n \in Leaders : Cardinality(Above(n) \ Rivals(n)) < DominantHead

(* retrieval/engine.py:983: strong lexical winners are kept visible: the   *)
(* leader is among the first DominantHead.                                 *)
DominantIsVisible ==
  stage = "preserved" => \A n \in Leaders : Cardinality(Above(n)) < DominantHead

RequiredBy(n) == {e.to : e \in {x \in ToSet(graph.edges) : x.from = n /\ x.relation = "requires"}}

(* A tool that is offered never hides what it requires: it is offered too, *)
(* related to it, or listed as a prerequisite (_enrich_relations).         *)
PrerequisitesAreTold ==
  stage \in {"enriched", "summarized"} =>
    \A n \in ToSet(results) : \A m \in RequiredBy(n) \cap Tools(graph) :
      \/ m \in ToSet(told[n].prerequisites)
      \/ m \in ToSet(results) /\ \E r \in ToSet(told[n].relations) : r.target = m

Must == {<<e.to, e.from>> : e \in {x \in ToSet(graph.edges) : x.relation = "requires"}}
        \cup {<<e.from, e.to>> : e \in {x \in ToSet(graph.edges) : x.relation = "precedes"}}

Between(S) == {p \in Must : p[1] \in S /\ p[2] \in S}

(* Names on a cycle of the relations, or behind one.                       *)
Entangled(S) ==
  CHOOSE B \in SUBSET S :
    /\ \A n \in B : \E p \in Between(S) : p[2] = n /\ p[1] \in B
    /\ \A C \in SUBSET S :
         (\A n \in C : \E p \in Between(S) : p[2] = n /\ p[1] \in C) => C \subseteq B

(* The suggested order puts every tool after what it requires and after    *)
(* what precedes it, unless they wait for each other, names no tool twice  *)
(* and none that is not a result (build_workflow_summary).                 *)
SummaryIsOrdered ==
  stage = "summarized" =>
    /\ ToSet(summary) \subseteq ToSet(results) /\ IsInjective(summary)
    /\ \A p \in Between(ToSet(results)) :
         p[2] \notin Entangled(ToSet(results)) => Place(summary, p[1]) < Place(summary, p[2])

(* What is told of the results beside their order of rank is enough to use *)
(* them: what each requires, and in which order they go.                   *)
UseIsTold == PrerequisitesAreTold /\ SummaryIsOrdered

Primary == UNION {DOMAIN x[1] : x \in ToSet(Sources(engine, query, graph, pool))}

(* retrieval/engine.py:798: the graph never displaces a result of BM25:    *)
(* what it injected stands behind what a primary channel found.            *)
GraphNeverDisplaces ==
  stage = "built" =>
    \A i, j \in DOMAIN results :
      (i < j /\ results[j] \in Primary) => results[i] \in Primary
=============================================================================
