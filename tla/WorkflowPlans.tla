--------------------------- MODULE WorkflowPlans ---------------------------
(***************************************************************************)
(* Plans drawn from the graph alone (workflow.py): the tool a goal names,  *)
(* the tools that must be called before it, their order; then what an LLM, *)
(* a user and a file do to the plan.  A plan is [steps, confidence] and a  *)
(* step [tool, order, from], from the parameters that were mapped.         *)
(***************************************************************************)
EXTENDS Retrieval

CONSTANTS
  Goals,           \* [words, intent] of what a user wants
  MaxSteps,        \* the limit of a plan
  TopTools,        \* top_k of a plan, 5
  Answers,         \* sequences of [tool, from] an LLM may answer
  Edits,           \* sequences of names a user may want
  Mappings,        \* what a parameter may be mapped to
  EditBound        \* edits of one plan

VARIABLES goal, plan, saved, edits

workflow == <<goal, plan, saved, edits>>

NoPlan == [steps |-> <<>>, confidence |-> "graph"]

(* _name_match                                                              *)
NameMatch(g, words) ==
  [n \in {m \in Tools(g) : words \cap Words[m].parts # {}} |->
     Cardinality(words \cap Words[n].parts)]

(* The names a goal may mean, in the order of the dictionary.               *)
Meant(g, w, resource) ==
  IF resource # <<>> THEN [scores |-> resource, order |-> Ranking(resource)]
  ELSE [scores |-> NameMatch(g, w.words),
        order |-> SelectSeq(g.nodes, LAMBDA n : n \in DOMAIN NameMatch(g, w.words))]

GoalScores(g, w) == Meant(g, w, ResourceFirst(g, CategoryIndex(g), w.words, w.intent, TopTools))

(* _pick_primary: the first of the best.                                    *)
Fit(w, n) == 2 * Cardinality(w.words \cap Words[n].parts) + Cardinality(w.words \cap Words[n].text)

PickPrimary(w, m) ==
  Sorted(DOMAIN m.scores, [n \in DOMAIN m.scores |-> <<-m.scores[n], -Fit(w, n), Place(m.order, n)>>])[1]

(***************************************************************************)
(* _build_chain: a search two steps deep for what must come before.        *)
(***************************************************************************)
(* _get_category: the first one counts.                                     *)
CategoryOf(g, n) ==
  LET cs == SelectSeq(g.edges, LAMBDA e : e.from = n /\ e.relation = "belongs_to" /\ g.members
                                          /\ g.kind[e.to] = "category")
  IN  {e.to : e \in ToSet(First(cs, 1))}

Reads(n) == Words[n].method = "GET" \/ "get" \in Words[n].verbs
Creates(n) == Words[n].method = "POST" \/ "create" \in Words[n].verbs

(* Relations are told by the names of the members of RelationType.          *)
Provides(g, e, n) == g.members /\ e.relation = "requires" /\ e.from = n /\ Reads(e.to)

SetsUp(g, e, n) ==
  /\ g.members /\ e.relation = "precedes" /\ e.to = n /\ e.from # n
  /\ CategoryOf(g, n) \cap CategoryOf(g, e.from) # {} /\ Creates(e.from)

BothWays(g, n) ==
  SelectSeq(g.edges, LAMBDA e : e.from = n) \o SelectSeq(g.edges, LAMBDA e : e.from # n /\ e.to = n)

Comes(g, e, n) == Other(e, n) \in Tools(g) /\ (Provides(g, e, n) \/ SetsUp(g, e, n))

(* chain: [before : name -> names, order : names, as they were met, queue]. *)
Meet(g, n, depth, chain) ==
  FoldLeft(LAMBDA acc, e :
             IF Other(e, n) \in ToSet(acc.order) \/ ~Comes(g, e, n) THEN acc
             ELSE [before |-> (Other(e, n) :> {}) @@ [acc.before EXCEPT ![n] = @ \cup {Other(e, n)}],
                   order |-> Append(acc.order, Other(e, n)),
                   queue |-> Append(acc.queue, <<Other(e, n), depth + 1>>)],
           chain, BothWays(g, n))

ChainStep(g, limit, chain) ==
  IF chain.queue = <<>> \/ Len(chain.order) >= limit THEN chain
  ELSE LET n == chain.queue[1][1]  depth == chain.queue[1][2]
           rest == [chain EXCEPT !.queue = Tail(@)]
       IN  IF depth >= 2 THEN rest ELSE Meet(g, n, depth, rest)

Gathered(g, target, limit) ==
  FoldLeft(LAMBDA acc, i : ChainStep(g, limit, acc),
           [before |-> target :> {}, order |-> <<target>>, queue |-> << <<target, 0>> >>],
           g.nodes)

(* Mutant of Trimmed: the target is not counted.                            *)
TrimmedWithoutTarget(chain, target, limit, hash) ==
  LET direct == First(SelectSeq(hash, LAMBDA n : n \in chain.before[target]), limit)
  IN  [before |-> (target :> ToSet(direct)) @@ [n \in ToSet(direct) |-> chain.before[n] \cap ToSet(direct)],
       order |-> <<target>> \o direct]

(* A chain that is too long keeps the target and what it needs directly.    *)
Trimmed(chain, target, limit, hash) ==
  LET direct == First(SelectSeq(hash, LAMBDA n : n \in chain.before[target]), limit - 1)
  IN  [before |-> (target :> ToSet(direct)) @@ [n \in ToSet(direct) |-> chain.before[n] \cap ToSet(direct)],
       order |-> <<target>> \o direct]

BuildChain(chain, target, limit, hash) ==
  IF Len(chain.order) <= limit THEN [before |-> chain.before, order |-> chain.order]
  ELSE Trimmed(chain, target, limit, hash)

(* _topo_sort                                                               *)
Pairs(chain) == UNION {{<<m, n>> : m \in chain.before[n]} : n \in DOMAIN chain.before}

TopoSort(chain) == AddNew(Kahn(Pairs(chain), chain.order, chain.order), chain.order)

Steps(names) == [i \in DOMAIN names |-> [tool |-> names[i], order |-> i, from |-> {}]]

(***************************************************************************)
(* Planning and editing                                                    *)
(***************************************************************************)
NoGoal == [words |-> {}, intent |-> "neutral"]

(* A request searches or plans.                                             *)
SearchInit == Init /\ goal = NoGoal /\ plan = NoPlan /\ saved = <<>> /\ edits = 0

PlanInit ==
  /\ goal \in Goals /\ graph \in Graphs /\ plan = NoPlan /\ saved = <<>> /\ edits = 0
  /\ stage = "planning" /\ engine = <<>> /\ query = <<>> /\ pool = {} /\ found = <<>>
  /\ scores = <<>> /\ results = <<>> /\ told = <<>> /\ summary = <<>>

PlanFor(g, target, limit) ==
  \E hash \in HashOrders :
    plan' = [steps |-> Steps(TopoSort(BuildChain(Gathered(g, target, limit), target, limit, hash))),
             confidence |-> "graph"]

(* plan()                                                                   *)
MakePlan(g) ==
  /\ stage = "planning" /\ plan = NoPlan /\ GoalScores(g, goal).order # <<>>
  /\ PlanFor(g, PickPrimary(goal, GoalScores(g, goal)), MaxSteps)
  /\ UNCHANGED <<goal, saved, edits>>

Numbered(g, answer) ==
  SelectSeq([i \in DOMAIN answer |-> [tool |-> answer[i].tool, order |-> i, from |-> answer[i].from]],
            LAMBDA s : s.tool \in Tools(g))

(* _enhance_with_llm: an answer without a usable step changes nothing.      *)
Enhance(g) ==
  /\ plan.confidence = "graph" /\ plan.steps # <<>> /\ edits = 0
  /\ \E a \in Answers :
       LET steps == Numbered(g, First(a, MaxSteps)) IN
       /\ steps # <<>> /\ plan' = [steps |-> steps, confidence |-> "graph+llm"]
  /\ UNCHANGED <<goal, saved, edits>>

Editing == plan # NoPlan /\ edits < EditBound /\ edits' = edits + 1 /\ UNCHANGED goal

Renumbered(steps) == [i \in DOMAIN steps |-> [steps[i] EXCEPT !.order = i]]

Manual(steps) == plan' = [steps |-> Renumbered(steps), confidence |-> "manual"]

InsertStep(g) ==
  /\ Editing /\ UNCHANGED saved
  /\ \E n \in Tools(g), i \in 1 .. Len(plan.steps) + 1 :
       Manual(InsertAt(plan.steps, i, [tool |-> n, order |-> 0, from |-> {}]))

RemoveStep ==
  /\ Editing /\ UNCHANGED saved
  /\ \E s \in ToSet(plan.steps) : Manual(SelectSeq(plan.steps, LAMBDA t : t.tool # s.tool))

(* Of steps with the same tool the last stands for its name.                *)
LastOf(n) == plan.steps[CHOOSE i \in DOMAIN plan.steps :
                          plan.steps[i].tool = n
                          /\ \A j \in DOMAIN plan.steps : j > i => plan.steps[j].tool # n]

Reorder ==
  /\ Editing /\ UNCHANGED saved
  /\ \E names \in Edits :
       LET kept == SelectSeq(names, LAMBDA n : \E s \in ToSet(plan.steps) : s.tool = n)
       IN  Manual([i \in DOMAIN kept |-> LastOf(kept[i])])

FirstOf(n) == CHOOSE i \in DOMAIN plan.steps :
                plan.steps[i].tool = n /\ \A j \in 1 .. i-1 : plan.steps[j].tool # n

SetParamMapping ==
  /\ Editing /\ UNCHANGED saved
  /\ \E s \in ToSet(plan.steps), x \in Mappings :
       plan' = [plan EXCEPT !.steps[FirstOf(s.tool)].from = @ \cup {x}]

Save == /\ Editing /\ saved' = <<plan>> /\ UNCHANGED plan

(* load: steps of tools that are gone are left out.                         *)
Load(g) ==
  /\ Editing /\ saved # <<>> /\ UNCHANGED saved
  /\ plan' = [saved[1] EXCEPT !.steps = Renumbered(SelectSeq(@, LAMBDA s : s.tool \in Tools(g)))]

WorkflowNext ==
  \/ MakePlan(graph) \/ Enhance(graph) \/ InsertStep(graph) \/ RemoveStep \/ Reorder
  \/ SetParamMapping \/ Save \/ Load(graph)

RequestInit == SearchInit \/ PlanInit

RequestNext == (Next /\ UNCHANGED workflow) \/ (WorkflowNext /\ UNCHANGED search)

RequestSpec == RequestInit /\ [][RequestNext]_<<search, workflow>>

(***************************************************************************)
(* Properties                                                              *)
(***************************************************************************)
(* A plan of the graph ends in its target, is not too long, and each step  *)
(* before the last is needed by a later one (_build_chain, _topo_sort).    *)
PlanEndsInTarget ==
  (plan # NoPlan /\ plan.confidence = "graph") =>
    /\ Len(plan.steps) <= MaxSteps
    /\ plan.steps[Len(plan.steps)].tool = PickPrimary(goal, GoalScores(graph, goal))
    /\ \A i \in 1 .. Len(plan.steps) - 1 :
         \E j \in i+1 .. Len(plan.steps) : <<plan.steps[i].tool, plan.steps[j].tool>> \in Must

(* workflow.py:256 calls the third step of plan() a topological sort for   *)
(* execution order: a tool comes after what it requires.                   *)
PlanIsOrdered ==
  plan.confidence = "graph" =>
    \A i, j \in DOMAIN plan.steps :
      (plan.steps[j].tool \in RequiredBy(plan.steps[i].tool)
       /\ plan.steps[i].tool \notin Entangled({plan.steps[h].tool : h \in DOMAIN plan.steps})) => j < i
=============================================================================
