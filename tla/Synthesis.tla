----------------------------- MODULE Synthesis -----------------------------
(***************************************************************************)
(* One call of PathSynthesizer.synthesize on one graph: the request is     *)
(* chosen in Init, the only step computes the result.  The invariants say  *)
(* what the result must be, in terms of the request and independently of   *)
(* how Synthesizer computes it.                                            *)
(***************************************************************************)
EXTENDS Synthesizer

CONSTANTS Requests   \* records [g, target, ents, excl]

VARIABLES request, result
vars == <<request, result>>

Pending == [Fresh EXCEPT !.err = "pending"]

Init == request \in Requests /\ result = Pending

Answer ==
  /\ result = Pending
  /\ result' = Synthesize(request.g, request.target, request.ents, request.excl)
  /\ UNCHANGED request

Done == result # Pending /\ UNCHANGED vars

Next == Answer \/ Done

Spec == Init /\ [][Next]_vars
----------------------------------------------------------------------------
Steps == result.steps
Planless == result.err # ""

(* Every way a step's argument is filled, with the step and the row.       *)
Arguments ==
  {<<i, row>> \in (DOMAIN Steps) \X UNION {Rows(request.g.consumes[t]) : t \in AllTools} :
     /\ row \in Rows(request.g.consumes[Steps[i].tool])
     /\ row.field \in DOMAIN Steps[i].args}

Filled(i, row) == Steps[i].args[row.field]

TypeOK ==
  /\ result.err \in {"", "pending", "enum_required", "dynamic_option",
                     "unknown_target", "max_depth", "cycle"}
  /\ \A i \in DOMAIN Steps : Steps[i].tool \in AllTools
  /\ Planned(result) \cap result.visiting = {}

(* A plan can be executed front to back: each binding names an earlier     *)
(* step, each tool has one step, the target comes last, and every other    *)
(* step is there because a later one binds to it.                          *)
PlanIsExecutable ==
  ~Planless =>
    /\ Steps # <<>> /\ Steps[Len(Steps)].tool = request.target
    /\ \A i, j \in DOMAIN Steps : Steps[i].tool = Steps[j].tool => i = j
    /\ \A a \in Arguments :
         Filled(a[1], a[2]).kind = "bind" =>
           \E j \in 1 .. a[1] - 1 : Steps[j].tool = Filled(a[1], a[2]).from
    /\ \A j \in 1 .. Len(Steps) - 1 :
         \E a \in Arguments : a[1] > j /\ Filled(a[1], a[2]).from = Steps[j].tool

(* Synthesis around a failed tool stays around it: no excluded tool is     *)
(* chained (exclude_tools; the target itself is the entry point).          *)
ExcludedAvoided ==
  ~Planless => \A j \in 1 .. Len(Steps) - 1 : Steps[j].tool \notin request.excl

(* Only search and read tools are pulled in as prerequisites, unless the   *)
(* graph holds a workflow edge that names the tool for this very consumer. *)
SideEffectsNotChained ==
  ~Planless => \A a \in Arguments :
    LET f == Filled(a[1], a[2]) IN
    f.kind = "bind" =>
      \/ request.g.action[f.from] \in {"", "search", "read"}
      \/ \E e \in request.g.edges : e.from = Steps[a[1]].tool /\ e.to = f.from

(* A value is never sourced from a tool that only relays it: some product  *)
(* of the producer matches the row without being one of its own inputs     *)
(* (the echo-back filter).                                                 *)
ProducersCreate ==
  ~Planless => \A a \in Arguments :
    LET f == Filled(a[1], a[2]) IN
    f.kind = "bind" =>
      \E p \in Rows(request.g.produces[f.from]) :
        /\ Matches(p, a[2])
        /\ \A c \in Rows(request.g.consumes[f.from]) : ~Same(c.field, p.field)

(* A tool is chained only if it may be and is of use: it was not excluded, *)
(* has no side effect the graph did not ask for, and creates the value     *)
(* (_find_producer, _is_chain_eligible, _rank_producers).                  *)
ChainedAreFit == ExcludedAvoided /\ SideEffectsNotChained /\ ProducersCreate

(* The user is asked for a value only when the graph has no other way to   *)
(* it: unless the chain got too deep, every unexcluded lookup tool that    *)
(* creates the field under that name is itself still waiting for this step *)
(* (it comes later in the plan), i.e. using it would close a cycle.        *)
AskedOnlyWhenNeeded ==
  ~Planless => \A a \in Arguments :
    LET f == Filled(a[1], a[2]) IN
    f.kind = "slot" /\ f.from = "" =>
      \A t \in AllTools \ request.excl :
        \/ t \in {Steps[j].tool : j \in a[1] .. Len(Steps)}
        \/ ~ \E p \in Rows(request.g.produces[t]) : p.field = a[2].field
        \/ \E c \in Rows(request.g.consumes[t]) : c.field = a[2].field
        \/ request.g.action[t] \notin {"", "search", "read"}
        \/ <<Steps[a[1]].tool, t>> \in request.g.outside
        \/ \E p \in Rows(request.g.produces[t]), c \in Rows(request.g.consumes[t]) :
             Same(p.tag, c.tag) \/ Same(p.alias, c.alias)

(* The loose index lets a field match its folded spelling: a required      *)
(* field that some unexcluded tool produces under a name that differs only *)
(* in case and separators is not left to the user.                         *)
LooseNamesMatch ==
  ~Planless => \A a \in Arguments :
    LET f == Filled(a[1], a[2]) IN
    f.kind = "slot" /\ f.from = "" =>
      ~ \E t \in AllTools \ (request.excl \cup {Steps[j].tool : j \in a[1] .. Len(Steps)}) :
          /\ request.g.consumes[t] = <<>> /\ request.g.action[t] = ""
          /\ \E p \in Rows(request.g.produces[t]) : Fold(p.field) = Fold(a[2].field)

(* The path of a binding yields the desired field of the producer's        *)
(* response: it is the path of one of the rows the producer declares.      *)
BindingYieldsField ==
  ~Planless => \A a \in Arguments :
    LET f == Filled(a[1], a[2]) IN
    f.kind = "bind" => \E p \in Rows(request.g.produces[f.from]) : p.field = f.field
============================================================================
