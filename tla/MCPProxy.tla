------------------------------ MODULE MCPProxy ------------------------------
(***************************************************************************)
(* mcp_proxy.py: one MCP server in front of several backends.  A process   *)
(* connects to the backends, gives each tool a proxy name, builds the tool *)
(* graph or loads it from the cache files, and serves its client sessions, *)
(* whose requests are interleaved at every await.  Between two processes   *)
(* the backends may be redeployed; only the cache files stay.              *)
(*                                                                         *)
(* A name is the sequence of its parts, those that "__" separates.         *)
(***************************************************************************)
EXTENDS Integers, FiniteSets, Sequences, SequencesExt

CONSTANTS
  Parts,          \* the strings names are made of, without "__"
  Backends,       \* names of the configured backends, in their order
  Offerings,      \* what the backends may list: functions to lists of names
  Sessions,       \* client sessions of one process (stdio: a single one)
  Requests,       \* requests in flight at a time
  SessionOf,      \* request -> session
  MetaTools,      \* search_tools, get_tool_schema, call_backend_tool
  Threshold,      \* passthrough_threshold
  TopK,           \* bound on the results of a search
  Caching,        \* a cache_path is configured
  Interruptible,  \* phases in which the process may die or a write may fail
  MaxStarts,      \* bound on the processes of a behaviour
  NoFile, NoCall

Name == Seq(Parts) \ {<<>>}

(* No backend occurs twice, nor a tool in one list.                        *)
ASSUME ProxyAssumption ==
  /\ Backends \in Seq(Name) /\ IsInjective(Backends)
  /\ \A o \in Offerings :
       /\ DOMAIN o = Range(Backends)
       /\ \A b \in Range(Backends) : o[b] \in Seq(Name) /\ IsInjective(o[b])
  /\ SessionOf \in [Requests -> Sessions]
  /\ Caching \in BOOLEAN
  /\ {Threshold, TopK, MaxStarts} \subseteq Nat
  /\ Interruptible \subseteq {"connecting", "saveMeta", "saveGraph", "serving"}

VARIABLES
  phase,     \* of the process: "down", "connecting", "saveMeta", ...
  starts,    \* processes started so far (bound)
  offers,    \* what the backends list while this process lives
  next,      \* the backend being connected, an index into Backends
  incoming,  \* its tools that have no proxy name yet
  connected, \* DOMAIN _connections
  routes,    \* proxy name -> tool: _tool_to_backend and _all_tools
  graph,     \* _tg: tool name -> the tool ingested under it
  gateway,   \* _gateway_mode
  exposed,   \* DOMAIN _exposed_tools
  workflow,  \* _last_workflow: the tools it orders, none where it is None
  meta,      \* cache file: the names its fingerprint stands for
  stored,    \* cache file: the saved graph
  clients,   \* session -> what its client knows
  pending,   \* request -> the answer held back by the notification, or Idle
  delivered  \* history: the last tool call

process == <<next, incoming, connected, routes, graph, gateway, exposed,
             workflow>>
files   == <<meta, stored>>
vars    == <<phase, starts, offers, process, files, clients, pending, delivered>>

Tool(b, n) == [backend |-> b, name |-> n]

Empty == [n \in {} |-> NoCall]
----------------------------------------------------------------------------
(* told: a tools/list_changed is on its way to the client or not acted on  *)
(* yet; view: the backend tools of its last tools/list.                    *)
NewClient == [open |-> TRUE, listed |-> FALSE, view |-> {}, told |-> FALSE,
              offered |-> {}]

NewClients == [s \in Sessions |-> NewClient]

(* No answer is held back (one that is has at least one result).           *)
Idle == {}

NonePending == [r \in Requests |-> Idle]

Init ==
  /\ phase = "down" /\ starts = 0
  /\ offers \in Offerings
  /\ next = 1 /\ incoming = <<>>
  /\ connected = {} /\ routes = Empty /\ graph = Empty
  /\ gateway = FALSE /\ exposed = {} /\ workflow = {}
  /\ meta = NoFile /\ stored = NoFile
  /\ clients = NewClients /\ pending = NonePending
  /\ delivered = NoCall

Start ==
  /\ phase = "down" /\ starts < MaxStarts
  /\ phase' = "connecting"
  /\ starts' = starts + 1
  /\ offers' \in Offerings
  /\ UNCHANGED <<process, files, clients, pending, delivered>>
----------------------------------------------------------------------------
Joined(b) == connected \cup {b}

(* The session of the next backend is up and has listed its tools.         *)
Connect ==
  /\ phase = "connecting" /\ incoming = <<>> /\ next <= Len(Backends)
  /\ connected' = Joined(Backends[next])
  /\ incoming' = offers[Backends[next]]
  /\ next' = next + 1
  /\ UNCHANGED <<phase, starts, offers, routes, graph, gateway, exposed,
                 workflow, files, clients, pending, delivered>>

(* "Failed to connect": the proxy goes on without this backend.            *)
ConnectFails ==
  /\ phase = "connecting" /\ incoming = <<>> /\ next <= Len(Backends)
  /\ next' = next + 1
  /\ UNCHANGED <<phase, starts, offers, incoming, connected, routes, graph,
                 gateway, exposed, workflow, files, clients, pending, delivered>>

(* Mutant of ProxyName: no prefix for a name that is taken.                *)
ProxyNameBare(b, n) == n

ProxyName(b, n) == IF n \in DOMAIN routes THEN b \o n ELSE n

(* One round of the loop over the tools of the backend just connected.     *)
Register ==
  /\ phase = "connecting" /\ incoming # <<>>
  /\ LET b == Backends[next - 1]
         key == ProxyName(b, Head(incoming)) IN
     routes' = [k \in DOMAIN routes \cup {key} |->
                  IF k = key THEN Tool(b, Head(incoming)) ELSE routes[k]]
  /\ incoming' = Tail(incoming)
  /\ UNCHANGED <<phase, starts, offers, next, connected, graph, gateway,
                 exposed, workflow, files, clients, pending, delivered>>
----------------------------------------------------------------------------
(* Ingesting the backends in their order: the graph knows tools by their   *)
(* own names, a later tool replaces an earlier one of the same name.       *)
Ingested ==
  [n \in UNION {Range(offers[b]) : b \in connected} |->
     LET i == CHOOSE i \in DOMAIN Backends :
                /\ Backends[i] \in connected /\ n \in Range(offers[Backends[i]])
                /\ \A j \in i+1 .. Len(Backends) :
                     ~(Backends[j] \in connected /\ n \in Range(offers[Backends[j]]))
     IN Tool(Backends[i], n)]

(* Mutant of CacheUsable: a cache is taken for valid when it can be read.  *)
CacheUsableIfThere == Caching /\ meta # NoFile /\ stored # NoFile

CacheUsable == Caching /\ meta # NoFile /\ meta = DOMAIN routes /\ stored # NoFile

ReadyToBuild == phase = "connecting" /\ incoming = <<>> /\ next > Len(Backends)

(* _build_tool_graph, then the choice of the mode.                         *)
LoadGraph ==
  /\ ReadyToBuild /\ CacheUsable
  /\ graph' = stored
  /\ phase' = "serving"
  /\ gateway' = (Cardinality(DOMAIN routes) > Threshold)
  /\ UNCHANGED <<starts, offers, next, incoming, connected, routes, exposed,
                 workflow, files, clients, pending, delivered>>

BuildGraph ==
  /\ ReadyToBuild /\ ~CacheUsable
  /\ graph' = Ingested
  /\ phase' = IF Caching THEN "saveMeta" ELSE "serving"
  /\ gateway' = (Cardinality(DOMAIN routes) > Threshold)
  /\ UNCHANGED <<starts, offers, next, incoming, connected, routes, exposed,
                 workflow, files, clients, pending, delivered>>

(* _save_cache: the fingerprint first, then the graph.                     *)
SaveMeta ==
  /\ phase = "saveMeta"
  /\ meta' = DOMAIN routes
  /\ phase' = "saveGraph"
  /\ UNCHANGED <<starts, offers, process, stored, clients, pending, delivered>>

SaveGraph ==
  /\ phase = "saveGraph"
  /\ stored' = graph
  /\ phase' = "serving"
  /\ UNCHANGED <<starts, offers, process, meta, clients, pending, delivered>>

(* A write that does not succeed leaves the file as it was or unreadable.  *)
Torn ==
  /\ meta' \in {meta} \cup (IF phase = "saveMeta" THEN {NoFile} ELSE {})
  /\ stored' \in {stored} \cup (IF phase = "saveGraph" THEN {NoFile} ELSE {})

(* "Cache save failed": logged, the proxy serves all the same.             *)
SaveFails ==
  /\ phase \in {"saveMeta", "saveGraph"} \cap Interruptible
  /\ Torn
  /\ phase' = "serving"
  /\ UNCHANGED <<starts, offers, process, clients, pending, delivered>>
----------------------------------------------------------------------------
(* The proxy names search() may put on a result: its own name if it is     *)
(* one, else that of some tool that ends in "__" and the name.             *)
NamesFor(n) ==
  LET longer == {k \in DOMAIN routes : IsStrictSuffix(n, k)} IN
  IF n \in DOMAIN routes THEN {n} ELSE IF longer # {} THEN longer ELSE {n}

Told(s, answer) == [clients EXCEPT ![s].offered = @ \cup answer]

(* Mutant of Changed: the comparison comes after the exposed set changed.  *)
ChangedAfterwards(before, after) == after # after

Changed(before, after) == after # before

(* build_workflow_summary: two or more of the tools found, or none.         *)
Summaries(hits) == {w \in SUBSET hits : Cardinality(w) # 1}

(* search_tools: search() runs to its end without an await; when it        *)
(* changed the exposed set, the answer waits for the notification.  The    *)
(* workflow of the answer is read when it is sent.                         *)
Search(r) ==
  /\ phase = "serving" /\ gateway /\ pending[r] = Idle
  /\ clients[SessionOf[r]].open
  /\ \E hits \in (SUBSET DOMAIN graph) \ {{}} :
       /\ Cardinality(hits) <= TopK
       /\ \E name \in [hits -> UNION {NamesFor(n) : n \in hits}] :
            /\ \A n \in hits : name[n] \in NamesFor(n)
            /\ LET answer == {[name |-> name[n], of |-> graph[n]] : n \in hits}
                   now == {name[n] : n \in hits} \cap DOMAIN routes IN
               /\ exposed' = now
               /\ workflow' \in Summaries(hits)
               /\ IF Changed(exposed, now)
                  THEN pending' = [pending EXCEPT ![r] = answer] /\ UNCHANGED clients
                  ELSE clients' = Told(SessionOf[r], answer) /\ UNCHANGED pending
  /\ UNCHANGED <<phase, starts, offers, next, incoming, connected, routes,
                 graph, gateway, files, delivered>>

(* No tool matches: what is exposed stays.                                 *)
SearchInVain(r) ==
  /\ phase = "serving" /\ gateway /\ pending[r] = Idle
  /\ clients[SessionOf[r]].open
  /\ workflow' = {}
  /\ UNCHANGED <<phase, starts, offers, next, incoming, connected, routes,
                 graph, gateway, exposed, files, clients, pending, delivered>>

(* tools/list_changed goes to the session of the request, then the answer. *)
Notify(r) ==
  /\ pending[r] # Idle
  /\ clients' = [Told(SessionOf[r], pending[r]) EXCEPT ![SessionOf[r]].told = TRUE]
  /\ pending' = [pending EXCEPT ![r] = Idle]
  /\ UNCHANGED <<phase, starts, offers, process, files, delivered>>

(* The notification fails: the stream of the session is closed.            *)
NotifyFails(r) ==
  /\ pending[r] # Idle
  /\ clients' = [clients EXCEPT ![SessionOf[r]].open = FALSE]
  /\ pending' = [pending EXCEPT ![r] = Idle]
  /\ UNCHANGED <<phase, starts, offers, process, files, delivered>>

ListTools(s) ==
  /\ phase = "serving" /\ clients[s].open
  /\ clients' = [clients EXCEPT ![s].listed = TRUE, ![s].told = FALSE,
                   ![s].view = IF gateway THEN exposed ELSE DOMAIN routes]
  /\ UNCHANGED <<phase, starts, offers, process, files, pending, delivered>>

(* Mutant of ActualName: the prefix is passed on.                          *)
ActualNameWhole(n) == n

(* What follows the first "__" of the proxy name, if there is one.         *)
ActualName(n) == IF Len(n) > 1 THEN Tail(n) ELSE n

(* MCPProxy.call_tool; the answer is the backend's, or "not found".        *)
Forward(n) ==
  IF n \in DOMAIN routes
  THEN [name |-> n, to |-> Tool(routes[n].backend, ActualName(n))]
  ELSE [name |-> n, to |-> NoCall]

KnownTo(s) == clients[s].view \cup {o.name : o \in clients[s].offered}

(* A tool of the list or of a search result called by its name: a meta     *)
(* tool of that name comes first in gateway mode.                          *)
CallDirectly(s) ==
  /\ phase = "serving" /\ clients[s].open
  /\ \E n \in KnownTo(s) :
       delivered' = IF gateway /\ n \in MetaTools
                    THEN [name |-> n, to |-> NoCall] ELSE Forward(n)
  /\ UNCHANGED <<phase, starts, offers, process, files, clients, pending>>

(* call_backend_tool, the fallback.                                        *)
CallBackendTool(s) ==
  /\ phase = "serving" /\ gateway /\ clients[s].open
  /\ \E n \in KnownTo(s) : delivered' = Forward(n)
  /\ UNCHANGED <<phase, starts, offers, process, files, clients, pending>>

(* The process ends, by a shutdown or a crash; memory is lost.             *)
Stop ==
  /\ phase \in Interruptible
  /\ phase' = "down"
  /\ Torn
  /\ next' = 1 /\ incoming' = <<>>
  /\ connected' = {} /\ routes' = Empty /\ graph' = Empty
  /\ gateway' = FALSE /\ exposed' = {} /\ workflow' = {}
  /\ clients' = NewClients /\ pending' = NonePending
  /\ delivered' = NoCall
  /\ UNCHANGED <<starts, offers>>

Done == phase = "down" /\ starts = MaxStarts /\ UNCHANGED vars

Next ==
  \/ Start \/ Connect \/ ConnectFails \/ Register
  \/ LoadGraph \/ BuildGraph \/ SaveMeta \/ SaveGraph \/ SaveFails
  \/ \E r \in Requests : Search(r) \/ SearchInVain(r) \/ Notify(r) \/ NotifyFails(r)
  \/ \E s \in Sessions : ListTools(s) \/ CallDirectly(s) \/ CallBackendTool(s)
  \/ Stop \/ Done

Spec == Init /\ [][Next]_vars
----------------------------------------------------------------------------
(* Type invariant: the variables keep their types, and a route leads to a  *)
(* backend whose connection is there to be used and to a tool it lists     *)
(* (call_tool looks the connection up without a check).                    *)
TypeOK ==
  /\ phase \in {"down", "connecting", "saveMeta", "saveGraph", "serving"}
  /\ starts \in 0 .. MaxStarts
  /\ next \in 1 .. Len(Backends) + 1
  /\ connected \subseteq Range(Backends)
  /\ \A k \in DOMAIN routes : /\ routes[k].backend \in connected
                              /\ routes[k].name \in Range(offers[routes[k].backend])
  /\ exposed \subseteq DOMAIN routes
  /\ phase # "serving" => pending = NonePending

(* Aggregation loses no tool and doubles none: once the proxy serves,      *)
(* every tool of every connected backend has exactly one proxy name,       *)
(* whatever names the backends share and whichever of them failed.         *)
EveryToolHasOneName ==
  phase = "serving" =>
    \A b \in connected : \A n \in Range(offers[b]) :
      Cardinality({k \in DOMAIN routes : routes[k] = Tool(b, n)}) = 1

(* "Route a tool call to the correct backend": what a backend is asked to  *)
(* run is the tool the called name stands for, under the backend's name.   *)
CallReachesItsTool ==
  delivered # NoCall /\ delivered.to # NoCall => delivered.to = routes[delivered.name]

(* Every name a search has returned has a route while the process lives,   *)
(* although the graph it came from may be one that another process saved.  *)
OfferedIsRouted ==
  \A s \in Sessions : \A o \in clients[s].offered : o.name \in DOMAIN routes

(* Clients are told of the gateway's visible tools: a client that listed   *)
(* them sees the current ones, or a notification is on its way to it, or a *)
(* request of its own is about to send one (_notify_tool_list_changed:     *)
(* "Notify capable MCP clients after the gateway's visible tools change"). *)
ToldOfChanges ==
  \A s \in Sessions :
    gateway /\ clients[s].open /\ clients[s].listed =>
      \/ clients[s].view = exposed
      \/ clients[s].told
      \/ \E r \in Requests : SessionOf[r] = s /\ pending[r] # Idle

(* A search result names the tool it describes: what a call of the name    *)
(* runs is the tool that matched ("override with prefixed name if needed").*)
ResultNamesItsTool ==
  \A s \in Sessions : \A o \in clients[s].offered :
    o.name \in DOMAIN routes => routes[o.name] = o.of

(* The workflow an answer suggests is about the tools it lists (the answer   *)
(* of search_tools; get_workflow_summary reads that of the last search,     *)
(* which another request may have run while this one sent its notification).*)
WorkflowIsOfTheAnswer ==
  [][\A r \in Requests : Notify(r) => workflow \subseteq {o.of.name : o \in pending[r]}]_vars

(* The graph that answers searches has the tools of this process, cached   *)
(* or not (_tool_fingerprint: "Hash of all tool names - used for cache     *)
(* invalidation").                                                         *)
GraphIsCurrent ==
  phase = "serving" => DOMAIN graph = {routes[k].name : k \in DOMAIN routes}
============================================================================
