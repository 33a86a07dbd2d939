--------------------------- MODULE MCPProxyProofs ---------------------------
(***************************************************************************)
(* Proofs about the routing of MCPProxy, for any backends, names, sessions *)
(* and interleaving.                                                       *)
(***************************************************************************)
EXTENDS MCPProxy, SequenceTheorems, FiniteSetTheorems, TLAPS

(* The list the loop of connect_backends is going through belongs to the   *)
(* backend just connected; outside that loop there is none, and a process  *)
(* that is not serving has called nothing.                                 *)
LoopState ==
  /\ offers \in Offerings
  /\ phase = "down" => routes = Empty
  /\ phase # "connecting" => incoming = <<>>
  /\ phase # "serving" => delivered = NoCall
  /\ incoming # <<>> =>
       /\ next > 1
       /\ Backends[next - 1] \in connected
       /\ incoming \in Seq(Range(offers[Backends[next - 1]]))

RoutingInv == TypeOK /\ LoopState

(* A list is a list of its own elements.                                   *)
LEMMA ListOfItsElements ==
  ASSUME NEW S, NEW s \in Seq(S)
  PROVE  s \in Seq(Range(s))
  BY DEF Range

LEMMA Progress ==
  ASSUME NEW S, NEW s \in Seq(S), s # <<>>
  PROVE  Head(s) \in S /\ Tail(s) \in Seq(S)
  OBVIOUS

LEMMA InitRouting == Init => RoutingInv
  BY ProxyAssumption DEF Init, RoutingInv, TypeOK, LoopState, Empty, NonePending

(* What Register leaves: the new key leads to the listed tool.             *)
LEMMA RegisterRouting == RoutingInv /\ Register => RoutingInv'
  <1> SUFFICES ASSUME RoutingInv, Register PROVE RoutingInv'
    OBVIOUS
  <1> DEFINE b == Backends[next - 1]
             key == ProxyName(b, Head(incoming))
  <1>1. /\ phase = "connecting" /\ incoming # <<>> /\ b \in connected /\ next > 1
        /\ incoming \in Seq(Range(offers[b]))
    BY DEF RoutingInv, LoopState, Register
  <1>2. Head(incoming) \in Range(offers[b]) /\ Tail(incoming) \in Seq(Range(offers[b]))
    BY <1>1, Progress
  <1>3. routes' = [k \in DOMAIN routes \cup {key} |->
                     IF k = key THEN Tool(b, Head(incoming)) ELSE routes[k]]
    BY DEF Register
  <1>4. \A k \in DOMAIN routes' : /\ routes'[k].backend \in connected
                                  /\ routes'[k].name \in Range(offers[routes'[k].backend])
    BY <1>1, <1>2, <1>3 DEF Tool, RoutingInv, TypeOK
  <1>5. exposed \subseteq DOMAIN routes'
    BY <1>3 DEF RoutingInv, TypeOK
  <1>6. TypeOK'
    BY <1>1, <1>4, <1>5 DEF Register, RoutingInv, TypeOK
  <1>7. LoopState'
    BY <1>1, <1>2 DEF Register, RoutingInv, LoopState
  <1> QED
    BY <1>6, <1>7 DEF RoutingInv

LEMMA ConnectRouting == RoutingInv /\ Connect => RoutingInv'
  <1> SUFFICES ASSUME RoutingInv, Connect PROVE RoutingInv'
    OBVIOUS
  <1> DEFINE b == Backends[next]
  <1>1. phase = "connecting" /\ next \in 1 .. Len(Backends) /\ b \in Range(Backends)
    BY ProxyAssumption DEF Connect, RoutingInv, TypeOK, Range
  <1>2. offers[b] \in Seq(Name)
    BY <1>1, ProxyAssumption DEF RoutingInv, LoopState
  <1>3. incoming' \in Seq(Range(offers[b]))
    BY <1>2, ListOfItsElements DEF Connect
  <1>4. next' = next + 1 /\ Backends[next' - 1] = b /\ b \in connected'
    BY <1>1 DEF Connect, Joined
  <1>5. LoopState'
    BY <1>1, <1>3, <1>4 DEF Connect, RoutingInv, LoopState
  <1>6. TypeOK'
    BY <1>1, ProxyAssumption DEF Connect, Joined, RoutingInv, TypeOK
  <1> QED
    BY <1>5, <1>6 DEF RoutingInv

LEMMA StartRouting == RoutingInv /\ Start => RoutingInv'
  <1> SUFFICES ASSUME RoutingInv, Start PROVE RoutingInv'
    OBVIOUS
  <1>1. routes = Empty /\ incoming = <<>> /\ delivered = NoCall
    BY DEF Start, RoutingInv, LoopState
  <1>2. LoopState'
    BY <1>1 DEF Start, process, LoopState
  <1>3. TypeOK'
    BY <1>1, ProxyAssumption DEF Start, process, RoutingInv, TypeOK, Empty
  <1> QED
    BY <1>2, <1>3 DEF RoutingInv

LEMMA StopRouting == RoutingInv /\ Stop => RoutingInv'
  BY ProxyAssumption
  DEF Stop, RoutingInv, TypeOK, LoopState, Empty, NonePending

(* The actions after the loop leave the routes alone.                      *)
LEMMA BuildRouting ==
  RoutingInv /\ (ConnectFails \/ LoadGraph \/ BuildGraph \/ SaveMeta
                 \/ SaveGraph \/ SaveFails) => RoutingInv'
  <1>1. CASE ConnectFails
    BY <1>1, ProxyAssumption DEF ConnectFails, RoutingInv, TypeOK, LoopState
  <1>2. CASE LoadGraph
    BY <1>2 DEF LoadGraph, ReadyToBuild, RoutingInv, TypeOK, LoopState
  <1>3. CASE BuildGraph
    BY <1>3 DEF BuildGraph, ReadyToBuild, RoutingInv, TypeOK, LoopState
  <1>4. CASE SaveMeta
    BY <1>4 DEF SaveMeta, process, RoutingInv, TypeOK, LoopState
  <1>5. CASE SaveGraph
    BY <1>5 DEF SaveGraph, process, RoutingInv, TypeOK, LoopState
  <1>6. CASE SaveFails
    BY <1>6 DEF SaveFails, process, RoutingInv, TypeOK, LoopState
  <1> QED
    BY <1>1, <1>2, <1>3, <1>4, <1>5, <1>6

(* A request runs only while the proxy serves.                             *)
LEMMA ServeRouting ==
  ASSUME RoutingInv,
         \/ \E r \in Requests : Search(r) \/ SearchInVain(r) \/ Notify(r) \/ NotifyFails(r)
         \/ \E s \in Sessions : ListTools(s) \/ CallDirectly(s) \/ CallBackendTool(s)
  PROVE  RoutingInv'
  <1>1. CASE \E r \in Requests : Search(r)
    <2> PICK r \in Requests : Search(r)
      BY <1>1
    <2>1. phase = "serving" /\ phase' = phase /\ exposed' \subseteq DOMAIN routes
      BY DEF Search
    <2> QED
      BY <2>1 DEF Search, RoutingInv, TypeOK, LoopState
  <1>2. CASE \E r \in Requests : Notify(r) \/ NotifyFails(r)
    <2> PICK r \in Requests : Notify(r) \/ NotifyFails(r)
      BY <1>2
    <2>1. phase = "serving"
      BY DEF Notify, NotifyFails, RoutingInv, TypeOK, NonePending
    <2> QED
      BY <2>1 DEF Notify, NotifyFails, process, RoutingInv, TypeOK, LoopState
  <1>3. CASE \E s \in Sessions : ListTools(s)
    BY <1>3 DEF ListTools, process, RoutingInv, TypeOK, LoopState
  <1>4. CASE \E s \in Sessions : CallDirectly(s) \/ CallBackendTool(s)
    BY <1>4 DEF CallDirectly, CallBackendTool, process, RoutingInv, TypeOK, LoopState
  <1>5. CASE \E r \in Requests : SearchInVain(r)
    BY <1>5 DEF SearchInVain, RoutingInv, TypeOK, LoopState
  <1> QED
    BY <1>1, <1>2, <1>3, <1>4, <1>5

LEMMA NextRouting == RoutingInv /\ [Next]_vars => RoutingInv'
  <1> SUFFICES ASSUME RoutingInv, [Next]_vars PROVE RoutingInv'
    OBVIOUS
  <1>1. CASE Done \/ UNCHANGED vars
    BY <1>1 DEF Done, vars, process, RoutingInv, TypeOK, LoopState
  <1> QED
    BY <1>1, StartRouting, ConnectRouting, RegisterRouting, BuildRouting,
       ServeRouting, StopRouting DEF Next

(* The routing table never leads to a backend without a connection or to a *)
(* tool its backend does not list, whatever the backends list, whichever   *)
(* of them fails, and however requests interleave (TypeOK).                *)
THEOREM RoutesLeadToTools == Spec => []TypeOK
  <1>1. RoutingInv => TypeOK
    BY DEF RoutingInv
  <1> QED
    BY InitRouting, NextRouting, <1>1, PTL DEF Spec
----------------------------------------------------------------------------
(* Neither a backend nor a tool has "__" in its name.                      *)
PlainNames ==
  /\ \A b \in Range(Backends) : Len(b) = 1
  /\ \A o \in Offerings : \A b \in Range(Backends) : \A n \in Range(o[b]) : Len(n) = 1

(* A proxy name is the tool's name, with or without its backend's before.  *)
KeysNameTools ==
  \A k \in DOMAIN routes :
    /\ routes[k] = Tool(routes[k].backend, routes[k].name)
    /\ k \in {routes[k].name, routes[k].backend \o routes[k].name}

NamingInv == RoutingInv /\ KeysNameTools /\ CallReachesItsTool

(* Cutting a one-part prefix off a proxy name gives the tool's name back.  *)
LEMMA PrefixIsCut ==
  ASSUME NEW b \in Seq(Parts), NEW n \in Seq(Parts), Len(b) = 1, Len(n) = 1
  PROVE  ActualName(b \o n) = n /\ ActualName(n) = n
  <1>1. b \o n \in Seq(Parts) /\ Len(b \o n) = 2 /\ (b \o n)[2] = n[1]
    BY ConcatProperties
  <1>2. Tail(b \o n) \in Seq(Parts) /\ Len(Tail(b \o n)) = 1 /\ Tail(b \o n)[1] = n[1]
    BY <1>1
  <1>3. Tail(b \o n) = n
    BY <1>2
  <1> QED
    BY <1>1, <1>3 DEF ActualName

(* With plain names, what call_tool forwards is the routed tool.           *)
LEMMA ForwardReaches ==
  ASSUME PlainNames, RoutingInv, KeysNameTools, NEW k \in DOMAIN routes
  PROVE  Forward(k) = [name |-> k, to |-> routes[k]]
  <1> DEFINE b == routes[k].backend
             n == routes[k].name
  <1>1. offers \in Offerings /\ b \in Range(Backends) /\ n \in Range(offers[b])
    BY DEF RoutingInv, TypeOK, LoopState
  <1>2. b \in Seq(Parts) /\ n \in Seq(Parts)
    <2>1. \A S : \A s \in Seq(S) : Range(s) \subseteq S
      BY DEF Range
    <2>2. b \in Name
      BY <1>1, <2>1, ProxyAssumption
    <2>3. offers[b] \in Seq(Name)
      BY <1>1, ProxyAssumption
    <2>4. n \in Name
      BY <1>1, <2>1, <2>3
    <2> QED
      BY <2>2, <2>4 DEF Name
  <1>3. Len(b) = 1 /\ Len(n) = 1
    BY <1>1 DEF PlainNames
  <1>4. ActualName(k) = n
    BY <1>2, <1>3, PrefixIsCut DEF KeysNameTools
  <1> QED
    BY <1>4 DEF Forward, KeysNameTools

LEMMA InitNaming == Init => NamingInv
  BY InitRouting DEF Init, NamingInv, KeysNameTools, CallReachesItsTool, Empty

(* A new key is the listed name or the prefixed one; no call was made yet. *)
LEMMA RegisterNaming ==
  ASSUME NamingInv, Register
  PROVE  KeysNameTools' /\ CallReachesItsTool'
  <1> DEFINE b == Backends[next - 1]
             key == ProxyName(b, Head(incoming))
  <1>1. routes' = [k \in DOMAIN routes \cup {key} |->
                     IF k = key THEN Tool(b, Head(incoming)) ELSE routes[k]]
    BY DEF Register
  <1>2. KeysNameTools'
    BY <1>1 DEF NamingInv, KeysNameTools, ProxyName, Tool
  <1>3. delivered' = NoCall
    BY DEF Register, NamingInv, RoutingInv, LoopState
  <1> QED
    BY <1>2, <1>3 DEF CallReachesItsTool

(* A call forwards what the routing table says.                            *)
LEMMA CallNaming ==
  ASSUME PlainNames, NamingInv,
         NEW s \in Sessions, CallDirectly(s) \/ CallBackendTool(s)
  PROVE  KeysNameTools' /\ CallReachesItsTool'
  <1>1. routes' = routes
    BY DEF CallDirectly, CallBackendTool, process
  <1>2. PICK k \in KnownTo(s) :
          delivered' \in {Forward(k), [name |-> k, to |-> NoCall]}
    BY DEF CallDirectly, CallBackendTool
  <1>3. ASSUME k \in DOMAIN routes PROVE CallReachesItsTool'
    <2>1. Forward(k) = [name |-> k, to |-> routes[k]]
      BY <1>3, ForwardReaches DEF NamingInv
    <2>2. delivered'.to # NoCall => delivered'.to = routes'[delivered'.name]
      BY <1>1, <1>2, <2>1
    <2> QED
      BY <2>2 DEF CallReachesItsTool
  <1>4. ASSUME k \notin DOMAIN routes PROVE CallReachesItsTool'
    <2>1. delivered' = [name |-> k, to |-> NoCall]
      BY <1>2, <1>4 DEF Forward
    <2> QED
      BY <2>1 DEF CallReachesItsTool
  <1>5. KeysNameTools'
    BY <1>1 DEF NamingInv, KeysNameTools
  <1> QED
    BY <1>3, <1>4, <1>5

LEMMA NextNaming == PlainNames /\ NamingInv /\ [Next]_vars => NamingInv'
  <1> SUFFICES ASSUME PlainNames, NamingInv, [Next]_vars PROVE NamingInv'
    OBVIOUS
  <1>1. RoutingInv'
    BY NextRouting DEF NamingInv
  <1>2. CASE Register
    BY <1>1, <1>2, RegisterNaming DEF NamingInv
  <1>3. CASE \E s \in Sessions : CallDirectly(s) \/ CallBackendTool(s)
    BY <1>1, <1>3, CallNaming DEF NamingInv
  <1>4. CASE Stop
    BY <1>1, <1>4 DEF Stop, NamingInv, KeysNameTools, CallReachesItsTool, Empty
  <1>5. CASE UNCHANGED <<routes, delivered>>
    BY <1>1, <1>5 DEF NamingInv, KeysNameTools, CallReachesItsTool
  <1>6. ASSUME \/ Start \/ Connect \/ ConnectFails \/ LoadGraph \/ BuildGraph
               \/ SaveMeta \/ SaveGraph \/ SaveFails \/ Done \/ UNCHANGED vars
        PROVE  UNCHANGED <<routes, delivered>>
    BY <1>6 DEF Start, Connect, ConnectFails, LoadGraph, BuildGraph, SaveMeta,
                SaveGraph, SaveFails, Done, vars, process
  <1>7. ASSUME \/ \E r \in Requests : Search(r) \/ SearchInVain(r) \/ Notify(r) \/ NotifyFails(r)
               \/ \E s \in Sessions : ListTools(s)
        PROVE  UNCHANGED <<routes, delivered>>
    BY <1>7 DEF Search, SearchInVain, Notify, NotifyFails, ListTools, process
  <1> QED
    BY <1>2, <1>3, <1>4, <1>5, <1>6, <1>7 DEF Next

(* When no name contains the separator, every call that leaves the proxy   *)
(* reaches the backend its name belongs to and asks for the tool under the *)
(* name that backend gave it (CallReachesItsTool).                         *)
THEOREM CallsReachTheirTools == PlainNames /\ Spec => []CallReachesItsTool
  <1>1. NamingInv => CallReachesItsTool
    BY DEF NamingInv
  <1> SUFFICES ASSUME PlainNames PROVE Spec => []CallReachesItsTool
    OBVIOUS
  <1>2. NamingInv /\ [Next]_vars => NamingInv'
    BY NextNaming
  <1> QED
    BY InitNaming, <1>1, <1>2, PTL DEF Spec
----------------------------------------------------------------------------
(* Cutting the head off a list without repetition.                         *)
LEMMA HeadIsCut ==
  ASSUME NEW S, NEW s \in Seq(S), s # <<>>, IsInjective(s)
  PROVE  /\ Range(s) = {Head(s)} \cup Range(Tail(s))
         /\ Head(s) \notin Range(Tail(s))
         /\ IsInjective(Tail(s))
         /\ Range(Tail(s)) # {} => Tail(s) # <<>>
  <1>1. /\ Len(s) \in Nat /\ Len(s) >= 1 /\ DOMAIN s = 1 .. Len(s)
        /\ Tail(s) \in Seq(S) /\ Len(Tail(s)) = Len(s) - 1 /\ DOMAIN Tail(s) = 1 .. Len(s) - 1
        /\ \A i \in 1 .. Len(s) - 1 : Tail(s)[i] = s[i + 1]
        /\ Head(s) = s[1]
    OBVIOUS
  <1>2. Range(s) \subseteq {Head(s)} \cup Range(Tail(s))
    <2> SUFFICES ASSUME NEW i \in DOMAIN s PROVE s[i] \in {Head(s)} \cup Range(Tail(s))
      BY DEF Range
    <2>1. CASE i = 1
      BY <1>1, <2>1
    <2>2. CASE i # 1
      <3>1. i - 1 \in DOMAIN Tail(s) /\ Tail(s)[i - 1] = s[i]
        BY <1>1, <2>2
      <3> QED
        BY <3>1 DEF Range
    <2> QED
      BY <2>1, <2>2
  <1>3. \A i \in DOMAIN Tail(s) : i + 1 \in DOMAIN s /\ Tail(s)[i] = s[i + 1] /\ i + 1 # 1
    BY <1>1
  <1>4. {Head(s)} \cup Range(Tail(s)) \subseteq Range(s)
    BY <1>1, <1>3 DEF Range
  <1>5. Head(s) \notin Range(Tail(s))
    BY <1>1, <1>3 DEF Range, IsInjective
  <1>6. IsInjective(Tail(s))
    BY <1>1, <1>3 DEF IsInjective
  <1> QED
    BY <1>2, <1>4, <1>5, <1>6 DEF Range

(* The loop goes through the backends in their order: those connected come *)
(* before the next one, and a list being registered has no name twice.     *)
LoopOrder ==
  /\ phase = "down" => connected = {}
  /\ \A b \in connected : \E i \in 1 .. next-1 : b = Backends[i]
  /\ IsInjective(incoming)

LEMMA NextLoopOrder == RoutingInv /\ LoopOrder /\ [Next]_vars => LoopOrder'
  <1> SUFFICES ASSUME RoutingInv, LoopOrder, [Next]_vars PROVE LoopOrder'
    OBVIOUS
  <1>0. next \in Nat /\ 1 <= next
    BY ProxyAssumption DEF RoutingInv, TypeOK
  <1>1. CASE Connect
    <2>1. Backends[next] \in Range(Backends) /\ offers \in Offerings
      BY <1>1, ProxyAssumption DEF Connect, RoutingInv, TypeOK, LoopState, Range
    <2>2. IsInjective(incoming')
      BY <1>1, <2>1, ProxyAssumption DEF Connect
    <2>3. connected' = connected \cup {Backends[next]} /\ next' = next + 1
      BY <1>1 DEF Connect, Joined
    <2>4. \A b \in connected' : \E i \in 1 .. next'-1 : b = Backends[i]
      <3> TAKE b \in connected'
      <3>1. CASE b = Backends[next]
        BY <1>0, <2>3, <3>1
      <3>2. CASE b \in connected
        <4>1. PICK i \in 1 .. next-1 : b = Backends[i]
          BY <3>2 DEF LoopOrder
        <4> QED
          BY <1>0, <2>3, <4>1
      <3> QED
        BY <2>3, <3>1, <3>2
    <2> QED
      BY <1>1, <2>2, <2>4 DEF Connect, LoopOrder
  <1>2. CASE ConnectFails
    <2>1. 1 .. next-1 \subseteq 1 .. next'-1 /\ UNCHANGED <<phase, connected, incoming>>
      BY <1>0, <1>2 DEF ConnectFails
    <2> QED
      BY <2>1 DEF LoopOrder
  <1>3. CASE Register
    <2>1. IsInjective(incoming')
      BY <1>3, HeadIsCut DEF Register, RoutingInv, LoopState, LoopOrder
    <2> QED
      BY <1>3, <2>1 DEF Register, LoopOrder
  <1>4. CASE Stop
    BY <1>4 DEF Stop, LoopOrder, IsInjective
  <1>5. CASE UNCHANGED <<connected, next, incoming>> /\ (phase' # "down" \/ phase' = phase)
    BY <1>5 DEF LoopOrder
  <1>6. ASSUME \/ Start \/ LoadGraph \/ BuildGraph \/ SaveMeta \/ SaveGraph \/ SaveFails
               \/ Done \/ UNCHANGED vars
        PROVE  UNCHANGED <<connected, next, incoming>> /\ (phase' # "down" \/ phase' = phase)
    BY <1>6 DEF Start, LoadGraph, BuildGraph, SaveMeta, SaveGraph, SaveFails, Done,
                vars, process
  <1>7. ASSUME \/ \E r \in Requests : Search(r) \/ SearchInVain(r) \/ Notify(r) \/ NotifyFails(r)
               \/ \E s \in Sessions : ListTools(s) \/ CallDirectly(s) \/ CallBackendTool(s)
        PROVE  UNCHANGED <<connected, next, incoming>> /\ phase' = phase
    BY <1>7 DEF Search, SearchInVain, Notify, NotifyFails, ListTools, CallDirectly, CallBackendTool, process
  <1> QED
    BY <1>1, <1>2, <1>3, <1>4, <1>5, <1>6, <1>7 DEF Next

(* The tools of the backend just connected that have no proxy name yet.    *)
Unregistered(b, n) ==
  incoming # <<>> /\ b = Backends[next - 1] /\ n \in Range(incoming)

(* Every other tool of a connected backend is routed, under its own name   *)
(* or with its backend's before.                                           *)
ListedIsRouted ==
  \A b \in connected : \A n \in Range(offers[b]) :
    Unregistered(b, n) \/ n \in DOMAIN routes \/ b \o n \in DOMAIN routes

(* The actions that neither connect nor register leave the table alone.    *)
LEMMA TableUnchanged ==
  ASSUME [Next]_vars, ~Start, ~Connect, ~ConnectFails, ~Register, ~Stop
  PROVE  UNCHANGED <<connected, next, incoming, routes, offers>>
  <1>1. ASSUME \/ LoadGraph \/ BuildGraph \/ SaveMeta \/ SaveGraph \/ SaveFails
               \/ Done \/ UNCHANGED vars
        PROVE  UNCHANGED <<connected, next, incoming, routes, offers>>
    BY <1>1 DEF LoadGraph, BuildGraph, SaveMeta, SaveGraph, SaveFails, Done, vars, process
  <1>2. ASSUME \/ \E r \in Requests : Search(r) \/ SearchInVain(r) \/ Notify(r) \/ NotifyFails(r)
               \/ \E s \in Sessions : ListTools(s) \/ CallDirectly(s) \/ CallBackendTool(s)
        PROVE  UNCHANGED <<connected, next, incoming, routes, offers>>
    BY <1>2 DEF Search, SearchInVain, Notify, NotifyFails, ListTools, CallDirectly, CallBackendTool, process
  <1> QED
    BY <1>1, <1>2 DEF Next

LEMMA NextListedIsRouted ==
  RoutingInv /\ LoopOrder /\ ListedIsRouted /\ [Next]_vars => ListedIsRouted'
  <1> SUFFICES ASSUME RoutingInv, LoopOrder, ListedIsRouted, [Next]_vars
               PROVE  ListedIsRouted'
    OBVIOUS
  <1>1. CASE Start
    BY <1>1 DEF Start, process, LoopOrder, ListedIsRouted
  <1>2. CASE Connect
    <2>1. /\ incoming = <<>> /\ connected' = connected \cup {Backends[next]}
          /\ next' = next + 1 /\ incoming' = offers[Backends[next]]
          /\ UNCHANGED <<routes, offers>>
      BY <1>2 DEF Connect, Joined
    <2>2. Backends[next' - 1] = Backends[next]
      BY <2>1 DEF RoutingInv, TypeOK
    <2>3. Range(<<>>) = {}
      <3>1. DOMAIN <<>> = {}
        OBVIOUS
      <3> QED
        BY <3>1 DEF Range
    <2>4. \A b \in connected : \A n \in Range(offers[b]) :
             n \in DOMAIN routes \/ b \o n \in DOMAIN routes
      BY <2>1 DEF ListedIsRouted, Unregistered
    <2> SUFFICES ASSUME NEW b \in connected', NEW n \in Range(offers[b])
                 PROVE  Unregistered(b, n)' \/ n \in DOMAIN routes \/ b \o n \in DOMAIN routes
      BY <2>1 DEF ListedIsRouted
    <2>5. CASE b = Backends[next]
      <3>1. incoming' # <<>> /\ n \in Range(incoming') /\ Backends[next' - 1] = b
        BY <2>1, <2>2, <2>3, <2>5
      <3> QED
        BY <3>1 DEF Unregistered, Range
    <2>6. CASE b \in connected
      BY <2>4, <2>6
    <2> QED
      BY <2>1, <2>5, <2>6
  <1>3. CASE ConnectFails
    BY <1>3 DEF ConnectFails, ListedIsRouted, Unregistered
  <1>4. CASE Register
    <2> DEFINE now == Backends[next - 1]
               key == ProxyName(now, Head(incoming))
    <2>1. /\ incoming # <<>> /\ incoming' = Tail(incoming)
          /\ UNCHANGED <<connected, next, offers>>
          /\ DOMAIN routes' = DOMAIN routes \cup {key}
      BY <1>4 DEF Register
    <2>2. key = Head(incoming) \/ key = now \o Head(incoming)
      BY DEF ProxyName
    <2>3. /\ Range(incoming) = {Head(incoming)} \cup Range(Tail(incoming))
          /\ Range(Tail(incoming)) # {} => Tail(incoming) # <<>>
      BY <2>1, HeadIsCut DEF RoutingInv, LoopState, LoopOrder
    <2> HIDE DEF key
    <2> SUFFICES ASSUME NEW b \in connected, NEW n \in Range(offers[b])
                 PROVE  Unregistered(b, n)' \/ n \in DOMAIN routes' \/ b \o n \in DOMAIN routes'
      BY <2>1 DEF ListedIsRouted
    <2>4. CASE n \in DOMAIN routes \/ b \o n \in DOMAIN routes
      BY <2>1, <2>4
    <2>5. CASE Unregistered(b, n)
      BY <2>1, <2>2, <2>3, <2>5 DEF Unregistered
    <2> QED
      BY <2>4, <2>5 DEF ListedIsRouted
  <1>5. CASE Stop
    BY <1>5 DEF Stop, ListedIsRouted
  <1>6. CASE UNCHANGED <<connected, next, incoming, routes, offers>>
    BY <1>6 DEF ListedIsRouted, Unregistered
  <1> QED
    BY <1>1, <1>2, <1>3, <1>4, <1>5, <1>6, TableUnchanged
----------------------------------------------------------------------------
(* The proxy names of a tool.                                              *)
KeysOf(b, n) == {k \in DOMAIN routes : routes[k] = Tool(b, n)}

(* The strengthening behind EveryToolHasOneName.                           *)
RegisteredOnce ==
  \A b \in connected : \A n \in Range(offers[b]) :
    IF Unregistered(b, n) THEN KeysOf(b, n) = {} ELSE \E k \in DOMAIN routes : KeysOf(b, n) = {k}

(* A plain prefixed name holds its two parts.                              *)
LEMMA PlainConcat ==
  ASSUME NEW b \in Seq(Parts), NEW n \in Seq(Parts), Len(b) = 1, Len(n) = 1
  PROVE  Len(b \o n) = 2 /\ (b \o n)[1] = b[1] /\ (b \o n)[2] = n[1]
  <1>1. Len(b \o n) = Len(b) + Len(n)
    BY ConcatProperties
  <1>2. \A i \in 1 .. Len(b) + Len(n) :
           (b \o n)[i] = IF i <= Len(b) THEN b[i] ELSE n[i - Len(b)]
    BY ConcatProperties
  <1>3. 1 \in 1 .. Len(b) + Len(n) /\ 2 \in 1 .. Len(b) + Len(n) /\ 2 - Len(b) = 1
    OBVIOUS
  <1> QED
    BY <1>1, <1>2, <1>3

(* With plain names the key of a tool that has none yet is a new one: no   *)
(* prefixed name is another tool's, with or without a prefix of its own.   *)
LEMMA KeyIsNew ==
  ASSUME PlainNames, RoutingInv, KeysNameTools,
         NEW b \in Range(Backends), NEW n \in Range(offers[b]), KeysOf(b, n) = {}
  PROVE  ProxyName(b, n) \notin DOMAIN routes
  <1> SUFFICES ASSUME b \o n \in DOMAIN routes PROVE FALSE
    BY DEF ProxyName
  <1> DEFINE k == b \o n
             b2 == routes[k].backend
             n2 == routes[k].name
  <1>1. /\ offers \in Offerings /\ b2 \in Range(Backends) /\ n2 \in Range(offers[b2])
        /\ routes[k] = Tool(b2, n2)
        /\ k = n2 \/ k = b2 \o n2
    BY DEF RoutingInv, TypeOK, LoopState, KeysNameTools
  <1>2. \A c \in Range(Backends) : \A m \in Range(offers[c]) :
           c \in Seq(Parts) /\ m \in Seq(Parts) /\ Len(c) = 1 /\ Len(m) = 1
    <2> TAKE c \in Range(Backends)
    <2> TAKE m \in Range(offers[c])
    <2>1. \A S : \A s \in Seq(S) : Range(s) \subseteq S
      BY DEF Range
    <2>2. c \in Name /\ offers[c] \in Seq(Name)
      BY <1>1, <2>1, ProxyAssumption
    <2>3. m \in Name
      BY <2>1, <2>2
    <2> QED
      BY <1>1, <2>2, <2>3 DEF Name, PlainNames
  <1>3. /\ b \in Seq(Parts) /\ n \in Seq(Parts) /\ b2 \in Seq(Parts) /\ n2 \in Seq(Parts)
        /\ Len(b) = 1 /\ Len(n) = 1 /\ Len(b2) = 1 /\ Len(n2) = 1
    BY <1>1, <1>2
  <1> HIDE DEF b2, n2
  <1>4. Len(k) = 2 /\ k[1] = b[1] /\ k[2] = n[1]
    BY <1>3, PlainConcat
  <1>5. k = b2 \o n2
    BY <1>1, <1>3, <1>4
  <1>6. k[1] = b2[1] /\ k[2] = n2[1]
    BY <1>3, <1>5, PlainConcat
  <1>7. b = b2 /\ n = n2
    BY <1>3, <1>4, <1>6
  <1>8. k \in KeysOf(b, n)
    BY <1>1, <1>7 DEF KeysOf
  <1> QED
    BY <1>8

LEMMA NextRegisteredOnce ==
  PlainNames /\ NamingInv /\ LoopOrder /\ RegisteredOnce /\ [Next]_vars => RegisteredOnce'
  <1> SUFFICES ASSUME PlainNames, NamingInv, LoopOrder, RegisteredOnce, [Next]_vars
               PROVE  RegisteredOnce'
    OBVIOUS
  <1>0. RoutingInv /\ KeysNameTools
    BY DEF NamingInv
  <1>1. CASE Start
    BY <1>1 DEF Start, process, LoopOrder, RegisteredOnce
  <1>2. CASE Connect
    <2> DEFINE new == Backends[next]
    <2>1. /\ incoming = <<>> /\ connected' = connected \cup {new}
          /\ next' = next + 1 /\ incoming' = offers[new]
          /\ UNCHANGED <<routes, offers>>
      BY <1>2 DEF Connect, Joined
    <2>2. next \in 1 .. Len(Backends) /\ Backends[next' - 1] = new
      BY <1>2, <2>1, <1>0 DEF Connect, RoutingInv, TypeOK
    <2>3. new \notin connected
      <3> SUFFICES ASSUME new \in connected PROVE FALSE
        OBVIOUS
      <3>1. PICK i \in 1 .. next-1 : new = Backends[i]
        BY DEF LoopOrder
      <3>2. i \in DOMAIN Backends /\ next \in DOMAIN Backends /\ i # next
        BY <2>2, ProxyAssumption
      <3> QED
        BY <3>1, <3>2, ProxyAssumption DEF IsInjective
    <2>4. Range(<<>>) = {}
      <3>1. DOMAIN <<>> = {}
        OBVIOUS
      <3> QED
        BY <3>1 DEF Range
    <2> SUFFICES ASSUME NEW b \in connected', NEW n \in Range(offers[b])
                 PROVE  IF Unregistered(b, n)' THEN KeysOf(b, n)' = {}
                        ELSE \E k \in DOMAIN routes' : KeysOf(b, n)' = {k}
      BY <2>1 DEF RegisteredOnce
    <2>5. KeysOf(b, n)' = KeysOf(b, n)
      BY <2>1 DEF KeysOf
    <2>6. CASE b = new
      <3>1. incoming' # <<>> /\ n \in Range(incoming') /\ Backends[next' - 1] = b
        BY <2>1, <2>2, <2>4, <2>6
      <3>2. Unregistered(b, n)'
        BY <3>1 DEF Unregistered, Range
      <3>3. KeysOf(b, n) = {}
        <4>1. \A k \in DOMAIN routes : routes[k].backend \in connected
          BY <1>0 DEF RoutingInv, TypeOK
        <4> QED
          BY <2>3, <2>6, <4>1 DEF KeysOf, Tool
      <3> QED
        BY <2>5, <3>2, <3>3
    <2>7. CASE b # new
      <3>1. b \in connected /\ ~Unregistered(b, n)
        BY <2>1, <2>7 DEF Unregistered
      <3>2. ~Unregistered(b, n)'
        BY <2>2, <2>7 DEF Unregistered
      <3> QED
        BY <2>1, <2>5, <3>1, <3>2 DEF RegisteredOnce
    <2> QED
      BY <2>6, <2>7
  <1>3. CASE ConnectFails
    <2>1. incoming = <<>> /\ UNCHANGED <<incoming, connected, routes, offers>>
      BY <1>3 DEF ConnectFails
    <2>2. ASSUME NEW b, NEW n
          PROVE  ~Unregistered(b, n) /\ ~Unregistered(b, n)' /\ KeysOf(b, n)' = KeysOf(b, n)
      BY <2>1 DEF Unregistered, KeysOf
    <2> QED
      BY <2>1, <2>2 DEF RegisteredOnce
  <1>4. CASE Register
    <2> DEFINE now == Backends[next - 1]
               h == Head(incoming)
               key == ProxyName(now, h)
    <2>1. /\ incoming # <<>> /\ incoming' = Tail(incoming)
          /\ UNCHANGED <<connected, next, offers>>
          /\ routes' = [k \in DOMAIN routes \cup {key} |->
                          IF k = key THEN Tool(now, h) ELSE routes[k]]
      BY <1>4 DEF Register
    <2>2. /\ incoming \in Seq(Range(offers[now])) /\ now \in connected
          /\ IsInjective(incoming)
      BY <1>0, <2>1 DEF RoutingInv, LoopState, LoopOrder
    <2>3. /\ Range(incoming) = {h} \cup Range(Tail(incoming))
          /\ h \notin Range(Tail(incoming))
          /\ Range(Tail(incoming)) # {} => Tail(incoming) # <<>>
      BY <2>1, <2>2, HeadIsCut
    <2>4. h \in Range(offers[now]) /\ now \in Range(Backends)
      BY <1>0, <2>1, <2>2, Progress DEF RoutingInv, TypeOK
    <2>5. KeysOf(now, h) = {}
      BY <2>1, <2>2, <2>3, <2>4 DEF RegisteredOnce, Unregistered
    <2>6. key \notin DOMAIN routes
      BY <1>0, <2>4, <2>5, KeyIsNew
    <2> HIDE DEF now, h, key
    <2> SUFFICES ASSUME NEW b \in connected, NEW n \in Range(offers[b])
                 PROVE  IF Unregistered(b, n)' THEN KeysOf(b, n)' = {}
                        ELSE \E k \in DOMAIN routes' : KeysOf(b, n)' = {k}
      BY <2>1 DEF RegisteredOnce
    <2>7. Unregistered(b, n)' <=> b = now /\ n \in Range(Tail(incoming))
      <3>1. Unregistered(b, n)' <=>
              incoming' # <<>> /\ b = Backends[next' - 1] /\ n \in Range(incoming')
        BY DEF Unregistered, Range
      <3> QED
        BY <2>1, <2>3, <3>1 DEF now
    <2>8. CASE b = now /\ n = h
      <3>1. KeysOf(b, n)' = {key}
        <4>1. Tool(b, n) = Tool(now, h)
          BY <2>8
        <4>2. \A k \in DOMAIN routes : routes[k] # Tool(now, h)
          BY <2>5 DEF KeysOf
        <4>3. KeysOf(b, n)' = {k \in DOMAIN routes' : routes'[k] = Tool(now, h)}
          BY <4>1 DEF KeysOf
        <4> QED
          BY <2>1, <2>6, <4>2, <4>3
      <3> QED
        BY <2>1, <2>3, <2>7, <2>8, <3>1
    <2>9. CASE ~(b = now /\ n = h)
      <3>1. Tool(b, n) # Tool(now, h)
        BY <2>9 DEF Tool
      <3>2. KeysOf(b, n)' = KeysOf(b, n)
        <4>1. KeysOf(b, n)' = {k \in DOMAIN routes' : routes'[k] = Tool(b, n)}
          BY DEF KeysOf, Tool
        <4>2. KeysOf(b, n) = {k \in DOMAIN routes : routes[k] = Tool(b, n)}
          BY DEF KeysOf
        <4> QED
          BY <2>1, <2>6, <3>1, <4>1, <4>2
      <3>3. Unregistered(b, n)' <=> Unregistered(b, n)
        BY <2>1, <2>3, <2>7, <2>9 DEF Unregistered, now
      <3> QED
        BY <2>1, <3>2, <3>3 DEF RegisteredOnce
    <2> QED
      BY <2>8, <2>9
  <1>5. CASE Stop
    BY <1>5 DEF Stop, RegisteredOnce
  <1>6. CASE UNCHANGED <<connected, next, incoming, routes, offers>>
    BY <1>6 DEF RegisteredOnce, Unregistered, KeysOf
  <1> QED
    BY <1>1, <1>2, <1>3, <1>4, <1>5, <1>6, TableUnchanged

(* Aggregation loses no tool and doubles none: with names free of the      *)
(* separator, once the proxy serves every tool of every connected backend  *)
(* has exactly one proxy name, whatever tool names the backends share and  *)
(* whichever of them failed to connect (EveryToolHasOneName).              *)
THEOREM AggregationIsOneToOne == PlainNames /\ Spec => []EveryToolHasOneName
  <1> SUFFICES ASSUME PlainNames PROVE Spec => []EveryToolHasOneName
    OBVIOUS
  <1>1. Init => NamingInv /\ LoopOrder /\ RegisteredOnce
    BY InitNaming DEF Init, LoopOrder, RegisteredOnce, IsInjective
  <1>2. NamingInv /\ LoopOrder /\ RegisteredOnce /\ [Next]_vars
          => (NamingInv /\ LoopOrder /\ RegisteredOnce)'
    BY NextNaming, NextLoopOrder, NextRegisteredOnce DEF NamingInv
  <1>3. NamingInv /\ RegisteredOnce => EveryToolHasOneName
    <2> SUFFICES ASSUME NamingInv, RegisteredOnce, phase = "serving",
                        NEW b \in connected, NEW n \in Range(offers[b])
                 PROVE  Cardinality(KeysOf(b, n)) = 1
      BY DEF EveryToolHasOneName, KeysOf
    <2>1. ~Unregistered(b, n)
      BY DEF Unregistered, NamingInv, RoutingInv, LoopState
    <2>2. PICK k : KeysOf(b, n) = {k}
      BY <2>1 DEF RegisteredOnce
    <2> QED
      BY <2>2, FS_Singleton
  <1> QED
    BY <1>1, <1>2, <1>3, PTL DEF Spec
----------------------------------------------------------------------------
(* A saved fingerprint is followed by its graph: neither a crash nor an    *)
(* error comes between the two writes of _save_cache.                      *)
WritesTogether == "saveGraph" \notin Interruptible

(* A search result of name n can be given one of these proxy names.        *)
FindsName(n, names) == n \in names \/ \E k \in names : IsStrictSuffix(n, k)

GraphFits(g, names) == \A n \in DOMAIN g : FindsName(n, names)

(* The strengthening behind OfferedIsRouted: the graph in memory fits the  *)
(* names of this process, and the saved one those its fingerprint stands   *)
(* for, except between the two writes.                                     *)
FilesFit ==
  /\ phase \in {"saveMeta", "saveGraph", "serving"} => GraphFits(graph, DOMAIN routes)
  /\ phase = "saveGraph" => meta = DOMAIN routes
  /\ phase # "saveGraph" /\ meta # NoFile /\ stored # NoFile => GraphFits(stored, meta)

(* What the clients and the answers held back name.                        *)
AnswersRouted ==
  /\ \A s \in Sessions : \A o \in clients[s].offered : o.name \in DOMAIN routes
  /\ \A r \in Requests : \A o \in pending[r] : o.name \in DOMAIN routes

(* A name is found by the ending of any prefixed form of it.               *)
LEMMA PrefixedEndsInName ==
  ASSUME NEW b \in Seq(Parts), NEW n \in Seq(Parts), b # <<>>
  PROVE  IsStrictSuffix(n, b \o n)
  <1> DEFINE k == b \o n
  <1>1. /\ k \in Seq(Parts) /\ Len(k) = Len(b) + Len(n)
        /\ Len(b) \in Nat \ {0} /\ Len(n) \in Nat
    BY ConcatProperties
  <1>2. \A i \in 1 .. Len(b) + Len(n) : k[i] = IF i <= Len(b) THEN b[i] ELSE n[i - Len(b)]
    BY ConcatProperties
  <1> HIDE DEF k
  <1>3. /\ Reverse(n) \in Seq(Parts) /\ Len(Reverse(n)) = Len(n)
        /\ Reverse(k) \in Seq(Parts) /\ Len(Reverse(k)) = Len(k)
    <2>1. \A s \in Seq(Parts) : Reverse(s) \in Seq(Parts) /\ Len(Reverse(s)) = Len(s)
      <3> TAKE s \in Seq(Parts)
      <3>1. Len(s) \in Nat /\ \A i \in 1 .. Len(s) : s[(Len(s) - i) + 1] \in Parts
        OBVIOUS
      <3>2. Reverse(s) \in [1 .. Len(s) -> Parts]
        BY <3>1 DEF Reverse
      <3> QED
        BY <3>1, <3>2
    <2> QED
      BY <1>1, <2>1
  <1>4. \A i \in 1 .. Len(n) : Reverse(k)[i] = Reverse(n)[i]
    <2> TAKE i \in 1 .. Len(n)
    <2>1. Reverse(k)[i] = k[(Len(k) - i) + 1] /\ Reverse(n)[i] = n[(Len(n) - i) + 1]
      BY <1>1 DEF Reverse
    <2>2. /\ (Len(k) - i) + 1 \in 1 .. Len(b) + Len(n)
          /\ ~((Len(k) - i) + 1 <= Len(b))
          /\ ((Len(k) - i) + 1) - Len(b) = (Len(n) - i) + 1
      BY <1>1
    <2>3. k[(Len(k) - i) + 1] = n[((Len(k) - i) + 1) - Len(b)]
      BY <1>2, <2>2
    <2> QED
      BY <2>1, <2>2, <2>3
  <1>5. SubSeq(Reverse(n), 1, Len(Reverse(n))) = SubSeq(Reverse(k), 1, Len(Reverse(n)))
    <2> DEFINE l == SubSeq(Reverse(n), 1, Len(n))
               r == SubSeq(Reverse(k), 1, Len(n))
    <2>1. /\ l \in Seq(Parts) /\ Len(l) = Len(n) /\ \A i \in 1 .. Len(n) : l[i] = Reverse(n)[i]
      BY <1>1, <1>3
    <2>2. /\ r \in Seq(Parts) /\ Len(r) = Len(n) /\ \A i \in 1 .. Len(n) : r[i] = Reverse(k)[i]
      BY <1>1, <1>3
    <2> HIDE DEF l, r
    <2>3. l = r
      BY <1>4, <2>1, <2>2
    <2> QED
      BY <1>3, <2>3 DEF l, r
  <1>6. n # k /\ Len(Reverse(n)) <= Len(Reverse(k))
    BY <1>1, <1>3
  <1> QED
    BY <1>5, <1>6 DEF IsStrictSuffix, IsSuffix, IsPrefix, k

(* What _build_tool_graph ingests are tools that have a proxy name.        *)
LEMMA IngestedFits ==
  ASSUME RoutingInv, ListedIsRouted, incoming = <<>>
  PROVE  GraphFits(Ingested, DOMAIN routes)
  <1> SUFFICES ASSUME NEW n \in DOMAIN Ingested PROVE FindsName(n, DOMAIN routes)
    BY DEF GraphFits
  <1>1. PICK b \in connected : n \in Range(offers[b])
    BY DEF Ingested
  <1>2. n \in DOMAIN routes \/ b \o n \in DOMAIN routes
    BY <1>1 DEF ListedIsRouted, Unregistered
  <1>3. b \in Seq(Parts) /\ n \in Seq(Parts) /\ b # <<>>
    <2>1. \A S : \A s \in Seq(S) : Range(s) \subseteq S
      BY DEF Range
    <2>2. b \in Range(Backends) /\ offers \in Offerings
      BY <1>1 DEF RoutingInv, TypeOK, LoopState
    <2>3. b \in Name /\ offers[b] \in Seq(Name)
      BY <2>1, <2>2, ProxyAssumption
    <2>4. n \in Name
      BY <1>1, <2>1, <2>3
    <2> QED
      BY <2>3, <2>4 DEF Name
  <1> QED
    BY <1>2, <1>3, PrefixedEndsInName DEF FindsName

LEMMA NextFilesFit ==
  WritesTogether /\ RoutingInv /\ ListedIsRouted /\ FilesFit /\ [Next]_vars => FilesFit'
  <1> SUFFICES ASSUME WritesTogether, RoutingInv, ListedIsRouted, FilesFit, [Next]_vars
               PROVE  FilesFit'
    OBVIOUS
  <1>1. CASE phase = "connecting" /\ phase' = "connecting" /\ UNCHANGED files
    BY <1>1 DEF files, FilesFit
  <1>2. CASE Start
    BY <1>2 DEF Start, files, FilesFit
  <1>3. CASE LoadGraph
    BY <1>3 DEF LoadGraph, ReadyToBuild, CacheUsable, files, FilesFit
  <1>4. CASE BuildGraph
    <2>1. GraphFits(Ingested, DOMAIN routes)
      BY <1>4, IngestedFits DEF BuildGraph, ReadyToBuild
    <2>2. /\ phase = "connecting" /\ phase' \in {"saveMeta", "serving"}
          /\ graph' = Ingested /\ UNCHANGED <<routes, meta, stored>>
      BY <1>4 DEF BuildGraph, ReadyToBuild, files
    <2> QED
      BY <2>1, <2>2 DEF FilesFit
  <1>5. CASE SaveMeta
    BY <1>5 DEF SaveMeta, process, FilesFit
  <1>6. CASE SaveGraph
    BY <1>6 DEF SaveGraph, process, FilesFit
  <1>7. CASE SaveFails
    BY <1>7 DEF SaveFails, Torn, process, WritesTogether, FilesFit
  <1>8. CASE Stop
    BY <1>8 DEF Stop, Torn, WritesTogether, FilesFit
  <1>9. CASE UNCHANGED <<phase, routes, graph, meta, stored>>
    BY <1>9 DEF FilesFit
  <1>10. ASSUME Connect \/ ConnectFails \/ Register
         PROVE  phase = "connecting" /\ phase' = "connecting" /\ UNCHANGED files
    BY <1>10 DEF Connect, ConnectFails, Register
  <1>11. ASSUME \/ Done \/ UNCHANGED vars
                \/ \E r \in Requests : Search(r) \/ SearchInVain(r) \/ Notify(r) \/ NotifyFails(r)
                \/ \E s \in Sessions : ListTools(s) \/ CallDirectly(s) \/ CallBackendTool(s)
         PROVE  UNCHANGED <<phase, routes, graph, meta, stored>>
    BY <1>11 DEF Done, vars, files, process, Search, SearchInVain, Notify, NotifyFails, ListTools,
                 CallDirectly, CallBackendTool
  <1> QED
    BY <1>1, <1>2, <1>3, <1>4, <1>5, <1>6, <1>7, <1>8, <1>9, <1>10, <1>11 DEF Next

(* Every session has one record, every request one answer or none; before  *)
(* the process serves no client has listed anything and no mode is chosen  *)
(* before the graph is there.                                              *)
ClientState ==
  /\ DOMAIN clients = Sessions /\ DOMAIN pending = Requests
  /\ \A s \in Sessions : DOMAIN clients[s] = DOMAIN NewClient
  /\ phase # "serving" => clients = NewClients
  /\ phase \in {"down", "connecting"} => ~gateway


LEMMA NextClientState == RoutingInv /\ ClientState /\ [Next]_vars => ClientState'
  <1> SUFFICES ASSUME RoutingInv, ClientState, [Next]_vars PROVE ClientState'
    OBVIOUS
  <1>1. CASE \E r \in Requests : Search(r)
    <2> PICK r \in Requests : Search(r)
      BY <1>1
    <2>1. /\ phase = "serving" /\ phase' = "serving"
          /\ DOMAIN pending' = DOMAIN pending
          /\ \/ clients' = clients
             \/ \E answer : clients' = Told(SessionOf[r], answer)
      BY DEF Search
    <2>2. /\ DOMAIN clients' = DOMAIN clients
          /\ \A s \in Sessions : DOMAIN clients'[s] = DOMAIN clients[s]
      BY <2>1 DEF Told, ClientState
    <2> QED
      BY <2>1, <2>2 DEF ClientState
  <1>2. CASE \E r \in Requests : Notify(r) \/ NotifyFails(r)
    <2> PICK r \in Requests : Notify(r) \/ NotifyFails(r)
      BY <1>2
    <2>1. phase = "serving" /\ phase' = "serving" /\ UNCHANGED gateway
      BY DEF Notify, NotifyFails, RoutingInv, TypeOK, NonePending, process
    <2>2. DOMAIN pending' = DOMAIN pending
      BY DEF Notify, NotifyFails
    <2>3. /\ DOMAIN clients' = DOMAIN clients
          /\ \A s \in Sessions : DOMAIN clients'[s] = DOMAIN clients[s]
      BY DEF Notify, NotifyFails, Told, ClientState
    <2> QED
      BY <2>1, <2>2, <2>3 DEF ClientState
  <1>3. CASE \E s \in Sessions : ListTools(s)
    BY <1>3 DEF ListTools, process, ClientState
  <1>4. CASE \E s \in Sessions : CallDirectly(s) \/ CallBackendTool(s)
    BY <1>4 DEF CallDirectly, CallBackendTool, process, ClientState
  <1>5. CASE Stop
    BY <1>5 DEF Stop, NewClients, NonePending, ClientState
  <1>6. CASE Start \/ Connect \/ ConnectFails \/ Register
    BY <1>6 DEF Start, Connect, ConnectFails, Register, process, ClientState
  <1>7. CASE LoadGraph \/ BuildGraph \/ SaveMeta \/ SaveGraph \/ SaveFails
    BY <1>7 DEF LoadGraph, BuildGraph, ReadyToBuild, SaveMeta, SaveGraph, SaveFails,
                process, ClientState
  <1>8. CASE Done \/ UNCHANGED vars
    BY <1>8 DEF Done, vars, process, ClientState
  <1>9. CASE \E r \in Requests : SearchInVain(r)
    BY <1>9 DEF SearchInVain, ClientState
  <1> QED
    BY <1>1, <1>2, <1>3, <1>4, <1>5, <1>6, <1>7, <1>8, <1>9 DEF Next

LEMMA InitClientState == Init => ClientState
  BY DEF Init, NewClients, NonePending, ClientState

(* A search names its results after routes, whatever graph it searched.    *)
LEMMA NextAnswersRouted ==
  RoutingInv /\ FilesFit /\ ClientState /\ AnswersRouted /\ [Next]_vars => AnswersRouted'
  <1> SUFFICES ASSUME RoutingInv, FilesFit, ClientState, AnswersRouted, [Next]_vars
               PROVE  AnswersRouted'
    OBVIOUS
  <1>1. CASE \E r \in Requests : Search(r)
    <2> PICK r \in Requests : Search(r)
      BY <1>1
    <2>1. phase = "serving" /\ routes' = routes
      BY DEF Search
    <2>2. PICK hits \in SUBSET DOMAIN graph : \E name \in [hits -> UNION {NamesFor(n) : n \in hits}] :
            /\ \A n \in hits : name[n] \in NamesFor(n)
            /\ LET answer == {[name |-> name[n], of |-> graph[n]] : n \in hits} IN
               \/ pending' = [pending EXCEPT ![r] = answer] /\ UNCHANGED clients
               \/ clients' = Told(SessionOf[r], answer) /\ UNCHANGED pending
      BY DEF Search
    <2>3. PICK name \in [hits -> UNION {NamesFor(n) : n \in hits}] :
            /\ \A n \in hits : name[n] \in NamesFor(n)
            /\ LET answer == {[name |-> name[n], of |-> graph[n]] : n \in hits} IN
               \/ pending' = [pending EXCEPT ![r] = answer] /\ UNCHANGED clients
               \/ clients' = Told(SessionOf[r], answer) /\ UNCHANGED pending
      BY <2>2
    <2> DEFINE answer == {[name |-> name[n], of |-> graph[n]] : n \in hits}
    <2>4. \A n \in hits : NamesFor(n) \subseteq DOMAIN routes
      BY <2>1 DEF FilesFit, GraphFits, FindsName, NamesFor
    <2>5. \A o \in answer : o.name \in DOMAIN routes
      BY <2>3, <2>4
    <2>6. CASE pending' = [pending EXCEPT ![r] = answer] /\ UNCHANGED clients
      BY <2>1, <2>5, <2>6 DEF AnswersRouted, ClientState
    <2>7. CASE clients' = Told(SessionOf[r], answer) /\ UNCHANGED pending
      <3>1. \A s \in Sessions : clients'[s].offered \subseteq clients[s].offered \cup answer
        BY <2>7 DEF Told, ClientState, NewClient
      <3> QED
        BY <2>1, <2>5, <2>7, <3>1 DEF AnswersRouted
    <2> QED
      BY <2>3, <2>6, <2>7
  <1>2. CASE \E r \in Requests : Notify(r) \/ NotifyFails(r)
    <2> PICK r \in Requests : Notify(r) \/ NotifyFails(r)
      BY <1>2
    <2>1. routes' = routes
      BY DEF Notify, NotifyFails, process
    <2>2. \A s \in Sessions : clients'[s].offered \subseteq clients[s].offered \cup pending[r]
      BY DEF Notify, NotifyFails, Told, ClientState, NewClient
    <2>3. \A q \in Requests : pending'[q] \subseteq pending[q]
      BY DEF Notify, NotifyFails, Idle, ClientState
    <2> QED
      BY <2>1, <2>2, <2>3 DEF AnswersRouted
  <1>3. CASE \E s \in Sessions : ListTools(s)
    <2>1. routes' = routes /\ pending' = pending
      BY <1>3 DEF ListTools, process
    <2>2. \A s \in Sessions : clients'[s].offered = clients[s].offered
      BY <1>3 DEF ListTools, ClientState, NewClient
    <2> QED
      BY <2>1, <2>2 DEF AnswersRouted
  <1>4. CASE Stop
    BY <1>4 DEF Stop, NewClients, NewClient, NonePending, Idle, AnswersRouted
  <1>5. CASE Register
    BY <1>5 DEF Register, AnswersRouted
  <1>6. CASE UNCHANGED <<routes, clients, pending>>
    BY <1>6 DEF AnswersRouted
  <1>7. ASSUME \/ Start \/ Connect \/ ConnectFails \/ LoadGraph \/ BuildGraph \/ SaveMeta
               \/ SaveGraph \/ SaveFails \/ Done \/ UNCHANGED vars
               \/ \E r \in Requests : SearchInVain(r)
               \/ \E s \in Sessions : CallDirectly(s) \/ CallBackendTool(s)
        PROVE  UNCHANGED <<routes, clients, pending>>
    BY <1>7 DEF Start, Connect, ConnectFails, LoadGraph, BuildGraph, SaveMeta, SaveGraph,
                SaveFails, Done, vars, process, SearchInVain, CallDirectly, CallBackendTool
  <1> QED
    BY <1>1, <1>2, <1>3, <1>4, <1>5, <1>6, <1>7 DEF Next

(* Every name a search has returned has a route while the process lives,   *)
(* although the graph it came from may be one that another process saved:  *)
(* for any backends, redeployments and caches, as long as no crash comes   *)
(* between the two writes of the cache (OfferedIsRouted).                  *)
THEOREM OffersAreRouted == WritesTogether /\ Spec => []OfferedIsRouted
  <1> SUFFICES ASSUME WritesTogether PROVE Spec => []OfferedIsRouted
    OBVIOUS
  <1> DEFINE Inv == /\ RoutingInv /\ LoopOrder /\ ListedIsRouted
                    /\ FilesFit /\ ClientState /\ AnswersRouted
  <1>1. Init => Inv
    <2> SUFFICES ASSUME Init PROVE Inv
      OBVIOUS
    <2>1. LoopOrder /\ ListedIsRouted
      BY DEF Init, LoopOrder, ListedIsRouted, IsInjective
    <2>2. FilesFit
      BY DEF Init, FilesFit
    <2>3. AnswersRouted
      BY DEF Init, AnswersRouted, NewClients, NewClient, NonePending, Idle
    <2> QED
      BY <2>1, <2>2, <2>3, InitRouting, InitClientState
  <1>2. Inv /\ [Next]_vars => Inv'
    BY NextRouting, NextLoopOrder, NextListedIsRouted, NextFilesFit, NextClientState,
       NextAnswersRouted
  <1>3. Inv => OfferedIsRouted
    BY DEF AnswersRouted, OfferedIsRouted
  <1> HIDE DEF Inv
  <1> QED
    BY <1>1, <1>2, <1>3, PTL DEF Spec
----------------------------------------------------------------------------
(* Over stdio a proxy has a single session.                                *)
OneSession == \A s, t \in Sessions : s = t

LEMMA NextToldOfChanges ==
  OneSession /\ RoutingInv /\ ClientState /\ ToldOfChanges /\ [Next]_vars => ToldOfChanges'
  <1> SUFFICES ASSUME OneSession, RoutingInv, ClientState, ToldOfChanges, [Next]_vars,
                      NEW s \in Sessions,
                      gateway', clients'[s].open, clients'[s].listed
               PROVE  \/ clients'[s].view = exposed'
                      \/ clients'[s].told
                      \/ \E r \in Requests : SessionOf[r] = s /\ pending'[r] # Idle
    BY DEF ToldOfChanges, Idle
  <1>0. \A r \in Requests : SessionOf[r] = s
    BY ProxyAssumption DEF OneSession
  <1>1. ASSUME NEW r \in Requests, Search(r)
        PROVE  \/ clients'[s].view = exposed'
               \/ clients'[s].told
               \/ \E q \in Requests : SessionOf[q] = s /\ pending'[q] # Idle
    <2>1. PICK now, answer, n :
            /\ n \in answer
            /\ exposed' = now
            /\ IF Changed(exposed, now)
               THEN pending' = [pending EXCEPT ![r] = answer] /\ UNCHANGED clients
               ELSE clients' = Told(SessionOf[r], answer) /\ UNCHANGED pending
      <3>1. PICK hits \in (SUBSET DOMAIN graph) \ {{}} :
              \E name \in [hits -> UNION {NamesFor(n) : n \in hits}] :
              LET answer == {[name |-> name[n], of |-> graph[n]] : n \in hits}
                  now == {name[n] : n \in hits} \cap DOMAIN routes IN
              /\ exposed' = now
              /\ IF Changed(exposed, now)
                 THEN pending' = [pending EXCEPT ![r] = answer] /\ UNCHANGED clients
                 ELSE clients' = Told(SessionOf[r], answer) /\ UNCHANGED pending
        BY <1>1 DEF Search
      <3>2. PICK name :
              LET answer == {[name |-> name[n], of |-> graph[n]] : n \in hits}
                  now == {name[n] : n \in hits} \cap DOMAIN routes IN
              /\ exposed' = now
              /\ IF Changed(exposed, now)
                 THEN pending' = [pending EXCEPT ![r] = answer] /\ UNCHANGED clients
                 ELSE clients' = Told(SessionOf[r], answer) /\ UNCHANGED pending
        BY <3>1
      <3>3. PICK h : h \in hits
        BY <3>1
      <3>4. [name |-> name[h], of |-> graph[h]] \in {[name |-> name[n], of |-> graph[n]] : n \in hits}
        BY <3>3
      <3> QED
        BY <3>2, <3>4
    <2>2. CASE Changed(exposed, now)
      <3>1. pending'[r] = answer
        BY <2>1, <2>2 DEF ClientState
      <3> QED
        BY <1>0, <2>1, <3>1 DEF Idle
    <2>3. CASE ~Changed(exposed, now)
      <3>1. exposed' = exposed /\ UNCHANGED pending
        BY <2>1, <2>3 DEF Changed
      <3>2. /\ clients'[s].view = clients[s].view /\ clients'[s].told = clients[s].told
            /\ clients'[s].open = clients[s].open /\ clients'[s].listed = clients[s].listed
        <4>1. clients'[s] = [clients[s] EXCEPT !.offered = @ \cup answer]
          BY <1>0, <2>1, <2>3 DEF Told, ClientState
        <4> QED
          BY <4>1 DEF ClientState, NewClient
      <3>3. gateway
        BY <1>1 DEF Search
      <3> QED
        BY <3>1, <3>2, <3>3 DEF ToldOfChanges
    <2> QED
      BY <2>2, <2>3
  <1>2. ASSUME NEW r \in Requests, Notify(r) PROVE clients'[s].told
    BY <1>0, <1>2 DEF Notify, Told, ClientState, NewClient
  <1>3. ASSUME NEW r \in Requests, NotifyFails(r) PROVE FALSE
    BY <1>0, <1>3 DEF NotifyFails, ClientState, NewClient
  <1>4. ASSUME NEW t \in Sessions, ListTools(t) PROVE clients'[s].view = exposed'
    BY <1>4 DEF ListTools, process, OneSession, ClientState, NewClient
  <1>5. ASSUME clients' = NewClients PROVE FALSE
    BY <1>5 DEF NewClients, NewClient
  <1>6. CASE UNCHANGED <<gateway, exposed, clients, pending>>
    BY <1>6 DEF ToldOfChanges
  <1>7. ASSUME Start \/ Connect \/ ConnectFails \/ Register \/ LoadGraph \/ BuildGraph
               \/ SaveMeta \/ SaveGraph \/ SaveFails \/ Stop
        PROVE  clients' = NewClients
    BY <1>7 DEF Start, Connect, ConnectFails, Register, LoadGraph, BuildGraph, ReadyToBuild,
                SaveMeta, SaveGraph, SaveFails, Stop, process, ClientState
  <1>8. ASSUME \/ Done \/ UNCHANGED vars
               \/ \E r \in Requests : SearchInVain(r)
               \/ \E t \in Sessions : CallDirectly(t) \/ CallBackendTool(t)
        PROVE  UNCHANGED <<gateway, exposed, clients, pending>>
    BY <1>8 DEF Done, vars, process, SearchInVain, CallDirectly, CallBackendTool
  <1> QED
    BY <1>1, <1>2, <1>3, <1>4, <1>5, <1>6, <1>7, <1>8 DEF Next

(* A client of a proxy with one session is told of every change of the     *)
(* gateway's visible tools: it sees the current ones, a notification is on *)
(* its way to it, or one of its requests is about to send one, however its *)
(* requests interleave (ToldOfChanges).                                    *)
THEOREM ClientsAreTold == OneSession /\ Spec => []ToldOfChanges
  <1> SUFFICES ASSUME OneSession PROVE Spec => []ToldOfChanges
    OBVIOUS
  <1>1. Init => RoutingInv /\ ClientState /\ ToldOfChanges
    BY InitRouting, InitClientState DEF Init, ToldOfChanges
  <1>2. RoutingInv /\ ClientState /\ ToldOfChanges /\ [Next]_vars
          => (RoutingInv /\ ClientState /\ ToldOfChanges)'
    BY NextRouting, NextClientState, NextToldOfChanges
  <1> QED
    BY <1>1, <1>2, PTL DEF Spec
============================================================================
