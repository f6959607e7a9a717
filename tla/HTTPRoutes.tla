----------------------------- MODULE HTTPRoutes -----------------------------
(***************************************************************************)
(* The http proxies of frps and the requests for them: registration and    *)
(* closing of a proxy (server/proxy/http.go), its load balancing group     *)
(* (server/group/http.go), and a request that HTTPReverseProxy             *)
(* (pkg/util/vhost/http.go) looks up three times while routes come and go: *)
(* for its authentication, in the Director and when it is connected.       *)
(*                                                                         *)
(* The connections that http.Transport keeps and uses again for the same   *)
(* route are not modelled: every request is connected anew.                *)
(***************************************************************************)
EXTENDS Routers

CONSTANTS
  Proxy,       \* http proxies, each registered again when it is closed
  Casts,       \* the sets of proxies that are registered together
  ProxyConf,   \* ProxyConf[p]: [routes, group, groupKey]
  Request,     \* requests, each made again when it is answered
  Asked,       \* Asked[q]: [host, path, user], what a request asks for
  Hosts, Paths, Users, \* what is looked up
  MaxInst      \* bound: HTTPGroup objects that are ever made for a group

Group == {ProxyConf[p].group : p \in Proxy} \ {""}
Inst == Group \X (1..MaxInst)
NoInst == <<"", 0>>
\* Run skips an empty domain, and a proxy is not a group.  A domain is a sequence of
\* labels, a location and a path a sequence of characters.
ASSUME ProxyAssumption ==
  /\ MaxInst \in Nat /\ Proxy \intersect Inst = {}
  /\ \A p \in Proxy : /\ ProxyConf[p].routes \in Seq(Range(ProxyConf[p].routes))
                      /\ \A k \in Range(ProxyConf[p].routes) :
                           k.domain \in Seq(STRING) \ {<<>>} /\ k.location \in Seq(Nat)
ASSUME RequestAssumption ==
  /\ Hosts \union {Asked[q].host : q \in Request} \subseteq Seq(STRING)
  /\ Paths \union {Asked[q].path : q \in Request} \subseteq Seq(Nat)

FreeInst == [members |-> {}, key |-> Key(<<>>, <<>>, AnyUser), groupKey |-> ""]

VARIABLES
  routes,  \* HTTPReverseProxy.vhostRouter
  groups,  \* HTTPGroupController.groups: the object of a group, or NoInst
  inst,    \* inst[i]: an HTTPGroup object
  made,    \* made[g]: how many objects of group g were made
  phase,   \* phase[p]: "never", "off", "run", "up" or "close"
  closeFuncs, \* closeFuncs[p]: the keys of the routes it has registered, in order
  found,   \* found[p]: the HTTPGroup that Register has looked up
  request  \* request[q]: where it is, and what it has looked up

grpVars == <<groups, inst, made>>
pxyVars == <<phase, closeFuncs, found>>
vars == <<routes, grpVars, pxyVars, request>>

NoRequest == [at |-> "none"]

Init ==
  /\ routes = NoRoutes
  /\ groups = [g \in Group |-> NoInst] /\ made = [g \in Group |-> 0]
  /\ inst = [i \in Inst |-> FreeInst]
  /\ \E cast \in Casts : phase = [p \in Proxy |-> IF p \in cast THEN "off" ELSE "never"]
  /\ closeFuncs = [p \in Proxy |-> <<>>]
  /\ found = [p \in Proxy |-> NoInst]
  /\ request = [q \in Request |-> NoRequest]

-----------------------------------------------------------------------------
InGroup(p) == ProxyConf[p].group # ""
NextKey(p) == ProxyConf[p].routes[Len(closeFuncs[p]) + 1]

\* HTTPProxy.Run: for every domain and location one registration.
Run(p) ==
  /\ phase[p] = "off"
  /\ phase' = [phase EXCEPT ![p] = "run"]
  /\ UNCHANGED <<routes, grpVars, closeFuncs, found, request>>
Running(p) == phase[p] = "run" /\ Len(closeFuncs[p]) < Len(ProxyConf[p].routes)
RunEnds(p) ==
  /\ phase[p] = "run" /\ Len(closeFuncs[p]) = Len(ProxyConf[p].routes)
  /\ phase' = [phase EXCEPT ![p] = "up"]
  /\ UNCHANGED <<routes, grpVars, closeFuncs, found, request>>
\* An error of a registration: the deferred Close undoes the earlier ones.
RunFails(p) ==
  /\ phase' = [phase EXCEPT ![p] = "close"]
  /\ UNCHANGED <<routes, closeFuncs>>
Registered(p) ==
  /\ closeFuncs' = [closeFuncs EXCEPT ![p] = Append(@, NextKey(p))]
  /\ UNCHANGED phase

\* HTTPReverseProxy.Register
Register(p) ==
  /\ Running(p) /\ ~InGroup(p)
  /\ \/ /\ ~Exist(routes, NextKey(p))
        /\ routes' = Add(routes, NextKey(p), p) /\ Registered(p)
     \/ Exist(routes, NextKey(p)) /\ RunFails(p)
  /\ UNCHANGED <<grpVars, found, request>>

\* HTTPGroupController.Register finds or makes the group and lets go of its lock;
\* HTTPGroup.Register follows.
FindGroup(p) ==
  LET g == ProxyConf[p].group
  IN  /\ Running(p) /\ InGroup(p) /\ found[p] = NoInst
      /\ IF groups[g] # NoInst
           THEN found' = [found EXCEPT ![p] = groups[g]] /\ UNCHANGED grpVars
           ELSE /\ made[g] < MaxInst
                /\ made' = [made EXCEPT ![g] = @ + 1]
                /\ groups' = [groups EXCEPT ![g] = <<g, made'[g]>>]
                /\ found' = [found EXCEPT ![p] = <<g, made'[g]>>]
                /\ UNCHANGED inst
      /\ UNCHANGED <<routes, phase, closeFuncs, request>>
GroupRegister(p) ==
  LET i == found[p]
      first == inst[i].members = {}
      refused == IF first THEN Exist(routes, NextKey(p))
                 ELSE \/ inst[i].key # NextKey(p)
                      \/ inst[i].groupKey # ProxyConf[p].groupKey
                      \/ p \in inst[i].members
  IN  /\ Running(p) /\ found[p] # NoInst
      /\ found' = [found EXCEPT ![p] = NoInst]
      /\ \/ refused /\ RunFails(p) /\ UNCHANGED inst
         \/ /\ ~refused
            /\ inst' = [inst EXCEPT ![i] = [members  |-> @.members \union {p},
                                            key      |-> NextKey(p),
                                            groupKey |-> ProxyConf[p].groupKey]]
            /\ routes' = IF first THEN Add(routes, NextKey(p), i) ELSE routes
            /\ Registered(p)
      /\ UNCHANGED <<groups, made, request>>

-----------------------------------------------------------------------------
\* HTTPProxy.Close, once per proxy, runs the closeFuncs one after the other.
Close(p) ==
  /\ phase[p] = "up"
  /\ phase' = [phase EXCEPT ![p] = "close"]
  /\ UNCHANGED <<routes, grpVars, closeFuncs, found, request>>
CloseEnds(p) ==
  /\ phase[p] = "close" /\ closeFuncs[p] = <<>>
  /\ phase' = [phase EXCEPT ![p] = "off"]
  /\ UNCHANGED <<routes, grpVars, closeFuncs, found, request>>
UnRegister(p) ==
  /\ phase[p] = "close" /\ closeFuncs[p] # <<>> /\ ~InGroup(p)
  /\ routes' = Del(routes, Head(closeFuncs[p]))
  /\ closeFuncs' = [closeFuncs EXCEPT ![p] = Tail(@)]
  /\ UNCHANGED <<grpVars, phase, found, request>>
\* HTTPGroupController.UnRegister asks the group of that name that it has now; one
\* that is left empty gives up its route and is forgotten.
GroupUnRegisterKeepsRoute(p) ==
  LET g == ProxyConf[p].group
      i == groups[g]
      left == inst[i].members \ {p}
  IN  /\ phase[p] = "close" /\ closeFuncs[p] # <<>> /\ InGroup(p)
      /\ closeFuncs' = [closeFuncs EXCEPT ![p] = Tail(@)]
      /\ IF i = NoInst THEN UNCHANGED <<groups, inst>>
         ELSE /\ inst' = [inst EXCEPT ![i].members = left]
              /\ groups' = [groups EXCEPT ![g] = IF left = {} THEN NoInst ELSE i]
      /\ UNCHANGED <<routes, made, phase, found, request>>
GroupUnRegister(p) ==
  LET g == ProxyConf[p].group
      i == groups[g]
      left == inst[i].members \ {p}
  IN  /\ phase[p] = "close" /\ closeFuncs[p] # <<>> /\ InGroup(p)
      /\ closeFuncs' = [closeFuncs EXCEPT ![p] = Tail(@)]
      /\ IF i = NoInst THEN UNCHANGED <<routes, groups, inst>>
         ELSE /\ inst' = [inst EXCEPT ![i].members = left]
              /\ groups' = [groups EXCEPT ![g] = IF left = {} THEN NoInst ELSE i]
              /\ routes' = IF left = {} THEN Del(routes, inst[i].key) ELSE routes
      /\ UNCHANGED <<made, phase, found, request>>

-----------------------------------------------------------------------------
Lookup(q) == getVhost(routes, Asked[q].host, Asked[q].path, Asked[q].user)

At(q, r) == request' = [request EXCEPT ![q] = r] /\ UNCHANGED <<routes, grpVars, pxyVars>>

\* ServeHTTP: CheckAuth looks up the route and answers a request with the wrong
\* password at once, which changes nothing; the others go on.  connectHandler, for a
\* CONNECT request, asks for no endpoint.
ServeHTTP(q) ==
  /\ request[q] = NoRequest
  /\ At(q, [at |-> "director"]) \/ At(q, [at |-> "connect", byEndpoint |-> FALSE])
\* Director: a second lookup.  The route of a group has a ChooseEndpointFn.
Director(q) ==
  /\ request[q].at = "director"
  /\ LET i == Lookup(q).payload
     IN  At(q, IF i \in Inst THEN [at |-> "choose", group |-> i]
               ELSE [at |-> "connect", byEndpoint |-> TRUE, endpoint |-> ""])
\* Any member, as the counter has been counting all along; none if the group has been
\* emptied since.
chooseEndpoint(q) ==
  LET members == inst[request[q].group].members
  IN  /\ request[q].at = "choose"
      /\ \E e \in members \union {""} :
           /\ e = "" => members = {}
           /\ At(q, [at |-> "connect", byEndpoint |-> TRUE, endpoint |-> e])
\* CreateConnection: a third lookup, and the CreateConnFn or CreateConnByEndpointFn of
\* the route it finds.
CreateConnection(q) ==
  /\ request[q].at = "connect"
  /\ LET i == Lookup(q).payload
     IN  At(q, IF i = NoRoute.payload THEN NoRequest
               ELSE IF i \notin Inst THEN [at |-> "dial", to |-> i]
               ELSE IF request[q].byEndpoint
                 THEN [at |-> "endpoint", group |-> i, endpoint |-> request[q].endpoint]
               ELSE [at |-> "any", group |-> i])
createConn(q) ==
  LET members == inst[request[q].group].members
  IN  /\ request[q].at = "any"
      /\ \/ \E e \in members : At(q, [at |-> "dial", to |-> e])
         \/ members = {} /\ At(q, NoRequest)
\* Mutant: the endpoint the Director has named is taken as it is.
createConnByEndpointTrusts(q) ==
  /\ request[q].at = "endpoint"
  /\ At(q, IF request[q].endpoint = "" THEN NoRequest
           ELSE [at |-> "dial", to |-> request[q].endpoint])
createConnByEndpoint(q) ==
  /\ request[q].at = "endpoint"
  /\ At(q, IF request[q].endpoint \in inst[request[q].group].members
             THEN [at |-> "dial", to |-> request[q].endpoint] ELSE NoRequest)
\* No lock is held while GetWorkConnFromPool waits; the request is then carried over
\* the work connection it got, or answered with an error.
GetRealConn(q) ==
  /\ request[q].at = "dial"
  /\ At(q, NoRequest)

RequestStep(q) ==
  \/ ServeHTTP(q) \/ Director(q) \/ chooseEndpoint(q) \/ CreateConnection(q)
  \/ createConn(q) \/ createConnByEndpoint(q) \/ GetRealConn(q)

Next ==
  \/ \E p \in Proxy : \/ Run(p) \/ Register(p) \/ FindGroup(p) \/ GroupRegister(p) \/ RunEnds(p)
                      \/ Close(p) \/ UnRegister(p) \/ GroupUnRegister(p) \/ CloseEnds(p)
  \/ \E q \in Request : RequestStep(q)

Spec == Init /\ [][Next]_vars

-----------------------------------------------------------------------------
BestOf(hits, got, h) ==
  IF hits = {} THEN got = NoRoute
  ELSE \E i \in hits : /\ got = routes[i]
                       /\ \A j \in hits : Preferred(routes[i].key, routes[j].key, h)

\* Whatever was registered and taken out before, a request gets the best of the
\* routes that match it: the search by domain, user and descending location of
\* getVhost agrees with the preference it is meant to implement.  The one exception
\* is named: a route of a wildcard with two labels, *.com, matches but is never
\* found, although the comment http.go:213-215 lists it among those that are tried.
LookupIsBest ==
  \A h \in Hosts, w \in Paths, u \in Users :
    BestOf({i \in DOMAIN routes : /\ Matches(routes[i].key, h, w, u)
                                  /\ ~ShortWildcard(routes[i].key.domain, h)},
           getVhost(routes, h, w, u), h)

\* Routes are deleted by their key, not by their owner, and still nobody deletes a
\* route of another: a proxy without a group has exactly the routes it registered,
\* and a group has its route exactly while it has members, also a group that the
\* controller has forgotten.
RoutesHaveOwners ==
  /\ \A p \in Proxy : ~InGroup(p) =>
       {r.key : r \in {r \in Range(routes) : r.payload = p}}
         = Range(closeFuncs[p])
  /\ \A i \in Inst : inst[i].members # {} <=>
       [key |-> inst[i].key, payload |-> i] \in Range(routes)
  /\ \A r \in Range(routes) : r.payload \in Inst \/ ~InGroup(r.payload)

\* The step in which a request settles on a proxy whose work connection it will use.
Settles(q) == request'[q].at = "dial" /\ request[q].at # "dial"

\* It is registered for a route that matches what is asked, or the group that has it as
\* a member is no longer the controller's.
SettlesOnRoute ==
  \A q \in Request : Settles(q) =>
    \/ \E k \in Range(closeFuncs[request'[q].to]) :
         Matches(k, Asked[q].host, Asked[q].path, Asked[q].user)
    \/ /\ request[q].at \in {"any", "endpoint"}
       /\ groups[request[q].group[1]] # request[q].group

\* A request settles on a proxy that is registered then and there for a route that
\* matches the request, whatever was registered, closed or moved between the lookup of
\* the Director, the choice of an endpoint, the lookup of CreateConnection and that of
\* the member; not on one an earlier of these steps named and that has left since.  The
\* one exception is a group object that the controller has forgotten while a proxy was
\* entering it, which no Close will ever find again.  From here on the request waits
\* for a work connection, and the proxy may be closed before it has one.
ServedByItsRoute == [][SettlesOnRoute]_vars
=============================================================================
