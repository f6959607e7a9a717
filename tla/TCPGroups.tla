----------------------------- MODULE TCPGroups -----------------------------
(***************************************************************************)
(* The tcp proxies of frps and the groups that share a port between them:  *)
(* server/proxy/tcp.go and server/group/tcp.go over server/ports/ports.go, *)
(* with the name checks of RegisterProxy around them.                      *)
(*                                                                         *)
(* A proxy object is run by the manager goroutine of its control, so the   *)
(* steps of different proxies interleave wherever no mutex is held.  A     *)
(* TCPGroup is locked from Join to GroupListen; the group table is locked  *)
(* only for the lookup.                                                    *)
(***************************************************************************)
EXTENDS PortManager, Naturals

CONSTANTS
  Proxy,      \* TCPProxy objects
  Config,     \* their configurations
  Group,      \* group names
  NoGroup,    \* a proxy without a group
  GroupKey,   \* group keys
  NoKey,      \* the key of a group that never had a listener
  MaxGroups,  \* bound: TCPGroup objects created
  SysPort,    \* every port of the machine
  Nobody,     \* the listener of a port on which frps does not listen
  MaxConns    \* bound: user connections accepted by groups

ASSUME ConfigAssumption ==
  Config \subseteq [name : ProxyName, group : Group \cup {NoGroup},
                    key : GroupKey, port : AllowPort \cup {NoPort}]
ASSUME GroupAssumption ==
  /\ NoGroup \notin Group /\ MaxGroups \in Nat /\ MaxConns \in Nat
  /\ Nobody \notin Proxy /\ Proxy \cap (1..MaxGroups) = {}
  /\ Nobody \notin 1..MaxGroups
  /\ AllowPort \subseteq SysPort /\ NoPort \notin SysPort

TCPGroup == 1..MaxGroups
NoTCPGroup == 0
NoConfig == <<>>

VARIABLES
  stage,      \* how far Run or Close of a proxy is
  cfg,        \* its configuration
  realPort,   \* realBindPort
  joined,     \* the TCPGroup of its listener
  added,      \* the proxies in proxy.Manager
  bound,      \* who listens on a port: a proxy or a TCPGroup
  groups,     \* TCPGroupCtl.groups
  created,    \* TCPGroup objects created
  lns,        \* TCPGroup.lns, as the proxies of the listeners
  params,     \* TCPGroup.group, groupKey, port and realPort
  acceptCh,   \* TCPGroup.acceptCh: "open" or "closed"
  worker,     \* TCPGroup.worker
  conns

pxyVars   == <<stage, cfg, realPort, joined, added>>
groupVars == <<groups, created, lns, params, acceptCh, worker, conns>>
vars == <<portVars, pxyVars, bound, groupVars>>

Params == [group : Group \cup {NoGroup}, key : GroupKey \cup {NoKey},
           port : AllowPort \cup {NoPort}, real : AllowPort \cup {NoPort}]
NoParams == [group |-> NoGroup, key |-> NoKey, port |-> NoPort, real |-> NoPort]

Init ==
  /\ PortsInit
  /\ stage = [p \in Proxy |-> "new"]
  /\ cfg = [p \in Proxy |-> NoConfig]
  /\ realPort = [p \in Proxy |-> NoPort]
  /\ joined = [p \in Proxy |-> NoTCPGroup]
  /\ added = {}
  /\ bound = [r \in SysPort |-> Nobody]
  /\ groups = [g \in Group |-> NoTCPGroup]
  /\ created = 0
  /\ lns = [t \in TCPGroup |-> {}]
  /\ params = [t \in TCPGroup |-> NoParams]
  /\ acceptCh = [t \in TCPGroup |-> "open"]
  /\ worker = [t \in TCPGroup |-> "off"]
  /\ conns = 0

Unbound == {r \in SysPort : bound[r] = Nobody}
Unbind(x) == bound' = [r \in SysPort |-> IF bound[r] = x THEN Nobody ELSE bound[r]]

\* The mutex of a TCPGroup, held while its first listener is set up.
Locked(t) == \E p \in Proxy : stage[p] = "groupListen" /\ joined[p] = t

-----------------------------------------------------------------------------
(* A proxy without a group.                                                *)

\* RegisterProxy runs a proxy only if its name is not in the name table.
Unregistered(c) == \A q \in added : cfg[q].name # c.name

Run(p, c) ==
  /\ stage[p] = "new" /\ c.group = NoGroup /\ Unregistered(c)
  /\ cfg' = [cfg EXCEPT ![p] = c]
  /\ \/ \E r \in AllowPort :
          /\ Acquire(c.name, c.port, r, Unbound)
          /\ realPort' = [realPort EXCEPT ![p] = r]
          /\ stage' = [stage EXCEPT ![p] = "listen"]
     \/ /\ stage' = [stage EXCEPT ![p] = "ended"]
        /\ UNCHANGED <<portVars, realPort>>
  /\ UNCHANGED <<joined, added, bound, groupVars>>

\* Mutant: the port is kept when listening on it fails.
ListenLeaks(p) ==
  /\ stage[p] = "listen"
  /\ \/ /\ realPort[p] \in Unbound
        /\ bound' = [bound EXCEPT ![realPort[p]] = p]
        /\ stage' = [stage EXCEPT ![p] = "up"]
     \/ stage' = [stage EXCEPT ![p] = "ended"] /\ UNCHANGED bound
  /\ UNCHANGED <<portVars, cfg, realPort, joined, added, groupVars>>

\* net.Listen; the port is released if it fails.
Listen(p) ==
  /\ stage[p] = "listen"
  /\ \/ /\ realPort[p] \in Unbound
        /\ bound' = [bound EXCEPT ![realPort[p]] = p]
        /\ stage' = [stage EXCEPT ![p] = "up"]
        /\ UNCHANGED portVars
     \/ /\ Release(realPort[p])
        /\ stage' = [stage EXCEPT ![p] = "ended"]
        /\ UNCHANGED bound
  /\ UNCHANGED <<cfg, realPort, joined, added, groupVars>>

\* proxy.Manager.Add: a proxy whose name was taken meanwhile is closed again.
AddProxy(p) ==
  /\ stage[p] = "up"
  /\ IF Unregistered(cfg[p])
     THEN stage' = [stage EXCEPT ![p] = "running"] /\ added' = added \cup {p}
     ELSE stage' = [stage EXCEPT ![p] = "closing"] /\ UNCHANGED added
  /\ UNCHANGED <<portVars, cfg, realPort, joined, bound, groupVars>>

\* CloseProxy or the stoper closes the proxy.
CloseProxy(p) ==
  /\ stage[p] = "running"
  /\ stage' = [stage EXCEPT ![p] = "closing"]
  /\ UNCHANGED <<portVars, cfg, realPort, joined, added, bound, groupVars>>

\* Mutant: the port is released before the listener is closed.
CloseSocketLate(p) ==
  /\ stage[p] = "closing" /\ cfg[p].group = NoGroup
  /\ Release(realPort[p])
  /\ stage' = [stage EXCEPT ![p] = "release"]
  /\ UNCHANGED <<cfg, realPort, joined, added, bound, groupVars>>

\* BaseProxy.Close closes the listener ...
CloseSocket(p) ==
  /\ stage[p] = "closing" /\ cfg[p].group = NoGroup
  /\ Unbind(p)
  /\ stage' = [stage EXCEPT ![p] = "release"]
  /\ UNCHANGED <<portVars, cfg, realPort, joined, added, groupVars>>

\* ... and TCPProxy.Close releases the port; then the name is deleted.
ReleasePort(p) ==
  /\ stage[p] = "release"
  /\ Release(realPort[p])
  /\ stage' = [stage EXCEPT ![p] = "ended"]
  /\ added' = added \ {p}
  /\ UNCHANGED <<cfg, realPort, joined, bound, groupVars>>

-----------------------------------------------------------------------------
(* A proxy in a group.                                                     *)

\* TCPGroupCtl.Listen: the group is looked up or created, and the mutex of
\* the table given back before the group's Listen is called.
Lookup(p, c) ==
  /\ stage[p] = "new" /\ c.group # NoGroup /\ Unregistered(c)
  /\ \/ groups[c.group] # NoTCPGroup /\ UNCHANGED <<groups, created>>
     \/ /\ groups[c.group] = NoTCPGroup /\ created < MaxGroups
        /\ created' = created + 1
        /\ groups' = [groups EXCEPT ![c.group] = created + 1]
  /\ joined' = [joined EXCEPT ![p] = groups'[c.group]]
  /\ cfg' = [cfg EXCEPT ![p] = c]
  /\ stage' = [stage EXCEPT ![p] = "join"]
  /\ UNCHANGED <<portVars, realPort, added, bound, lns, params, acceptCh,
                 worker, conns>>

\* TCPGroup.Listen of the first listener: the port is acquired.
JoinFirst(p) ==
  LET t == joined[p] IN
  /\ stage[p] = "join" /\ ~Locked(t) /\ lns[t] = {}
  /\ \/ \E r \in AllowPort :
          /\ Acquire(cfg[p].name, cfg[p].port, r, Unbound)
          /\ realPort' = [realPort EXCEPT ![p] = r]
          /\ stage' = [stage EXCEPT ![p] = "groupListen"]
     \/ /\ stage' = [stage EXCEPT ![p] = "ended"]
        /\ UNCHANGED <<portVars, realPort>>
  /\ UNCHANGED <<cfg, joined, added, bound, groupVars>>

\* net.Listen on the port that was asked for, where 0 is any port; the
\* acquired port is not released if it fails.  acceptCh is made with the
\* group, and not again.
GroupListen(p) ==
  LET t == joined[p] IN
  /\ stage[p] = "groupListen"
  /\ \/ /\ \E r \in Unbound :
             /\ cfg[p].port \in {r, NoPort}
             /\ bound' = [bound EXCEPT ![r] = t]
        /\ lns' = [lns EXCEPT ![t] = {p}]
        /\ params' = [params EXCEPT ![t] =
                        [group |-> cfg[p].group, key |-> cfg[p].key,
                         port |-> cfg[p].port, real |-> realPort[p]]]
        /\ worker' = [worker EXCEPT ![t] = "accept"]
        /\ stage' = [stage EXCEPT ![p] = "up"]
     \/ /\ stage' = [stage EXCEPT ![p] = "ended"]
        /\ UNCHANGED <<bound, lns, params, worker>>
  /\ UNCHANGED <<portVars, cfg, realPort, joined, added, groups, created,
                 acceptCh, conns>>

\* Mutant: the group key is not compared.
MatchesAnyKey(p, t) ==
  params[t].group = cfg[p].group /\ params[t].port = cfg[p].port

Matches(p, t) ==
  /\ params[t].group = cfg[p].group
  /\ params[t].port = cfg[p].port
  /\ params[t].key = cfg[p].key

\* TCPGroup.Listen of a further listener.
JoinNext(p) ==
  LET t == joined[p] IN
  /\ stage[p] = "join" /\ ~Locked(t) /\ lns[t] # {}
  /\ IF Matches(p, t)
     THEN /\ lns' = [lns EXCEPT ![t] = @ \cup {p}]
          /\ realPort' = [realPort EXCEPT ![p] = params[t].real]
          /\ stage' = [stage EXCEPT ![p] = "up"]
     ELSE stage' = [stage EXCEPT ![p] = "ended"] /\ UNCHANGED <<lns, realPort>>
  /\ UNCHANGED <<portVars, cfg, joined, added, bound, groups, created, params,
                 acceptCh, worker, conns>>

\* TCPGroupListener.Close closes the listener's closeCh ...
CloseCh(p) ==
  /\ stage[p] = "closing" /\ cfg[p].group # NoGroup
  /\ stage' = [stage EXCEPT ![p] = "leave"]
  /\ UNCHANGED <<portVars, cfg, realPort, joined, added, bound, groupVars>>

\* Mutant: the group is shut down whoever leaves.
CloseListenerAlways(p) ==
  LET t == joined[p] IN
  /\ stage[p] = "leave" /\ ~Locked(t)
  /\ lns' = [lns EXCEPT ![t] = @ \ {p}]
  /\ acceptCh' = [acceptCh EXCEPT ![t] = "closed"]
  /\ Unbind(t) /\ Release(params[t].real)
  /\ groups' = [groups EXCEPT ![params[t].group] = NoTCPGroup]
  /\ stage' = [stage EXCEPT ![p] = "ended"] /\ added' = added \ {p}
  /\ UNCHANGED <<cfg, realPort, joined, created, params, worker, conns>>

\* Mutant: the last listener leaves acceptCh open.
CloseListenerKeepsCh(p) ==
  LET t == joined[p] IN
  /\ stage[p] = "leave" /\ ~Locked(t)
  /\ lns' = [lns EXCEPT ![t] = @ \ {p}]
  /\ IF lns[t] # {p}
     THEN UNCHANGED <<portVars, bound, groups>>
     ELSE /\ Unbind(t) /\ Release(params[t].real)
          /\ groups' = [groups EXCEPT ![params[t].group] = NoTCPGroup]
  /\ stage' = [stage EXCEPT ![p] = "ended"] /\ added' = added \ {p}
  /\ UNCHANGED <<cfg, realPort, joined, created, params, acceptCh, worker, conns>>

\* ... and CloseListener takes it out of the group.  The last one closes
\* acceptCh and the real listener, releases the port and removes the group.
\* Closing acceptCh a second time panics, with the rest undone and the name
\* of the proxy still in the name table.
CloseListener(p) ==
  LET t == joined[p] IN
  /\ stage[p] = "leave" /\ ~Locked(t)
  /\ lns' = [lns EXCEPT ![t] = @ \ {p}]
  /\ \/ /\ lns[t] # {p}
        /\ stage' = [stage EXCEPT ![p] = "ended"] /\ added' = added \ {p}
        /\ UNCHANGED <<portVars, bound, groups, acceptCh>>
     \/ /\ lns[t] = {p} /\ acceptCh[t] = "open"
        /\ acceptCh' = [acceptCh EXCEPT ![t] = "closed"]
        /\ Unbind(t) /\ Release(params[t].real)
        /\ groups' = [groups EXCEPT ![params[t].group] = NoTCPGroup]
        /\ stage' = [stage EXCEPT ![p] = "ended"] /\ added' = added \ {p}
     \/ /\ lns[t] = {p} /\ acceptCh[t] = "closed"
        /\ stage' = [stage EXCEPT ![p] = "panicked"]
        /\ UNCHANGED <<portVars, bound, groups, acceptCh, added>>
  /\ UNCHANGED <<cfg, realPort, joined, created, params, worker, conns>>

-----------------------------------------------------------------------------
(* User connections of a group.                                            *)

WorkerFrame == UNCHANGED <<portVars, pxyVars, bound, groups, created, lns, params,
                           acceptCh>>

Listening(t) == \E r \in SysPort : bound[r] = t

WorkerAccept(t) ==
  /\ worker[t] = "accept" /\ Listening(t) /\ conns < MaxConns
  /\ worker' = [worker EXCEPT ![t] = "send"]
  /\ conns' = conns + 1
  /\ WorkerFrame

\* The worker ends when its listener or acceptCh is closed.
WorkerExit(t) ==
  /\ \/ worker[t] = "accept" /\ ~Listening(t)
     \/ worker[t] = "send" /\ acceptCh[t] = "closed"
  /\ worker' = [worker EXCEPT ![t] = "off"]
  /\ UNCHANGED conns
  /\ WorkerFrame

\* A listener's Accept takes the connection from acceptCh; one whose closeCh
\* is closed may still do so.
Accept(t, p) ==
  /\ worker[t] = "send" /\ acceptCh[t] = "open"
  /\ p \in lns[t] /\ stage[p] \in {"up", "running", "closing", "leave"}
  /\ worker' = [worker EXCEPT ![t] = "accept"]
  /\ UNCHANGED conns
  /\ WorkerFrame

-----------------------------------------------------------------------------
ProxyStep(p) ==
  \/ Listen(p) \/ AddProxy(p) \/ CloseSocket(p) \/ ReleasePort(p)
  \/ JoinFirst(p) \/ GroupListen(p) \/ JoinNext(p) \/ CloseCh(p) \/ CloseListener(p)

Next ==
  \/ \E p \in Proxy : ProxyStep(p) \/ CloseProxy(p)
  \/ \E p \in Proxy, c \in Config : Run(p, c) \/ Lookup(p, c)
  \/ \E t \in TCPGroup : WorkerAccept(t) \/ WorkerExit(t)
  \/ \E t \in TCPGroup, p \in Proxy : Accept(t, p)
  \/ \E n \in ProxyName : CleanReserved(n) /\ UNCHANGED <<pxyVars, bound, groupVars>>

Spec == Init /\ [][Next]_vars

\* Goroutines that can run are scheduled; the accept loop of a proxy takes a
\* connection unless the proxy is being closed.
Fairness ==
  /\ \A p \in Proxy : WF_vars(ProxyStep(p))
  /\ \A t \in TCPGroup :
       /\ WF_vars(WorkerExit(t))
       /\ \A p \in Proxy : WF_vars(stage[p] \in {"up", "running"} /\ Accept(t, p))

FairSpec == Spec /\ Fairness

-----------------------------------------------------------------------------
(* Properties.                                                             *)

\* Every variable keeps its type; in particular Release finds a name for
\* every port that it gives back.
TypeOK ==
  /\ PortsTypeOK
  /\ stage \in [Proxy -> {"new", "listen", "join", "groupListen", "up", "running",
                          "closing", "release", "leave", "ended", "panicked"}]
  /\ cfg \in [Proxy -> Config \cup {NoConfig}]
  /\ realPort \in [Proxy -> AllowPort \cup {NoPort}]
  /\ joined \in [Proxy -> TCPGroup \cup {NoTCPGroup}]
  /\ added \subseteq Proxy
  /\ bound \in [SysPort -> Proxy \cup TCPGroup \cup {Nobody}]
  /\ groups \in [Group -> TCPGroup \cup {NoTCPGroup}]
  /\ created \in 0..MaxGroups
  /\ lns \in [TCPGroup -> SUBSET Proxy]
  /\ params \in [TCPGroup -> Params]
  /\ acceptCh \in [TCPGroup -> {"open", "closed"}]
  /\ worker \in [TCPGroup -> {"off", "accept", "send"}]
  /\ conns \in 0..MaxConns

\* A port is free or in use, never both and never neither, although Acquire
\* can hand out a reserved port without looking at the free list.
PortTables == freePorts = {r \in AllowPort : usedPorts[r] = NoName}

\* The port a client is told is the one its proxy, or the proxy's group,
\* listens on, for as long as the proxy runs, whoever else joins and leaves.
AnnouncedPort ==
  \A p \in Proxy : stage[p] \in {"up", "running"} =>
    bound[realPort[p]] = IF cfg[p].group = NoGroup THEN p ELSE joined[p]

\* A port on which frps listens is in use and so refused to others.  The ports
\* of proxies that leave the choice to frps are excepted: Acquire may give such
\* a proxy its reserved port while another one is about to listen on it.
ListeningIsUsed ==
  \A r \in AllowPort :
    /\ bound[r] # Nobody
    /\ \A q \in Proxy : realPort[q] = r => cfg[q].port # NoPort
    => usedPorts[r] # NoName

\* A port in use was acquired for a proxy that still has it, or that runs in a
\* group: a proxy without a group gives its port back however it ends.
PortsComeBack ==
  \A r \in AllowPort : usedPorts[r] # NoName =>
    \E p \in Proxy :
      /\ cfg[p] # NoConfig /\ cfg[p].name = usedPorts[r]
      /\ \/ realPort[p] = r /\ stage[p] \in {"listen", "up", "running", "closing", "release"}
         \/ cfg[p].group # NoGroup

\* "group_key is used for authentication", "remote_port in the same group
\* should be the same": the listeners of a group agree with it, also after the
\* group was emptied and taken over by another first listener.
GroupMembersAgree ==
  \A t \in TCPGroup : \A p \in lns[t] :
    params[t] = [group |-> cfg[p].group, key |-> cfg[p].key,
                 port |-> cfg[p].port, real |-> realPort[p]]

\* A connection accepted for a group does not stay with its worker: a listener
\* takes it, or the group is closed.
ConnectionsDispatched ==
  \A t \in TCPGroup : worker[t] = "send" ~> worker[t] # "send"

\* "Connections to port 80 will be dispatched to proxies in the same group":
\* a group some proxy runs in can hand connections to it.
GroupServes ==
  \A p \in Proxy :
    stage[p] \in {"up", "running"} /\ cfg[p].group # NoGroup =>
      acceptCh[joined[p]] = "open"
=============================================================================
