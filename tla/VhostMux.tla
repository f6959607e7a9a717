------------------------------ MODULE VhostMux ------------------------------
(***************************************************************************)
(* Connections routed by host name: the Muxer of pkg/util/vhost/vhost.go   *)
(* that https and tcpmux proxies share, the proxies that listen on it      *)
(* (server/proxy/https.go, server/proxy/tcpmux.go) and the groups of       *)
(* tcpmux proxies (server/group/tcpmux.go).  The goroutine that handles a  *)
(* connection hands it over on a channel without a buffer, to the accept   *)
(* loop of the proxy or to the worker of its group: it waits until there   *)
(* is one, or until the listener is closed.                                *)
(***************************************************************************)
EXTENDS Routers

CONSTANTS
  MuxProxy,    \* https and tcpmux proxies, each run once
  MuxCasts,    \* the sets of proxies that are run together
  MuxConf,     \* MuxConf[p]: [routes, group, groupKey]; groupKey stands for the
               \* group_key and the user name and password, which are compared too
  Conn,        \* user connections
  MuxHosts,    \* the hosts they ask for
  MuxMaxInst   \* bound: TCPMuxGroup objects that are ever made for a group

MuxGroup == {MuxConf[p].group : p \in MuxProxy} \ {""}
\* Proxies and groups are told apart, and connections from the states of a worker.
MuxNames ==
  /\ MuxMaxInst \in Nat /\ MuxProxy \intersect MuxGroup = {}
  /\ "off" \notin Conn /\ "accept" \notin Conn
ASSUME MuxAssumption == MuxNames
GroupObj == MuxGroup \X (1..MuxMaxInst)
NoObj == <<"", 0>>
\* The users a CONNECT request may name; a TLS one names none.
MuxUsers ==
  {AnyUser} \union {k.user : k \in UNION {Range(MuxConf[p].routes) : p \in MuxProxy}}
\* A listener of the muxer: the n-th of a proxy, or the one of a group object.
Own(p, n) == <<p, n>>

VARIABLES
  table,    \* Muxer.registryRouter
  run,      \* run[p]: "off", "run", "up", "close", "over" or "panicked"
  lns,      \* lns[p]: which listeners of p are open, in order
  entering, \* entering[p]: the group object that TCPMuxGroupCtl.Listen has found
  ctl,      \* TCPMuxGroupCtl.groups
  objs,     \* objs[g]: how many objects of group g were made
  group,    \* group[o]: [members, key, groupKey, acceptCh] of a TCPMuxGroup
  worker,   \* worker[o]: "off", "accept", or the connection that it is passing on
  conn      \* conn[c]: [at, ln]

proxyVars == <<run, lns, entering>>
groupVars == <<ctl, objs, group, worker>>
muxVars == <<table, proxyVars, groupVars, conn>>

Object(members, key, groupKey, acceptCh) ==
  [members |-> members, key |-> key, groupKey |-> groupKey, acceptCh |-> acceptCh]
Fresh == Object({}, [domain |-> <<>>], "", "open")
Idle == [at |-> "none"]

MuxInit ==
  /\ table = NoRoutes
  /\ \E cast \in MuxCasts :
       run = [p \in MuxProxy |-> IF p \in cast THEN "off" ELSE "over"]
  /\ lns = [p \in MuxProxy |-> <<>>]
  /\ entering = [p \in MuxProxy |-> NoObj]
  /\ ctl = [g \in MuxGroup |-> NoObj] /\ objs = [g \in MuxGroup |-> 0]
  /\ group = [o \in GroupObj |-> Fresh] /\ worker = [o \in GroupObj |-> "off"]
  /\ conn = [c \in Conn |-> Idle]

Grouped(p) == MuxConf[p].group # ""
NextRoute(p) == MuxConf[p].routes[Len(lns[p]) + 1]
Listening(p) == run[p] = "run" /\ Len(lns[p]) < Len(MuxConf[p].routes)

\* Closing the channel of a listener makes the handlers that wait on it panic; the
\* panic is caught and the connection forgotten.
Dropped(cs, ln) ==
  [c \in Conn |-> IF cs[c].at = "send" /\ cs[c].ln = ln THEN [at |-> "dropped"] ELSE cs[c]]

-----------------------------------------------------------------------------
\* HTTPSProxy.Run, TCPMuxProxy.Run: one listener for every domain; the accept loops
\* start when all are open.
StartRun(p) ==
  /\ run[p] = "off"
  /\ run' = [run EXCEPT ![p] = "run"]
  /\ UNCHANGED <<table, lns, entering, groupVars, conn>>
StartLoops(p) ==
  /\ run[p] = "run" /\ Len(lns[p]) = Len(MuxConf[p].routes)
  /\ run' = [run EXCEPT ![p] = "up"]
  /\ UNCHANGED <<table, lns, entering, groupVars, conn>>
\* An error closes the listeners opened before.
FailLeaves(p) == run' = [run EXCEPT ![p] = "over"] /\ UNCHANGED lns
Fail(p) == run' = [run EXCEPT ![p] = "close"] /\ UNCHANGED lns
Opened(p) == lns' = [lns EXCEPT ![p] = Append(@, Len(@) + 1)] /\ UNCHANGED run

\* Muxer.Listen
Listen(p) ==
  /\ Listening(p) /\ ~Grouped(p)
  /\ IF Exist(table, NextRoute(p)) THEN Fail(p) /\ UNCHANGED table
     ELSE Opened(p) /\ table' = Add(table, NextRoute(p), Own(p, Len(lns[p]) + 1))
  /\ UNCHANGED <<entering, groupVars, conn>>
\* TCPMuxGroupCtl.Listen: the object of the group, found or made under the lock of
\* the controller, which is released before the object is entered.
FindObj(p) ==
  LET g == MuxConf[p].group
  IN  /\ Listening(p) /\ Grouped(p) /\ entering[p] = NoObj
      /\ IF ctl[g] # NoObj
           THEN entering' = [entering EXCEPT ![p] = ctl[g]] /\ UNCHANGED <<ctl, objs>>
           ELSE /\ objs[g] < MuxMaxInst
                /\ objs' = [objs EXCEPT ![g] = @ + 1]
                /\ ctl' = [ctl EXCEPT ![g] = <<g, objs'[g]>>]
                /\ entering' = [entering EXCEPT ![p] = <<g, objs'[g]>>]
      /\ UNCHANGED <<table, run, lns, group, worker, conn>>
\* TCPMuxGroup.HTTPConnectListen: the first member opens the listener and starts a
\* worker; the channel of an object that was used before stays closed.
HTTPConnectListen(p) ==
  LET o == entering[p]
      first == group[o].members = {}
      refused == IF first THEN Exist(table, NextRoute(p))
                 ELSE group[o].key # NextRoute(p) \/ group[o].groupKey # MuxConf[p].groupKey
  IN  /\ Listening(p) /\ o # NoObj
      /\ entering' = [entering EXCEPT ![p] = NoObj]
      /\ IF refused THEN Fail(p) /\ UNCHANGED <<table, group, worker>>
         ELSE /\ Opened(p)
              /\ group' = [group EXCEPT ![o] = Object(@.members \union {p}, NextRoute(p),
                                                      MuxConf[p].groupKey, @.acceptCh)]
              /\ table' = IF first THEN Add(table, NextRoute(p), o) ELSE table
              /\ worker' = IF first THEN [worker EXCEPT ![o] = "accept"] ELSE worker
      /\ UNCHANGED <<ctl, objs, conn>>

-----------------------------------------------------------------------------
\* BaseProxy.Close closes the listeners.
StartClose(p) ==
  /\ run[p] = "up"
  /\ run' = [run EXCEPT ![p] = "close"]
  /\ UNCHANGED <<table, lns, entering, groupVars, conn>>
MuxCloseEnds(p) ==
  /\ run[p] = "close" /\ lns[p] = <<>>
  /\ run' = [run EXCEPT ![p] = "over"]
  /\ UNCHANGED <<table, lns, entering, groupVars, conn>>
\* Listener.Close
CloseListener(p) ==
  /\ run[p] = "close" /\ lns[p] # <<>> /\ ~Grouped(p)
  /\ table' = Del(table, MuxConf[p].routes[Head(lns[p])])
  /\ conn' = Dropped(conn, Own(p, Head(lns[p])))
  /\ lns' = [lns EXCEPT ![p] = Tail(@)]
  /\ UNCHANGED <<run, entering, groupVars>>
\* TCPMuxGroup.CloseListener: the last member closes the channel of the group and
\* the listener and takes the group out of the controller, whatever object that
\* has under the name by now.  Closing the channel a second time panics.
LeaveGroup(p, o) ==
  /\ run[p] = "close" /\ p \in group[o].members /\ group[o].members # {p}
  /\ group' = [group EXCEPT ![o] = Object(@.members \ {p}, @.key, @.groupKey, @.acceptCh)]
  /\ lns' = [lns EXCEPT ![p] = Tail(@)]
  /\ UNCHANGED <<table, run, entering, ctl, objs, worker, conn>>
LeaveLast(p, o) ==
  LET held == worker[o]
      gone == Dropped(conn, o)
  IN  /\ run[p] = "close" /\ group[o].members = {p} /\ group[o].acceptCh = "open"
      /\ group' = [group EXCEPT ![o] = Object({}, @.key, @.groupKey, "closed")]
      /\ table' = Del(table, group[o].key)
      /\ ctl' = [ctl EXCEPT ![o[1]] = NoObj]
      /\ worker' = [worker EXCEPT ![o] = "off"]
      /\ conn' = IF held \in Conn THEN [gone EXCEPT ![held] = [at |-> "dropped"]] ELSE gone
      /\ lns' = [lns EXCEPT ![p] = Tail(@)]
      /\ UNCHANGED <<run, entering, objs>>
LeavePanics(p, o) ==
  /\ run[p] = "close" /\ group[o].members = {p} /\ group[o].acceptCh = "closed"
  /\ group' = [group EXCEPT ![o] = Object({}, @.key, @.groupKey, "closed")]
  /\ run' = [run EXCEPT ![p] = "panicked"]
  /\ UNCHANGED <<table, lns, entering, ctl, objs, worker, conn>>

-----------------------------------------------------------------------------
\* Muxer.handle: the host and the user are read, and the listener is looked up; no
\* vhostFunc sets a path.
Handle(c) ==
  /\ conn[c] = Idle
  /\ \E h \in MuxHosts, u \in MuxUsers :
       LET r == getVhost(table, h, <<>>, u)
       IN  conn' = [conn EXCEPT ![c] = IF r = NoRoute THEN [at |-> "closed"]
                                       ELSE [at |-> "found", ln |-> r.payload]]
  /\ UNCHANGED <<table, proxyVars, groupVars>>
\* An answer that cannot be written, or a wrong password.
Refuse(c) ==
  /\ conn[c].at = "found"
  /\ conn' = [conn EXCEPT ![c] = [at |-> "closed"]]
  /\ UNCHANGED <<table, proxyVars, groupVars>>
\* The channel of the listener is open as long as the listener is in the table.
Open(ln) == \E i \in DOMAIN table : table[i].payload = ln
Send(c) ==
  /\ conn[c].at = "found"
  /\ conn' = [conn EXCEPT ![c] = IF Open(conn[c].ln) THEN [at |-> "send", ln |-> conn[c].ln]
                                 ELSE [at |-> "dropped"]]
  /\ UNCHANGED <<table, proxyVars, groupVars>>
\* Listener.Accept in the accept loop of the proxy
Accept(c) ==
  /\ conn[c].at = "send" /\ \E p \in MuxProxy : p = conn[c].ln[1] /\ run[p] = "up"
  /\ conn' = [conn EXCEPT ![c] = [at |-> "accepted"]]
  /\ UNCHANGED <<table, proxyVars, groupVars>>
\* TCPMuxGroup.worker takes it, and passes it on; on a closed channel it ends.
WorkerAccepts(c) ==
  LET o == conn[c].ln
  IN  /\ conn[c].at = "send" /\ o \in GroupObj /\ worker[o] = "accept"
      /\ IF group[o].acceptCh = "open"
           THEN /\ worker' = [worker EXCEPT ![o] = c]
                /\ conn' = [conn EXCEPT ![c] = [at |-> "worker", ln |-> o]]
           ELSE /\ worker' = [worker EXCEPT ![o] = "off"]
                /\ conn' = [conn EXCEPT ![c] = [at |-> "dropped"]]
      /\ UNCHANGED <<table, proxyVars, ctl, objs, group>>
\* TCPMuxGroupListener.Accept of a member that is up
MemberAccepts(c) ==
  LET o == conn[c].ln
  IN  /\ conn[c].at = "worker" /\ \E p \in group[o].members : run[p] = "up"
      /\ worker' = [worker EXCEPT ![o] = "accept"]
      /\ conn' = [conn EXCEPT ![c] = [at |-> "accepted"]]
      /\ UNCHANGED <<table, proxyVars, ctl, objs, group>>

MuxNext ==
  \/ \E p \in MuxProxy : \/ StartRun(p) \/ Listen(p) \/ FindObj(p) \/ HTTPConnectListen(p)
                         \/ StartLoops(p) \/ StartClose(p) \/ CloseListener(p) \/ MuxCloseEnds(p)
                         \/ \E o \in GroupObj : \/ LeaveGroup(p, o) \/ LeaveLast(p, o)
                                               \/ LeavePanics(p, o)
  \/ \E c \in Conn : \/ Handle(c) \/ Refuse(c) \/ Send(c) \/ Accept(c)
                     \/ WorkerAccepts(c) \/ MemberAccepts(c)

MuxSpec == MuxInit /\ [][MuxNext]_muxVars

-----------------------------------------------------------------------------
\* No handler waits for ever: a connection that waits to be accepted is at a listener
\* of the table, whose proxy is about to start its accept loop, has one, or is about
\* to close the listener; or at a group with members whose worker runs.  Also when
\* a proxy fails halfway through its domains or closes at that moment.  Excepted is
\* a group object that was entered again after its last member had left: its channel
\* is closed and its worker ends at the first connection.
NoHandlerStranded ==
  \A c \in Conn : conn[c].at \in {"send", "worker"} =>
    LET ln == conn[c].ln
    IN  /\ Open(ln)
        /\ IF ln \in GroupObj
             THEN \/ group[ln].acceptCh = "closed"
                  \/ group[ln].members # {} /\ worker[ln] # "off"
             ELSE run[ln[1]] \in {"run", "up", "close"}
=============================================================================
