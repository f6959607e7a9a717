---------------------------- MODULE MCForwarding ----------------------------
(* The parts that carry user traffic, for TLC: http routing, the muxers of   *)
(* https and tcpmux proxies, udp tunnels, secret visitors and the tunnel of  *)
(* an xtcp visitor.  They share no state, so that each behaviour is one of   *)
(* one part while the others are at rest in a state they end in.             *)
EXTENDS HTTPRoutes, VhostMux

CONSTANTS p1, p2, p3, p4, p5,
          WorkConn, Owner, Visitor, Packets, QueueCap, TunnelUser, KeepTunnelOpen, Fallback
VARIABLES manager, isClosed, current, forwarder, releases, open, reader, sender,
          cliConn, cliClosed, cliStage, cliWriter, stopped,
          listener, owner, queue, live, asked, reply, serving, user,
          dispatcher, loops, closed, farLoops, farClosed,
          tunnel, starter, retryer, visit, cancelled

U == INSTANCE UDPTunnel
S == INSTANCE SecretVisitors
X == INSTANCE XtcpVisitor WITH stopped <- cancelled

httpVars == <<routes, groups, inst, made, phase, closeFuncs, found, request>>
udpVars == <<manager, isClosed, current, forwarder, releases, open, reader, sender,
             cliConn, cliClosed, cliStage, cliWriter, stopped>>
secretVars == <<listener, owner, queue, live, asked, reply, serving, user,
                dispatcher, loops, closed, farLoops, farClosed>>
xtcpVars == <<tunnel, starter, retryer, visit, cancelled>>
all == <<httpVars, muxVars, udpVars, secretVars, xtcpVars>>

-----------------------------------------------------------------------------
HTTPAtRest ==
  /\ routes = NoRoutes
  /\ groups = [g \in Group |-> NoInst] /\ made = [g \in Group |-> 0]
  /\ inst = [i \in Inst |-> FreeInst]
  /\ phase = [p \in Proxy |-> "never"] /\ closeFuncs = [p \in Proxy |-> <<>>]
  /\ found = [p \in Proxy |-> NoInst]
  /\ request = [q \in Request |-> [at |-> "over"]]
MuxAtRest ==
  /\ table = NoRoutes
  /\ run = [p \in MuxProxy |-> "over"] /\ lns = [p \in MuxProxy |-> <<>>]
  /\ entering = [p \in MuxProxy |-> NoObj]
  /\ ctl = [g \in MuxGroup |-> NoObj] /\ objs = [g \in MuxGroup |-> 0]
  /\ group = [o \in GroupObj |-> Fresh] /\ worker = [o \in GroupObj |-> "off"]
  /\ conn = [c \in Conn |-> [at |-> "closed"]]
UDPAtRest ==
  /\ manager = [at |-> "end"] /\ isClosed = TRUE /\ current = {}
  /\ forwarder = "panicked" /\ releases = 2 /\ open = {}
  /\ reader = [w \in WorkConn |-> "off"] /\ sender = [w \in WorkConn |-> "off"]
  /\ cliConn = {} /\ cliClosed = TRUE /\ cliWriter = {}
  /\ cliStage = [w \in WorkConn |-> "none"] /\ stopped = TRUE
SecretAtRest ==
  /\ listener = S!Nobody /\ owner = [o \in Owner |-> "over"]
  /\ queue = [o \in Owner |-> <<>>]
  /\ live = {} /\ asked = {} /\ serving = {}
  /\ reply = [c \in S!VisitConn |-> "none"] /\ user = [c \in Visitor |-> "over"]
  /\ dispatcher = "end" /\ loops = {} /\ closed = TRUE
  /\ farLoops = {} /\ farClosed = TRUE
XtcpAtRest ==
  /\ tunnel = "none" /\ starter = "end" /\ retryer = "end" /\ cancelled = TRUE
  /\ visit = [u \in TunnelUser |-> "none"]

MCInit ==
  \/ Init /\ MuxAtRest /\ UDPAtRest /\ SecretAtRest /\ XtcpAtRest
  \/ MuxInit /\ HTTPAtRest /\ UDPAtRest /\ SecretAtRest /\ XtcpAtRest
  \/ U!Init /\ HTTPAtRest /\ MuxAtRest /\ SecretAtRest /\ XtcpAtRest
  \/ S!Init /\ HTTPAtRest /\ MuxAtRest /\ UDPAtRest /\ XtcpAtRest
  \/ X!Init /\ HTTPAtRest /\ MuxAtRest /\ UDPAtRest /\ SecretAtRest
MCNext ==
  \/ Next /\ UNCHANGED <<muxVars, udpVars, secretVars, xtcpVars>>
  \/ MuxNext /\ UNCHANGED <<httpVars, udpVars, secretVars, xtcpVars>>
  \/ U!Next /\ UNCHANGED <<httpVars, muxVars, secretVars, xtcpVars>>
  \/ S!Next /\ UNCHANGED <<httpVars, muxVars, udpVars, xtcpVars>>
  \/ X!Next /\ UNCHANGED <<httpVars, muxVars, udpVars, secretVars>>
MCSpec ==
  /\ MCInit /\ [][MCNext]_all
  /\ U!Fairness /\ S!Fairness /\ X!Fairness

DeadConnReplaced == U!DeadConnReplaced
SudpEndsTogether == S!SudpEndsTogether
TunnelReopens == X!TunnelReopens

-----------------------------------------------------------------------------
ABC    == <<"a", "b", "c">>
XBC    == <<"x", "b", "c">>
StarBC == <<Star, "b", "c">>
StarC  == <<Star, "c">>
Conf(rs, g, k) == [routes |-> rs, group |-> g, groupKey |-> k]
MCProxyConf ==
  [p \in Proxy |->
    CASE p = p1 -> Conf(<<Key(ABC, <<1>>, AnyUser), Key(StarBC, <<1>>, AnyUser)>>, "", "")
      [] p = p2 -> Conf(<<Key(<<Star>>, <<>>, "u"), Key(StarBC, <<>>, AnyUser),
                          Key(StarBC, <<1>>, AnyUser)>>, "", "")
      [] p = p3 -> Conf(<<Key(ABC, <<1, 2>>, AnyUser)>>, "g", "k")
      [] p = p4 -> Conf(<<Key(ABC, <<1, 2>>, AnyUser)>>, "g", "k")
      [] p = p5 -> Conf(<<Key(StarC, <<>>, AnyUser), Key(<<Star>>, <<>>, AnyUser)>>, "", "")]
MCCasts == {{p1, p2}, {p1, p3, p4}, {p1, p5}}
MCAsked == [q \in Request |-> [host |-> ABC, path |-> <<1, 2, 1>>, user |-> "u"]]
MCHosts == {ABC, XBC, <<"b", "c">>, <<"y", "a", "b", "c">>}
MCPaths == {<<2>>, <<1, 2, 1>>}
MCUsers == {"u", "w"}

Domain(d) == Key(d, <<>>, AnyUser)
MCMuxConf ==
  [p \in MuxProxy |->
    CASE p = p1 -> Conf(<<Domain(ABC), Domain(StarBC)>>, "", "")
      [] p = p2 -> Conf(<<Key(ABC, <<>>, "u"), Domain(StarBC)>>, "", "")
      [] p = p3 -> Conf(<<Domain(<<Star>>)>>, "g", "k")
      [] p = p4 -> Conf(<<Domain(<<Star>>)>>, "g", "k")
      [] p = p5 -> Conf(<<Domain(<<Star>>)>>, "g", "other")]
MCMuxCasts == {{p1, p2}, {p3, p4}, {p3, p5}}
MCMuxHosts == {ABC, XBC}
=============================================================================
