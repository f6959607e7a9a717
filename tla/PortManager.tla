---------------------------- MODULE PortManager ----------------------------
(***************************************************************************)
(* The port tables of frps (server/ports/ports.go).  The tcp and the udp   *)
(* proxies each have one.  A Manager's methods run under its mutex; they   *)
(* are action fragments here, which the modules of its users compose.      *)
(*                                                                         *)
(* Whether a port is available is found out by listening on it for a       *)
(* moment: it never is while frps itself listens on it, and any other      *)
(* process may have it at any moment.                                      *)
(***************************************************************************)
CONSTANTS
  ProxyName,   \* names ports are acquired for
  NoName,      \* not a name
  AllowPort,   \* allow_ports
  NoPort       \* remote_port 0, and no port

ASSUME PortAssumption == NoName \notin ProxyName /\ NoPort \notin AllowPort

VARIABLES
  reservedPorts,  \* the port a name had last
  closedCtx,      \* the names whose reserved PortCtx is Closed
  usedPorts,      \* the name a port was acquired for
  freePorts

portVars == <<reservedPorts, closedCtx, usedPorts, freePorts>>

PortsInit ==
  /\ reservedPorts = [n \in ProxyName |-> NoPort]
  /\ closedCtx = {}
  /\ usedPorts = [r \in AllowPort |-> NoName]
  /\ freePorts = AllowPort

\* Mutant: the port is not taken off the free list.
TakeKeepsFree(n, r) ==
  /\ usedPorts' = [usedPorts EXCEPT ![r] = n]
  /\ reservedPorts' = [reservedPorts EXCEPT ![n] = r]
  /\ closedCtx' = closedCtx \ {n}
  /\ UNCHANGED freePorts

Take(n, r) ==
  /\ usedPorts' = [usedPorts EXCEPT ![r] = n]
  /\ reservedPorts' = [reservedPorts EXCEPT ![n] = r]
  /\ closedCtx' = closedCtx \ {n}
  /\ freePorts' = freePorts \ {r}

\* Acquire returns r.  The port reserved for the name is not looked up on the
\* free list; any other port is.
Acquire(n, port, r, unbound) ==
  /\ r \in AllowPort \cap unbound
  /\ \/ port = NoPort /\ r = reservedPorts[n]
     \/ port = NoPort /\ r \in freePorts
     \/ port = r /\ r \in freePorts
  /\ Take(n, r)

\* Release: nothing happens unless the port is in use.
Release(r) ==
  IF r \in AllowPort /\ usedPorts[r] # NoName
  THEN /\ freePorts' = freePorts \cup {r}
       /\ usedPorts' = [usedPorts EXCEPT ![r] = NoName]
       /\ closedCtx' = IF reservedPorts[usedPorts[r]] = r
                       THEN closedCtx \cup {usedPorts[r]} ELSE closedCtx
       /\ UNCHANGED reservedPorts
  ELSE UNCHANGED portVars

\* cleanReservedPortsWorker forgets a reservation that is closed for a day.
CleanReserved(n) ==
  /\ n \in closedCtx
  /\ reservedPorts' = [reservedPorts EXCEPT ![n] = NoPort]
  /\ closedCtx' = closedCtx \ {n}
  /\ UNCHANGED <<usedPorts, freePorts>>

\* The type of the tables, for the modules of their users.
PortsTypeOK ==
  /\ reservedPorts \in [ProxyName -> AllowPort \cup {NoPort}]
  /\ closedCtx \subseteq ProxyName
  /\ usedPorts \in [AllowPort -> ProxyName \cup {NoName}]
  /\ freePorts \subseteq AllowPort
=============================================================================
