---------------------------- MODULE ProxyWrapper ----------------------------
(***************************************************************************)
(* One proxy of a client session and its registration at the server: the   *)
(* Wrapper of client/proxy/proxy_wrapper.go with its checkWorker, the      *)
(* health monitor of client/health/health.go, and the answers the server   *)
(* gives to NewProxy.  The messages of one name travel in order in both    *)
(* directions, so that an answer may arrive long after the wrapper has     *)
(* asked again or has withdrawn the proxy: nothing in NewProxyResp says    *)
(* which request it answers.  Requests and answers carry here, for the     *)
(* properties only, whether their request is still the latest one.         *)
(***************************************************************************)
EXTENDS Naturals, Sequences

CONSTANTS
  HasMonitor,       \* health_check_type is set
  MaxFailed,        \* health_check_max_failed
  QueueCap,         \* bound: messages under way in one direction
  RunMayFail        \* the client plugin of the proxy may fail to start

Phase == {"new", "waitStart", "startError", "running", "checkFailed", "closed"}

VARIABLES
  phase,       \* pw.Phase
  health,      \* pw.health = 0
  statusOK,    \* monitor.statusOK
  failedTimes, \* monitor.failedTimes, capped at MaxFailed
  toServer,    \* NewProxy and CloseProxy on their way
  toClient,    \* NewProxyResp on their way
  registered,  \* the server's control has the proxy
  agreed,      \* the wrapper runs because of the answer to its latest request
  late,        \* a request was repeated before its answer arrived
  refused      \* the server refused a proxy for a reason of its own

monVars == <<health, statusOK, failedTimes>>
netVars == <<toServer, toClient, registered>>
ghosts  == <<agreed, late, refused>>
wrapperVars == <<phase, monVars, netVars, ghosts>>

Request(t) == [type |-> t, latest |-> TRUE]
Outdate(q) == [i \in DOMAIN q |-> [q[i] EXCEPT !.latest = FALSE]]

\* pw.handler sends NewProxy: what is under way no longer answers the latest
\* request.
SendNewProxy ==
  /\ Len(toServer) < QueueCap
  /\ toServer' = Append(Outdate(toServer), Request("NewProxy"))
  /\ toClient' = Outdate(toClient)

SendCloseProxy ==
  /\ Len(toServer) < QueueCap
  /\ toServer' = Append(toServer, Request("CloseProxy"))

WrapperInit ==
  /\ phase = "new"
  /\ health = ~HasMonitor /\ statusOK = FALSE /\ failedTimes = 0
  /\ toServer = <<>> /\ toClient = <<>> /\ registered = FALSE
  /\ agreed = FALSE /\ late = FALSE /\ refused = FALSE

-----------------------------------------------------------------------------
(* checkWorker.                                                            *)

\* Mutant: a proxy whose check failed is not started again.
CheckStartForgets ==
  /\ health /\ phase = "new"
  /\ phase' = "waitStart"
  /\ SendNewProxy
  /\ UNCHANGED <<monVars, registered, ghosts>>

\* A healthy proxy that is new, failed its check or got an error long enough
\* ago asks the server to start it.
CheckStart ==
  /\ health /\ phase \in {"new", "checkFailed", "startError"}
  /\ phase' = "waitStart"
  /\ SendNewProxy
  /\ UNCHANGED <<monVars, registered, ghosts>>

\* It asks again when there was no answer for waitResponseTimeout.
CheckRetry ==
  /\ health /\ phase = "waitStart"
  /\ SendNewProxy
  /\ late' = TRUE
  /\ UNCHANGED <<phase, monVars, registered, agreed, refused>>

\* An unhealthy proxy is withdrawn.
CheckFail ==
  /\ ~health /\ phase \in {"running", "waitStart"}
  /\ phase' = "checkFailed"
  /\ SendCloseProxy
  /\ UNCHANGED <<toClient, monVars, registered, ghosts>>

\* Stop, called when the session is over and sendCh is closed.
Stop ==
  /\ phase # "closed" /\ phase' = "closed"
  /\ UNCHANGED <<monVars, netVars, ghosts>>

-----------------------------------------------------------------------------
(* SetRunningStatus.                                                       *)

\* Mutant: an answer is taken in whatever phase the wrapper is.
RespStartsAnyPhase ==
  /\ toClient # <<>> /\ Head(toClient).type = "ok"
  /\ toClient' = Tail(toClient)
  /\ phase' = "running"
  /\ agreed' = Head(toClient).latest
  /\ UNCHANGED <<toServer, monVars, registered, late, refused>>

\* A good answer starts the proxy.
RespStarts ==
  /\ toClient # <<>> /\ Head(toClient).type = "ok" /\ phase = "waitStart"
  /\ toClient' = Tail(toClient)
  /\ phase' = "running"
  /\ agreed' = Head(toClient).latest
  /\ UNCHANGED <<toServer, monVars, registered, late, refused>>

\* The proxy does not start on the client: the server is told to close it.
RespRunFails ==
  /\ RunMayFail
  /\ toClient # <<>> /\ Head(toClient).type = "ok" /\ phase = "waitStart"
  /\ toClient' = Tail(toClient)
  /\ phase' = "startError"
  /\ SendCloseProxy
  /\ UNCHANGED <<monVars, registered, ghosts>>

RespError ==
  /\ toClient # <<>> /\ Head(toClient).type = "error" /\ phase = "waitStart"
  /\ toClient' = Tail(toClient)
  /\ phase' = "startError"
  /\ UNCHANGED <<toServer, monVars, registered, ghosts>>

\* In any other phase the answer is ignored.
RespIgnored ==
  /\ toClient # <<>> /\ phase # "waitStart"
  /\ toClient' = Tail(toClient)
  /\ UNCHANGED <<phase, toServer, monVars, registered, ghosts>>

HandleResp == RespStarts \/ RespRunFails \/ RespError \/ RespIgnored

-----------------------------------------------------------------------------
(* The server's control: NewProxy is answered, CloseProxy is not.          *)

Answer(t) == Append(toClient, [type |-> t, latest |-> Head(toServer).latest])

ServerRegisters ==
  /\ toServer # <<>> /\ Head(toServer).type = "NewProxy" /\ Len(toClient) < QueueCap
  /\ ~registered /\ registered' = TRUE
  /\ toClient' = Answer("ok") /\ toServer' = Tail(toServer)
  /\ UNCHANGED <<phase, monVars, ghosts>>

\* The name is in use, by this proxy or by another client's, or the port, the
\* limit or a plugin is against it.
ServerRefuses ==
  /\ toServer # <<>> /\ Head(toServer).type = "NewProxy" /\ Len(toClient) < QueueCap
  /\ refused' = (refused \/ ~registered)
  /\ toClient' = Answer("error") /\ toServer' = Tail(toServer)
  /\ UNCHANGED <<phase, monVars, registered, agreed, late>>

ServerCloses ==
  /\ toServer # <<>> /\ Head(toServer).type = "CloseProxy"
  /\ registered' = FALSE
  /\ toServer' = Tail(toServer)
  /\ UNCHANGED <<phase, monVars, toClient, ghosts>>

ServerStep == ServerRegisters \/ ServerRefuses \/ ServerCloses

-----------------------------------------------------------------------------
(* The health monitor: one check, and the callback that wakes checkWorker.  *)

Capped(n) == IF n < MaxFailed THEN n + 1 ELSE n

CheckGood ==
  /\ HasMonitor /\ phase # "closed"
  /\ statusOK' = TRUE
  /\ health' = (health \/ ~statusOK)
  /\ UNCHANGED <<phase, failedTimes, netVars, ghosts>>

\* failedTimes is never reset.
CheckBad ==
  /\ HasMonitor /\ phase # "closed"
  /\ failedTimes' = Capped(failedTimes)
  /\ LET down == statusOK /\ failedTimes' >= MaxFailed IN
       /\ statusOK' = (statusOK /\ ~down)
       /\ health' = (health /\ ~down)
  /\ UNCHANGED <<phase, netVars, ghosts>>

-----------------------------------------------------------------------------
CheckStep == CheckStart \/ CheckFail
WrapperNext == CheckStep \/ CheckRetry \/ Stop \/ HandleResp \/ ServerStep \/ CheckGood \/ CheckBad

WrapperSpec == WrapperInit /\ [][WrapperNext]_wrapperVars

\* checkWorker runs every three seconds, messages are delivered and handled.
WrapperFairness ==
  WF_wrapperVars(CheckStep) /\ WF_wrapperVars(HandleResp) /\ WF_wrapperVars(ServerStep)
WrapperFairSpec == WrapperSpec /\ WrapperFairness

-----------------------------------------------------------------------------
(* Properties.                                                             *)

Kinds == {"NewProxy", "CloseProxy", "ok", "error"}
WrapperTypeOK ==
  /\ phase \in Phase /\ registered \in BOOLEAN
  /\ health \in BOOLEAN /\ statusOK \in BOOLEAN
  /\ failedTimes \in 0..MaxFailed
  /\ toServer \in Seq([type : Kinds, latest : BOOLEAN])
  /\ toClient \in Seq([type : Kinds, latest : BOOLEAN])
  /\ Len(toServer) <= QueueCap /\ Len(toClient) <= QueueCap

\* A wrapper that runs because its latest request was granted is registered at
\* the server, whatever older requests, withdrawals and answers are under way:
\* work connections that the server asks for find a running proxy.
RunningIsRegistered ==
  phase = "running" /\ agreed => registered

\* The two sides agree in the end: if no request was repeated while its answer
\* was on its way, the server refused nothing, the plugin starts and the local
\* service is up for good, then the proxy ends up running at the client and
\* registered at the server, however often its check has failed before.
RecoversTogether ==
  /\ [](~late /\ ~refused /\ phase \notin {"startError", "closed"})
  /\ <>[]health
  => <>[](phase = "running" /\ registered)
=============================================================================
