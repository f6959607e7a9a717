--------------------------- MODULE ServerControl ---------------------------
(***************************************************************************)
(* The control sessions of frps: server/control.go, the part of            *)
(* server/service.go that registers them, and the name table of            *)
(* server/proxy/proxy.go.                                                  *)
(*                                                                         *)
(* A control serves one login of one client.  Five goroutines run per      *)
(* login: the login itself (RegisterControl, then the watcher that calls   *)
(* WaitClosed and Del), reader, writer, manager and stoper.  Each has a    *)
(* program counter here, and every action below is what that goroutine     *)
(* does between two points at which another one can be scheduled.          *)
(*                                                                         *)
(* What a message carries is abstracted to its type and a proxy name.  The *)
(* plugin hooks, the API check and the validation of a configuration are   *)
(* the choice between the Refuse and the succeeding actions.               *)
(***************************************************************************)
EXTENDS Naturals, Sequences, FiniteSets

CONSTANTS
  Control,            \* the *Control objects, one per login
  NoControl,          \* the nil *Control
  RunID,              \* the run ids clients log in with
  NoRunID,            \* the empty run id
  Name,               \* proxy names
  PortName,           \* the names of tcp and udp proxies: usedPortsNum is 1
  Inbound,            \* the messages clients send
  Transport,          \* what the control connection is: "mux", "tcp" or "tls"
  Heartbeat,          \* application heartbeats are checked
  ChanCap,            \* capacity of sendCh and readCh (10 in the code)
  MaxPortsPerClient,  \* max_ports_per_client, 0 for no limit
  MaxReads,           \* bound: messages the clients send in all
  MaxReqs             \* bound: work connections requested in all

MsgType == {"NewProxy", "CloseProxy", "Ping", "BadPing", "NatHole"}
Message == [type : MsgType, name : Name]

ASSUME ControlAssumption == NoControl \notin Control
ASSUME RunIDAssumption   == NoRunID \notin RunID
ASSUME NameAssumption    == PortName \subseteq Name
ASSUME InboundAssumption == Inbound \subseteq Message
ASSUME TransportAssumption ==
  Transport \in {"mux", "tcp", "tls"} /\ Heartbeat \in BOOLEAN
ASSUME BoundAssumption ==
  /\ ChanCap \in Nat \ {0} /\ MaxPortsPerClient \in Nat
  /\ MaxReads \in Nat /\ MaxReqs \in Nat

VARIABLES
  ctls,        \* ControlManager.ctlsByRunID
  login,       \* where the login goroutine, later the watcher, is
  loginID,     \* ctl.loginMsg.RunID
  runID,       \* ctl.runID, emptied by Replaced
  oldCtl,      \* the control that Add returned to the login
  stopping,    \* controls whose allShutdown is started
  done,        \* controls whose allShutdown is done
  open,        \* controls whose connection was not closed on this side
  reader, readerMsg, readCh, reads,
  writer, sendCh, reqs,
  manager, managerMsg,
  proxies,     \* ctl.proxies
  portsUsed,   \* ctl.portsUsedNum
  running,     \* the names of the proxies of a control between Run and Close
  pxyManager,  \* proxy.Manager.pxys, as the control of the named proxy
  stoper, closing

loginVars  == <<ctls, login, loginID, runID, oldCtl>>
readerVars == <<reader, readerMsg, reads>>
writerVars == <<writer, reqs>>
mgrVars    == <<manager, managerMsg>>
pxyVars    == <<proxies, portsUsed, running, pxyManager>>
stopVars   == <<stoper, closing>>
vars == <<loginVars, stopping, done, open, readerVars, readCh, writerVars,
          sendCh, mgrVars, pxyVars, stopVars>>

-----------------------------------------------------------------------------
(* Derived state.                                                          *)

Started(c) == login[c] \in {"running", "gone"}

\* Channels are closed by the stoper and never reopened.
ReadChClosed(c) ==
  stoper[c] \in {"waitManager", "waitWriter", "closing", "released", "drainFailed"}
SendChClosed(c) ==
  stoper[c] \in {"waitWriter", "closing", "released", "drainFailed"}

UsedPortsNum(n) == IF n \in PortName THEN 1 ELSE 0

-----------------------------------------------------------------------------
Init ==
  /\ ctls = [r \in RunID |-> NoControl]
  /\ login = [c \in Control |-> "none"]
  /\ loginID = [c \in Control |-> NoRunID]
  /\ runID = [c \in Control |-> NoRunID]
  /\ oldCtl = [c \in Control |-> NoControl]
  /\ stopping = {} /\ done = {} /\ open = Control
  /\ reader = [c \in Control |-> "off"]
  /\ readerMsg = [c \in Control |-> <<>>]
  /\ readCh = [c \in Control |-> <<>>]
  /\ reads = 0
  /\ writer = [c \in Control |-> "off"]
  /\ sendCh = [c \in Control |-> 0]
  /\ reqs = 0
  /\ manager = [c \in Control |-> "off"]
  /\ managerMsg = [c \in Control |-> <<>>]
  /\ proxies = [c \in Control |-> {}]
  /\ portsUsed = [c \in Control |-> 0]
  /\ running = [c \in Control |-> {}]
  /\ pxyManager = [n \in Name |-> NoControl]
  /\ stoper = [c \in Control |-> "off"]
  /\ closing = [c \in Control |-> {}]

-----------------------------------------------------------------------------
(* RegisterControl: the login goroutine and, after it, the watcher.        *)

\* The version, the authentication, the user name or the API refuses.
RefuseLogin(c) ==
  /\ login[c] = "none"
  /\ login' = [login EXCEPT ![c] = "refused"]
  /\ open' = open \ {c}
  /\ UNCHANGED <<ctls, loginID, runID, oldCtl, stopping, done, readerVars,
                 readCh, writerVars, sendCh, mgrVars, pxyVars, stopVars>>

\* NewControl, then ControlManager.Add, which calls Replaced on the control
\* it finds under the same run id.
Login(c, r) ==
  /\ login[c] = "none"
  /\ LET old == ctls[r] IN
       /\ oldCtl' = [oldCtl EXCEPT ![c] = old]
       /\ login' = [login EXCEPT ![c] = IF old = NoControl THEN "start" ELSE "waitOld"]
       /\ runID' = [d \in Control |->
                      IF d = c THEN r ELSE IF d = old THEN NoRunID ELSE runID[d]]
       /\ stopping' = stopping \cup ({old} \ {NoControl})
  /\ loginID' = [loginID EXCEPT ![c] = r]
  /\ ctls' = [ctls EXCEPT ![r] = c]
  /\ UNCHANGED <<done, open, readerVars, readCh, writerVars, sendCh, mgrVars,
                 pxyVars, stopVars>>

\* oldCtl.WaitClosed(): a control that is not started is marked done at once.
WaitOld(c) ==
  /\ login[c] = "waitOld"
  /\ \/ ~Started(oldCtl[c]) /\ done' = done \cup {oldCtl[c]}
     \/ Started(oldCtl[c]) /\ oldCtl[c] \in done /\ UNCHANGED done
  /\ login' = [login EXCEPT ![c] = "start"]
  /\ UNCHANGED <<ctls, loginID, runID, oldCtl, stopping, open, readerVars,
                 readCh, writerVars, sendCh, mgrVars, pxyVars, stopVars>>

\* Control.Start: the login response, then the four goroutines.
Start(c) ==
  /\ login[c] = "start"
  /\ login' = [login EXCEPT ![c] = "running"]
  /\ reader' = [reader EXCEPT ![c] = "read"]
  /\ writer' = [writer EXCEPT ![c] = "recv"]
  /\ manager' = [manager EXCEPT ![c] = "select"]
  /\ stoper' = [stoper EXCEPT ![c] = "wait"]
  /\ UNCHANGED <<ctls, loginID, runID, oldCtl, stopping, done, open, readerMsg,
                 reads, readCh, reqs, sendCh, managerMsg, pxyVars, closing>>

\* Mutant: the entry is removed whoever holds it now.
DelAny(r, c) == ctls' = [ctls EXCEPT ![r] = NoControl]

\* The entry of a run id is removed only if it is still this control's.
Del(r, c) ==
  ctls' = [ctls EXCEPT ![r] = IF ctls[r] = c THEN NoControl ELSE ctls[r]]

\* The watcher: WaitClosed, then ControlManager.Del.
Watch(c) ==
  /\ login[c] = "running" /\ c \in done
  /\ login' = [login EXCEPT ![c] = "gone"]
  /\ Del(loginID[c], c)
  /\ UNCHANGED <<loginID, runID, oldCtl, stopping, done, open, readerVars,
                 readCh, writerVars, sendCh, mgrVars, pxyVars, stopVars>>

\* Service.CloseUser: allShutdown.Start of the control of a run id.
CloseUser(r) ==
  /\ ctls[r] # NoControl
  /\ stopping' = stopping \cup {ctls[r]}
  /\ UNCHANGED <<loginVars, done, open, readerVars, readCh, writerVars, sendCh,
                 mgrVars, pxyVars, stopVars>>

\* ControlManager.Close: every control is closed and forgotten.
CloseAll ==
  /\ \E r \in RunID : ctls[r] # NoControl
  /\ stopping' = stopping \cup {c \in Control : \E r \in RunID : ctls[r] = c}
  /\ ctls' = [r \in RunID |-> NoControl]
  /\ UNCHANGED <<login, loginID, runID, oldCtl, done, open, readerVars, readCh,
                 writerVars, sendCh, mgrVars, pxyVars, stopVars>>

-----------------------------------------------------------------------------
(* reader                                                                  *)

\* A multiplexed stream still delivers what it has buffered after it was
\* closed on this side; a TCP connection does not.
ReadMsg(c) ==
  /\ reader[c] = "read" /\ reads < MaxReads
  /\ c \in open \/ Transport = "mux"
  /\ \E m \in Inbound : readerMsg' = [readerMsg EXCEPT ![c] = m]
  /\ reader' = [reader EXCEPT ![c] = "put"]
  /\ reads' = reads + 1
  /\ UNCHANGED <<loginVars, stopping, done, open, readCh, writerVars, sendCh,
                 mgrVars, pxyVars, stopVars>>

\* readCh <- m: blocks while the channel is full.
PutMsg(c) ==
  /\ reader[c] = "put" /\ Len(readCh[c]) < ChanCap
  /\ readCh' = [readCh EXCEPT ![c] = Append(@, readerMsg[c])]
  /\ reader' = [reader EXCEPT ![c] = "read"]
  /\ readerMsg' = [readerMsg EXCEPT ![c] = <<>>]
  /\ UNCHANGED <<loginVars, stopping, done, open, reads, writerVars, sendCh,
                 mgrVars, pxyVars, stopVars>>

\* The deferred calls: readerShutdown.Done, allShutdown.Start.
ReaderExit(c) ==
  /\ reader[c] = "read"
  /\ reader' = [reader EXCEPT ![c] = "done"]
  /\ stopping' = stopping \cup {c}
  /\ UNCHANGED <<loginVars, done, readerMsg, reads, readCh, writerVars, sendCh,
                 mgrVars, pxyVars, stopVars>>

\* The client closed the connection: io.EOF, the reader returns.
ReadEOF(c) == c \in open /\ ReaderExit(c) /\ UNCHANGED open

\* Any other error: the reader closes the connection itself.
ReadError(c) == c \in open /\ ReaderExit(c) /\ open' = open \ {c}

\* The connection was closed on this side.
ReadClosed(c) == c \notin open /\ ReaderExit(c) /\ UNCHANGED open

-----------------------------------------------------------------------------
(* writer                                                                  *)

\* Start's pool goroutine and GetWorkConn put ReqWorkConn on sendCh.
SendReqWorkConn(c) ==
  /\ Started(c) /\ ~SendChClosed(c)
  /\ sendCh[c] < ChanCap /\ reqs < MaxReqs
  /\ sendCh' = [sendCh EXCEPT ![c] = @ + 1]
  /\ reqs' = reqs + 1
  /\ UNCHANGED <<loginVars, stopping, done, open, readerVars, readCh, writer,
                 mgrVars, pxyVars, stopVars>>

WriteMsg(c) ==
  /\ writer[c] = "recv" /\ sendCh[c] > 0 /\ c \in open
  /\ sendCh' = [sendCh EXCEPT ![c] = @ - 1]
  /\ UNCHANGED <<loginVars, stopping, done, open, readerVars, readCh,
                 writerVars, mgrVars, pxyVars, stopVars>>

\* A failed write ends the writer; the message is lost.
WriteError(c) ==
  /\ writer[c] = "recv" /\ sendCh[c] > 0
  /\ sendCh' = [sendCh EXCEPT ![c] = @ - 1]
  /\ writer' = [writer EXCEPT ![c] = "done"]
  /\ stopping' = stopping \cup {c}
  /\ UNCHANGED <<loginVars, done, open, readerVars, readCh, reqs, mgrVars,
                 pxyVars, stopVars>>

WriterClosed(c) ==
  /\ writer[c] = "recv" /\ sendCh[c] = 0 /\ SendChClosed(c)
  /\ writer' = [writer EXCEPT ![c] = "done"]
  /\ stopping' = stopping \cup {c}
  /\ UNCHANGED <<loginVars, done, open, readerVars, readCh, reqs, sendCh,
                 mgrVars, pxyVars, stopVars>>

-----------------------------------------------------------------------------
(* manager                                                                 *)

\* Where the manager goes with a message of each type.  NatHole messages are
\* handed to goroutines of their own.
Dispatch(m) ==
  CASE m.type = "NewProxy"   -> "register"
    [] m.type = "CloseProxy" -> "close"
    [] m.type = "Ping"       -> "respond"
    [] m.type = "BadPing"    -> "reject"
    [] OTHER                 -> "select"

Receive(c) ==
  /\ manager[c] = "select" /\ readCh[c] # <<>>
  /\ managerMsg' = [managerMsg EXCEPT ![c] = Head(readCh[c])]
  /\ readCh' = [readCh EXCEPT ![c] = Tail(@)]
  /\ manager' = [manager EXCEPT ![c] = Dispatch(Head(readCh[c]))]
  /\ UNCHANGED <<loginVars, stopping, done, open, readerVars, writerVars,
                 sendCh, pxyVars, stopVars>>

\* The deferred calls: managerShutdown.Done, allShutdown.Start.
ManagerExit(c) ==
  /\ manager' = [manager EXCEPT ![c] = "done"]
  /\ stopping' = stopping \cup {c}
  /\ UNCHANGED <<loginVars, done, open, readerVars, readCh, writerVars,
                 managerMsg, pxyVars, stopVars>>

HeartbeatTimeout(c) ==
  /\ manager[c] = "select" /\ Heartbeat /\ Transport # "mux"
  /\ ManagerExit(c) /\ UNCHANGED sendCh

ManagerClosed(c) ==
  /\ manager[c] = "select" /\ readCh[c] = <<>> /\ ReadChClosed(c)
  /\ ManagerExit(c) /\ UNCHANGED sendCh

\* An invalid ping is answered, then the manager returns.
RejectPing(c) ==
  /\ manager[c] = "reject" /\ sendCh[c] < ChanCap
  /\ sendCh' = [sendCh EXCEPT ![c] = @ + 1]
  /\ ManagerExit(c)

\* sendCh <- resp: blocks while the channel is full.
Respond(c) ==
  /\ manager[c] = "respond" /\ sendCh[c] < ChanCap
  /\ sendCh' = [sendCh EXCEPT ![c] = @ + 1]
  /\ manager' = [manager EXCEPT ![c] = "select"]
  /\ UNCHANGED <<loginVars, stopping, done, open, readerVars, readCh,
                 writerVars, managerMsg, pxyVars, stopVars>>

\* What every step of RegisterProxy leaves alone.
RegisterFrame ==
  UNCHANGED <<loginVars, stopping, done, open, readerVars, readCh, writerVars,
              sendCh, managerMsg, stopVars>>

\* Mutant: a failed registration keeps its reservation.
RollbackMissing(c) == portsUsed' = portsUsed

\* The deferred function that gives the reserved ports back.
Rollback(c) ==
  portsUsed' = IF MaxPortsPerClient > 0
               THEN [portsUsed EXCEPT ![c] = @ - UsedPortsNum(managerMsg[c].name)]
               ELSE portsUsed

\* The plugin, the API check, the configuration or NewProxy refuses.
RefuseProxy(c) ==
  /\ manager[c] = "register"
  /\ manager' = [manager EXCEPT ![c] = "respond"]
  /\ UNCHANGED pxyVars
  /\ RegisterFrame

ExceedsPorts(c) ==
  /\ MaxPortsPerClient > 0
  /\ portsUsed[c] + UsedPortsNum(managerMsg[c].name) > MaxPortsPerClient

\* The check of max_ports_per_client, which reserves the ports.
ReservePorts(c) ==
  /\ manager[c] = "register"
  /\ IF ExceedsPorts(c)
     THEN /\ manager' = [manager EXCEPT ![c] = "respond"]
          /\ UNCHANGED portsUsed
     ELSE /\ manager' = [manager EXCEPT ![c] = "exist"]
          /\ portsUsed' = IF MaxPortsPerClient > 0
                          THEN [portsUsed EXCEPT ![c] = @ + UsedPortsNum(managerMsg[c].name)]
                          ELSE portsUsed
  /\ UNCHANGED <<proxies, running, pxyManager>>
  /\ RegisterFrame

\* pxyManager.Exist
CheckExist(c) ==
  /\ manager[c] = "exist"
  /\ IF pxyManager[managerMsg[c].name] # NoControl
     THEN manager' = [manager EXCEPT ![c] = "respond"] /\ Rollback(c)
     ELSE manager' = [manager EXCEPT ![c] = "run"] /\ UNCHANGED portsUsed
  /\ UNCHANGED <<proxies, running, pxyManager>>
  /\ RegisterFrame

\* pxy.Run: the proxy takes its port, route or listener, or fails to.
RunProxy(c) ==
  /\ manager[c] = "run"
  /\ \/ /\ manager' = [manager EXCEPT ![c] = "add"]
        /\ running' = [running EXCEPT ![c] = @ \cup {managerMsg[c].name}]
        /\ UNCHANGED portsUsed
     \/ /\ manager' = [manager EXCEPT ![c] = "respond"]
        /\ Rollback(c)
        /\ UNCHANGED running
  /\ UNCHANGED <<proxies, pxyManager>>
  /\ RegisterFrame

\* Mutant: Add does not look for an entry of that name.
AddProxyOverwrites(c) ==
  /\ manager[c] = "add"
  /\ manager' = [manager EXCEPT ![c] = "record"]
  /\ pxyManager' = [pxyManager EXCEPT ![managerMsg[c].name] = c]
  /\ UNCHANGED <<running, portsUsed, proxies>>
  /\ RegisterFrame

\* Mutant: the proxy that lost the race is left running.
AddProxyLeaksLoser(c) ==
  /\ manager[c] = "add"
  /\ LET n == managerMsg[c].name IN
       IF pxyManager[n] # NoControl
       THEN /\ manager' = [manager EXCEPT ![c] = "respond"]
            /\ Rollback(c)
            /\ UNCHANGED pxyManager
       ELSE /\ manager' = [manager EXCEPT ![c] = "record"]
            /\ pxyManager' = [pxyManager EXCEPT ![n] = c]
            /\ UNCHANGED portsUsed
  /\ UNCHANGED <<running, proxies>>
  /\ RegisterFrame

\* pxyManager.Add; if the name was taken meanwhile the proxy is closed again.
AddProxy(c) ==
  /\ manager[c] = "add"
  /\ LET n == managerMsg[c].name IN
       IF pxyManager[n] # NoControl
       THEN /\ manager' = [manager EXCEPT ![c] = "respond"]
            /\ running' = [running EXCEPT ![c] = @ \ {n}]
            /\ Rollback(c)
            /\ UNCHANGED pxyManager
       ELSE /\ manager' = [manager EXCEPT ![c] = "record"]
            /\ pxyManager' = [pxyManager EXCEPT ![n] = c]
            /\ UNCHANGED <<running, portsUsed>>
  /\ UNCHANGED proxies
  /\ RegisterFrame

\* ctl.proxies[name] = pxy
RecordProxy(c) ==
  /\ manager[c] = "record"
  /\ proxies' = [proxies EXCEPT ![c] = @ \cup {managerMsg[c].name}]
  /\ manager' = [manager EXCEPT ![c] = "respond"]
  /\ UNCHANGED <<portsUsed, running, pxyManager>>
  /\ RegisterFrame

\* CloseProxy, under ctl.mu.  proxy.Manager.Del deletes by name.
CloseProxy(c) ==
  /\ manager[c] = "close"
  /\ manager' = [manager EXCEPT ![c] = "select"]
  /\ LET n == managerMsg[c].name IN
       \/ n \notin proxies[c] /\ UNCHANGED pxyVars
       \/ /\ n \in proxies[c]
          /\ Rollback(c)
          /\ running' = [running EXCEPT ![c] = @ \ {n}]
          /\ pxyManager' = [pxyManager EXCEPT ![n] = NoControl]
          /\ proxies' = [proxies EXCEPT ![c] = @ \ {n}]
  /\ RegisterFrame

-----------------------------------------------------------------------------
(* stoper                                                                  *)

StoperFrame ==
  UNCHANGED <<loginVars, stopping, readerVars, readCh, writerVars, sendCh,
              mgrVars, proxies, portsUsed>>

\* Mutant: the stoper waits for the reader without closing the connection.
StopConnKeepsOpen(c) ==
  /\ stoper[c] = "wait" /\ c \in stopping
  /\ stoper' = [stoper EXCEPT ![c] = "waitReader"]
  /\ UNCHANGED <<done, open, running, pxyManager, closing>>
  /\ StoperFrame

\* conn.Close: the stoper returns if it reports an error.  A stream of a
\* multiplexed session never does; closing a TCP connection twice does; a TLS
\* connection reports that its closing alert could not be sent.
StopConn(c) ==
  /\ stoper[c] = "wait" /\ c \in stopping
  /\ \/ /\ Transport = "mux" \/ c \in open
        /\ stoper' = [stoper EXCEPT ![c] = "waitReader"]
     \/ /\ \/ Transport = "tls"
           \/ Transport = "tcp" /\ c \notin open
        /\ stoper' = [stoper EXCEPT ![c] = "closeFailed"]
  /\ open' = open \ {c}
  /\ UNCHANGED <<done, running, pxyManager, closing>>
  /\ StoperFrame

\* readerShutdown.WaitDone, close(readCh)
StopReader(c) ==
  /\ stoper[c] = "waitReader" /\ reader[c] = "done"
  /\ stoper' = [stoper EXCEPT ![c] = "waitManager"]
  /\ UNCHANGED <<done, open, running, pxyManager, closing>>
  /\ StoperFrame

\* Mutant: sendCh is closed without waiting for the manager.
StopManagerEarly(c) ==
  /\ stoper[c] = "waitManager"
  /\ stoper' = [stoper EXCEPT ![c] = "waitWriter"]
  /\ UNCHANGED <<done, open, running, pxyManager, closing>>
  /\ StoperFrame

\* managerShutdown.WaitDone, close(sendCh)
StopManager(c) ==
  /\ stoper[c] = "waitManager" /\ manager[c] = "done"
  /\ stoper' = [stoper EXCEPT ![c] = "waitWriter"]
  /\ UNCHANGED <<done, open, running, pxyManager, closing>>
  /\ StoperFrame

\* writerShutdown.WaitDone, close(workConnCh) and the pooled connections: the
\* stoper returns if closing one of them reports an error.
StopWriter(c) ==
  /\ stoper[c] = "waitWriter" /\ writer[c] = "done"
  /\ \/ /\ stoper' = [stoper EXCEPT ![c] = "closing"]
        /\ closing' = [closing EXCEPT ![c] = proxies[c]]
     \/ /\ Transport = "tls"
        /\ stoper' = [stoper EXCEPT ![c] = "drainFailed"]
        /\ UNCHANGED closing
  /\ UNCHANGED <<done, open, running, pxyManager>>
  /\ StoperFrame

\* Mutant: the name is deleted and the proxy not closed.
StopProxyKeepsRunning(c) ==
  /\ stoper[c] = "closing"
  /\ \E n \in closing[c] :
       /\ closing' = [closing EXCEPT ![c] = @ \ {n}]
       /\ pxyManager' = [pxyManager EXCEPT ![n] = NoControl]
  /\ UNCHANGED <<done, open, running, stoper>>
  /\ StoperFrame

\* One round of the loop over ctl.proxies.
StopProxy(c) ==
  /\ stoper[c] = "closing"
  /\ \E n \in closing[c] :
       /\ closing' = [closing EXCEPT ![c] = @ \ {n}]
       /\ running' = [running EXCEPT ![c] = @ \ {n}]
       /\ pxyManager' = [pxyManager EXCEPT ![n] = NoControl]
  /\ UNCHANGED <<done, open, stoper>>
  /\ StoperFrame

\* allShutdown.Done
StopDone(c) ==
  /\ stoper[c] = "closing" /\ closing[c] = {}
  /\ stoper' = [stoper EXCEPT ![c] = "released"]
  /\ done' = done \cup {c}
  /\ UNCHANGED <<open, running, pxyManager, closing>>
  /\ StoperFrame

-----------------------------------------------------------------------------
LoginStep(c) == WaitOld(c) \/ Start(c) \/ Watch(c)
\* What the client, the network or the clock decides.
Environment(c) ==
  \/ RefuseLogin(c) \/ \E r \in RunID : Login(c, r)
  \/ ReadMsg(c) \/ ReadEOF(c) \/ ReadError(c)
  \/ SendReqWorkConn(c) \/ WriteMsg(c) \/ HeartbeatTimeout(c)
ReaderStep(c)  == PutMsg(c) \/ ReadClosed(c)
WriterStep(c)  == WriteError(c) \/ WriterClosed(c)
RegisterStep(c) ==
  \/ RefuseProxy(c) \/ ReservePorts(c) \/ CheckExist(c) \/ RunProxy(c)
  \/ AddProxy(c) \/ RecordProxy(c)
ManagerStep(c) ==
  \/ Receive(c) \/ ManagerClosed(c) \/ RejectPing(c) \/ Respond(c)
  \/ RegisterStep(c) \/ CloseProxy(c)
StoperStep(c) ==
  \/ StopConn(c) \/ StopReader(c) \/ StopManager(c) \/ StopWriter(c)
  \/ StopProxy(c) \/ StopDone(c)

Next ==
  \/ \E c \in Control :
       \/ LoginStep(c) \/ Environment(c) \/ ReaderStep(c) \/ WriterStep(c)
       \/ ManagerStep(c) \/ StoperStep(c)
  \/ \E r \in RunID : CloseUser(r)
  \/ CloseAll

Spec == Init /\ [][Next]_vars

\* Every goroutine that can run is scheduled.  Nothing is assumed of what the
\* client sends, of the heartbeat, nor of a write while the connection is
\* open: a client that does not read blocks the writer for as long as it likes.
Fairness ==
  \A c \in Control :
    /\ WF_vars(LoginStep(c))
    /\ WF_vars(ReaderStep(c))
    /\ WF_vars(c \notin open /\ WriterStep(c))
    /\ WF_vars(ManagerStep(c))
    /\ WF_vars(StoperStep(c))

FairSpec == Spec /\ Fairness

-----------------------------------------------------------------------------
(* Properties.                                                             *)

ManagerState == {"off", "select", "register", "exist", "run", "add", "record",
                 "close", "respond", "reject", "done"}
StoperState == {"off", "wait", "waitReader", "waitManager", "waitWriter", "closing",
                "released", "closeFailed", "drainFailed"}

\* Every variable keeps its type; in particular a client never has a negative
\* number of ports in use, which would lift its limit.
TypeOK ==
  /\ ctls \in [RunID -> Control \cup {NoControl}]
  /\ login \in [Control -> {"none", "refused", "waitOld", "start", "running", "gone"}]
  /\ loginID \in [Control -> RunID \cup {NoRunID}]
  /\ runID \in [Control -> RunID \cup {NoRunID}]
  /\ oldCtl \in [Control -> Control \cup {NoControl}]
  /\ stopping \subseteq Control /\ done \subseteq Control /\ open \subseteq Control
  /\ reader \in [Control -> {"off", "read", "put", "done"}]
  /\ readerMsg \in [Control -> Message \cup {<<>>}]
  /\ readCh \in [Control -> Seq(Message)]
  /\ reads \in Nat
  /\ writer \in [Control -> {"off", "recv", "done"}]
  /\ sendCh \in [Control -> 0..ChanCap]
  /\ reqs \in Nat
  /\ manager \in [Control -> ManagerState]
  /\ managerMsg \in [Control -> Message \cup {<<>>}]
  /\ proxies \in [Control -> SUBSET Name]
  /\ portsUsed \in [Control -> Nat]
  /\ running \in [Control -> SUBSET Name]
  /\ pxyManager \in [Name -> Control \cup {NoControl}]
  /\ stoper \in [Control -> StoperState]
  /\ closing \in [Control -> SUBSET Name]

\* Control c answers for name n: it recorded the proxy, is about to record it,
\* or its stoper still has to close it.
Holds(c, n) ==
  \/ n \in proxies[c] /\ stoper[c] \notin {"closing", "released"}
  \/ n \in closing[c]
  \/ manager[c] = "record" /\ managerMsg[c].name = n

\* The name table gives a name to exactly the control that answers for it:
\* CloseProxy and the stoper delete by name, and never another control's entry,
\* although Exist, Run and Add of two controls interleave.
NameOwnership ==
  \A c \in Control, n \in Name : pxyManager[n] = c <=> Holds(c, n)

\* Every proxy that runs is in the name table or about to be added to it, and
\* every entry of the table runs: the loser of a race for a name is closed.
NoOrphanProxy ==
  \A c \in Control, n \in Name :
    n \in running[c] <=>
      pxyManager[n] = c \/ (manager[c] = "add" /\ managerMsg[c].name = n)

\* The reader and the manager never send on a channel the stoper has closed,
\* which would panic and lose the message.
NoSendOnClosedChannel ==
  \A c \in Control :
    /\ reader[c] = "put" => ~ReadChClosed(c)
    /\ manager[c] \in {"respond", "reject"} => ~SendChClosed(c)

\* A control that reports itself closed has given up every name and every
\* resource, and no goroutine of it is left to take one again.
ReleasedHoldsNothing ==
  \A c \in Control : stoper[c] = "released" =>
    /\ \A n \in Name : pxyManager[n] # c /\ n \notin running[c]
    /\ reader[c] = "done" /\ writer[c] = "done" /\ manager[c] = "done"

\* The ports a control is charged for are those of its proxies and of the one
\* being registered, on every path through RegisterProxy, within the limit.
PortAccounting ==
  MaxPortsPerClient > 0 =>
    \A c \in Control :
      LET reserved == IF manager[c] \in {"exist", "run", "add", "record"}
                      THEN UsedPortsNum(managerMsg[c].name) ELSE 0
      IN  /\ portsUsed[c] = Cardinality(proxies[c] \cap PortName) + reserved
          /\ portsUsed[c] <= MaxPortsPerClient

\* A control that is not being shut down is the one its run id leads to, so
\* work connections reach it: neither Add nor the Del of an older login of the
\* same client can hide it.
LiveControlFindable ==
  \A c \in Control :
    login[c] \in {"waitOld", "start", "running", "gone"} /\ c \notin stopping
      => ctls[loginID[c]] = c

Registry ==
  INSTANCE NameRegistry
    WITH Session <- Control, NoSession <- NoControl, owner <- pxyManager,
         closed <- {c \in Control : stoper[c] = "released"}

\* The sessions implement the name registry: whatever the goroutines of two
\* clients do, a name changes hands only by being given up first, and never
\* goes to a session that has reported itself closed.
ImplementsRegistry == Registry!Spec

\* No channel of a control is at its capacity, and no Close made its stoper
\* return early.
Smooth ==
  \A c \in Control :
    /\ sendCh[c] < ChanCap /\ Len(readCh[c]) < ChanCap
    /\ stoper[c] \notin {"closeFailed", "drainFailed"}

\* As long as no channel fills up and no Close fails, a control whose shutdown
\* is started and whose goroutines run is released: its stoper outwaits the
\* other three, whatever they were doing.
ReleaseCompletes ==
  []Smooth =>
    \A c \in Control : (Started(c) /\ c \in stopping) ~> stoper[c] = "released"

\* "we release previous controller and start new one": a login that found an
\* older control under its run id gets to start.
LoginCompletes ==
  \A c \in Control : login[c] = "waitOld" ~> Started(c)

\* "we release previous controller and start new one": once a control serves
\* its run id, no control that was replaced under that run id holds a name.
ReplacedReleasedFirst ==
  \A c, d \in Control :
    /\ Started(c) /\ c \notin stopping
    /\ loginID[d] = loginID[c] /\ runID[d] = NoRunID
    => \A n \in Name : pxyManager[n] # d
=============================================================================
