--------------------------- MODULE ClientSession ---------------------------
(***************************************************************************)
(* The sessions of frpc: client/service.go, which logs in, watches the     *)
(* session and logs in again, and client/control.go, which runs one        *)
(* session.  A Control is one login.  Its goroutines are reader, writer,   *)
(* msgHandler and worker; the keeper is Service.Run and, after the first   *)
(* login, keepControllerWorking.  The proxies of a session appear here     *)
(* only as running or not and as senders on sendCh: ProxyWrapper models    *)
(* one of them.                                                            *)
(***************************************************************************)
EXTENDS Naturals, FiniteSets

CONSTANTS
  Control,        \* the *Control objects, one per successful login
  NoControl,      \* the nil *Control
  ChanCap,        \* capacity of sendCh and readCh (100)
  LoginFailExit,  \* login_fail_exit: the first login is not retried
  TCPMux          \* tcp_mux: connections are streams of a session of cm

ASSUME ControlAssumption == NoControl \notin Control
ASSUME CapAssumption == ChanCap \in Nat \ {0}
ASSUME FlagAssumption == LoginFailExit \in BOOLEAN /\ TCPMux \in BOOLEAN

VARIABLES
  keeper,    \* where Run or keepControllerWorking is
  cur,       \* svr.ctl
  new,       \* the control that is started and not yet in svr.ctl
  conn,      \* the controls whose connection is open at this end
  cut,       \* the controls whose connection the other end or the network ended
  reader, readCh, handler, writer, sendCh, worker,
  proxies    \* the wrappers of the control: "none", "running" or "stopped"

keeperVars == <<keeper, cur, new>>
chanVars   == <<readCh, sendCh>>
goVars     == <<reader, handler, writer, worker>>
vars == <<keeperVars, conn, cut, chanVars, goVars, proxies>>

SendChClosed(c) == worker[c] \in {"waitWriter", "closing", "done"}
ReadChClosed(c) == worker[c] \in {"waitHandler", "waitWriter", "closing", "done"}

Init ==
  /\ keeper = "login" /\ cur = NoControl /\ new = NoControl
  /\ conn = {} /\ cut = {}
  /\ reader = [c \in Control |-> "off"]
  /\ handler = [c \in Control |-> "off"]
  /\ writer = [c \in Control |-> "off"]
  /\ worker = [c \in Control |-> "off"]
  /\ readCh = [c \in Control |-> 0]
  /\ sendCh = [c \in Control |-> 0]
  /\ proxies = [c \in Control |-> "none"]

-----------------------------------------------------------------------------
(* The keeper.                                                             *)

\* OpenConnection or Connect fails; login closes what it opened.
ConnectFails ==
  /\ keeper = "login"
  /\ keeper' = IF cur = NoControl /\ LoginFailExit THEN "exit" ELSE "sleep"
  /\ UNCHANGED <<cur, new, conn, cut, chanVars, goVars, proxies>>

\* The transport is up: a mux session with a stream, a quic stream or a dialled
\* connection.
Connect ==
  /\ keeper = "login"
  /\ keeper' = "exchange"
  /\ UNCHANGED <<cur, new, conn, cut, chanVars, goVars, proxies>>

\* Login is not sent, not answered in ten seconds, or answered by an error.
\* cm.Close closes the session of tcp_mux or QUIC; without either the dialled
\* connection stays open until frps drops it, with no goroutine of the client on it.
LoginFails ==
  /\ keeper = "exchange"
  /\ keeper' = IF cur = NoControl /\ LoginFailExit THEN "exit" ELSE "sleep"
  /\ UNCHANGED <<cur, new, conn, cut, chanVars, goVars, proxies>>

\* The login succeeds: NewControl, and Control.Run starts the worker, which
\* starts the other three, before it starts the proxies.
LoginSucceeds(c) ==
  /\ keeper = "exchange" /\ worker[c] = "off"
  /\ keeper' = "run" /\ new' = c
  /\ conn' = conn \cup {c}
  /\ reader' = [reader EXCEPT ![c] = "read"]
  /\ handler' = [handler EXCEPT ![c] = "select"]
  /\ writer' = [writer EXCEPT ![c] = "recv"]
  /\ worker' = [worker EXCEPT ![c] = "wait"]
  /\ UNCHANGED <<cur, cut, chanVars, proxies>>

\* The sleep before the next attempt.
Retry ==
  /\ keeper = "sleep" /\ keeper' = "login"
  /\ UNCHANGED <<cur, new, conn, cut, chanVars, goVars, proxies>>

\* pm.Reload: the proxies are started whether or not the worker still runs.
StartProxies ==
  /\ keeper = "run" /\ keeper' = "store"
  /\ proxies' = [proxies EXCEPT ![new] = "running"]
  /\ UNCHANGED <<cur, new, conn, cut, chanVars, goVars>>

\* Mutant: the control that is replaced is not closed.
StoreKeepsOld ==
  /\ keeper = "store" /\ keeper' = "watch"
  /\ cur' = new /\ new' = NoControl
  /\ UNCHANGED <<conn, cut, chanVars, goVars, proxies>>

\* The control is stored in svr.ctl.  keepControllerWorking first closes the
\* one it finds there, a second time for most of what the worker closed.
Store ==
  /\ keeper = "store" /\ keeper' = "watch"
  /\ cur' = new /\ new' = NoControl
  /\ conn' = conn \ {cur}
  /\ proxies' = [c \in Control |->
                   IF c = cur /\ proxies[c] = "running" THEN "stopped" ELSE proxies[c]]
  /\ UNCHANGED <<cut, chanVars, goVars>>

\* <-svr.ctl.ClosedDoneCh(), then the delay before the reconnect.
SeeClosed ==
  /\ keeper = "watch" /\ worker[cur] = "done"
  /\ keeper' = "sleep"
  /\ UNCHANGED <<cur, new, conn, cut, chanVars, goVars, proxies>>

-----------------------------------------------------------------------------
(* reader.                                                                 *)

\* The server or the network ends the connection.
Cut(c) ==
  /\ c \in conn \ cut
  /\ cut' = cut \cup {c}
  /\ UNCHANGED <<keeperVars, conn, chanVars, goVars, proxies>>

ReadMsg(c) ==
  /\ reader[c] = "read" /\ c \in conn \ cut
  /\ reader' = [reader EXCEPT ![c] = "put"]
  /\ UNCHANGED <<keeperVars, conn, cut, chanVars, handler, writer, worker, proxies>>

PutMsg(c) ==
  /\ reader[c] = "put" /\ readCh[c] < ChanCap
  /\ reader' = [reader EXCEPT ![c] = "read"]
  /\ readCh' = [readCh EXCEPT ![c] = @ + 1]
  /\ UNCHANGED <<keeperVars, conn, cut, sendCh, handler, writer, worker, proxies>>

\* Mutant: a read error is retried.
ReadIgnoresError(c) ==
  /\ reader[c] = "read" /\ c \notin conn
  /\ reader' = [reader EXCEPT ![c] = "done"]
  /\ UNCHANGED <<keeperVars, conn, cut, chanVars, handler, writer, worker, proxies>>

\* A read error closes the connection, EOF does not; then closedCh is closed.
ReadEnds(c) ==
  /\ reader[c] = "read" /\ (c \in cut \/ c \notin conn)
  /\ reader' = [reader EXCEPT ![c] = "done"]
  /\ conn' \in {conn, conn \ {c}}
  /\ UNCHANGED <<keeperVars, cut, chanVars, handler, writer, worker, proxies>>

ReaderStep(c) == ReadMsg(c) \/ PutMsg(c) \/ ReadEnds(c)

-----------------------------------------------------------------------------
(* msgHandler and writer.                                                  *)

HandlerFrame == UNCHANGED <<keeperVars, cut, reader, writer, worker, proxies>>

\* The heartbeat ticker; without a ping the handler returns, and nobody closes
\* the connection.
Heartbeat(c) ==
  /\ handler[c] = "select"
  /\ handler' \in {[handler EXCEPT ![c] = h] : h \in {"send", "authFailed"}}
  /\ UNCHANGED <<conn, chanVars>>
  /\ HandlerFrame

SendPing(c) ==
  /\ handler[c] = "send" /\ sendCh[c] < ChanCap
  /\ handler' = [handler EXCEPT ![c] = "select"]
  /\ sendCh' = [sendCh EXCEPT ![c] = @ + 1]
  /\ UNCHANGED <<conn, readCh>>
  /\ HandlerFrame

\* The server is silent for too long, checked when tcp_mux is off: "let
\* reader() stop".
HeartbeatTimeout(c) ==
  /\ handler[c] = "select" /\ ~TCPMux
  /\ handler' = [handler EXCEPT ![c] = "done"]
  /\ conn' = conn \ {c}
  /\ UNCHANGED chanVars
  /\ HandlerFrame

\* A message: NewProxyResp, which needs the lock of a wrapper that may itself
\* be blocked on sendCh, or one of the others; a Pong with an error ends the
\* session.
HandleMsg(c) ==
  /\ handler[c] = "select" /\ readCh[c] > 0
  /\ readCh' = [readCh EXCEPT ![c] = @ - 1]
  /\ \/ handler' = [handler EXCEPT ![c] = "lock"] /\ UNCHANGED conn
     \/ UNCHANGED <<handler, conn>>
     \/ handler' = [handler EXCEPT ![c] = "done"] /\ conn' = conn \ {c}
  /\ UNCHANGED sendCh
  /\ HandlerFrame

\* HandleNewProxyResp gets through SetRunningStatus.
GotLock(c) ==
  /\ handler[c] = "lock" /\ (sendCh[c] < ChanCap \/ SendChClosed(c))
  /\ handler' = [handler EXCEPT ![c] = "select"]
  /\ UNCHANGED <<conn, chanVars>>
  /\ HandlerFrame

HandlerEnds(c) ==
  /\ handler[c] = "select" /\ ReadChClosed(c) /\ readCh[c] = 0
  /\ handler' = [handler EXCEPT ![c] = "done"]
  /\ UNCHANGED <<conn, chanVars>>
  /\ HandlerFrame

HandlerStep(c) ==
  Heartbeat(c) \/ SendPing(c) \/ HeartbeatTimeout(c) \/ HandleMsg(c) \/ GotLock(c)
  \/ HandlerEnds(c)

\* A wrapper sends NewProxy or CloseProxy; Send recovers from a closed channel.
WrapperSend(c) ==
  /\ proxies[c] = "running" /\ sendCh[c] < ChanCap /\ ~SendChClosed(c)
  /\ sendCh' = [sendCh EXCEPT ![c] = @ + 1]
  /\ UNCHANGED <<keeperVars, conn, cut, readCh, goVars, proxies>>

WriteMsg(c) ==
  /\ writer[c] = "recv" /\ sendCh[c] > 0 /\ c \in conn
  /\ sendCh' = [sendCh EXCEPT ![c] = @ - 1]
  /\ UNCHANGED <<keeperVars, conn, cut, readCh, goVars, proxies>>

\* A write fails, or sendCh is closed and empty.  The connection is left alone.
WriterEnds(c) ==
  /\ writer[c] = "recv"
  /\ \/ sendCh[c] > 0 /\ (c \in cut \/ c \notin conn)
     \/ sendCh[c] = 0 /\ SendChClosed(c)
  /\ writer' = [writer EXCEPT ![c] = "done"]
  /\ sendCh' = [sendCh EXCEPT ![c] = IF @ > 0 THEN @ - 1 ELSE 0]
  /\ UNCHANGED <<keeperVars, conn, cut, readCh, reader, handler, worker, proxies>>

-----------------------------------------------------------------------------
(* worker.                                                                 *)

WorkerFrame == UNCHANGED <<keeperVars, cut, chanVars, reader, handler, writer>>

\* <-ctl.closedCh: readCh is closed, readerShutdown is waited for.
CloseReadCh(c) ==
  /\ worker[c] = "wait" /\ reader[c] = "done"
  /\ worker' = [worker EXCEPT ![c] = "waitHandler"]
  /\ UNCHANGED <<conn, proxies>> /\ WorkerFrame

\* Mutant: the worker closes sendCh without waiting for msgHandler.
CloseSendChEarly(c) ==
  /\ worker[c] = "waitHandler"
  /\ worker' = [worker EXCEPT ![c] = "waitWriter"]
  /\ UNCHANGED <<conn, proxies>> /\ WorkerFrame

CloseSendCh(c) ==
  /\ worker[c] = "waitHandler" /\ handler[c] \in {"done", "authFailed"}
  /\ worker' = [worker EXCEPT ![c] = "waitWriter"]
  /\ UNCHANGED <<conn, proxies>> /\ WorkerFrame

\* pm.Close stops the wrappers that are there, vm.Close the visitors.
CloseProxies(c) ==
  /\ worker[c] = "waitWriter" /\ writer[c] = "done"
  /\ worker' = [worker EXCEPT ![c] = "closing"]
  /\ proxies' = [proxies EXCEPT ![c] = IF @ = "running" THEN "stopped" ELSE @]
  /\ UNCHANGED conn /\ WorkerFrame

\* closedDoneCh is closed, and cm.Close ends a mux session with its streams.
WorkerDone(c) ==
  /\ worker[c] = "closing"
  /\ worker' = [worker EXCEPT ![c] = "done"]
  /\ conn' = IF TCPMux THEN conn \ {c} ELSE conn
  /\ UNCHANGED proxies /\ WorkerFrame

WorkerStep(c) ==
  CloseReadCh(c) \/ CloseSendCh(c) \/ CloseProxies(c) \/ WorkerDone(c)

-----------------------------------------------------------------------------
KeeperStep ==
  \/ ConnectFails \/ Connect \/ LoginFails \/ Retry \/ StartProxies \/ Store \/ SeeClosed
  \/ \E c \in Control : LoginSucceeds(c)

Next ==
  \/ KeeperStep
  \/ \E c \in Control :
       \/ Cut(c) \/ ReaderStep(c) \/ HandlerStep(c) \/ WrapperSend(c)
       \/ WriteMsg(c) \/ WriterEnds(c) \/ WorkerStep(c)

Spec == Init /\ [][Next]_vars

\* Goroutines that can run do.  The select of msgHandler picks among the ready
\* cases at random, so the tickers do not keep it from readCh for ever.
Fairness ==
  /\ WF_vars(KeeperStep)
  /\ \A c \in Control :
       /\ WF_vars(ReaderStep(c)) /\ WF_vars(WorkerStep(c))
       /\ WF_vars(HandlerStep(c)) /\ SF_vars(HandleMsg(c) \/ HandlerEnds(c))
       /\ WF_vars(WriteMsg(c) \/ WriterEnds(c))

FairSpec == Spec /\ Fairness

-----------------------------------------------------------------------------
(* Properties.                                                             *)

TypeOK ==
  /\ keeper \in {"login", "exchange", "run", "store", "watch", "sleep", "exit"}
  /\ cur \in Control \cup {NoControl} /\ new \in Control \cup {NoControl}
  /\ conn \subseteq Control /\ cut \subseteq Control
  /\ reader \in [Control -> {"off", "read", "put", "done"}]
  /\ handler \in [Control -> {"off", "select", "send", "lock", "done", "authFailed"}]
  /\ writer \in [Control -> {"off", "recv", "done"}]
  /\ worker \in [Control -> {"off", "wait", "waitHandler", "waitWriter", "closing", "done"}]
  /\ readCh \in [Control -> 0..ChanCap] /\ sendCh \in [Control -> 0..ChanCap]
  /\ proxies \in [Control -> {"none", "running", "stopped"}]

\* The two sends of a session that nothing recovers from, the reader's on readCh
\* and the ping on sendCh, never meet a channel the worker has closed.
SessionSendsSafe ==
  \A c \in Control :
    /\ reader[c] = "put" => ~ReadChClosed(c)
    /\ handler[c] = "send" => ~SendChClosed(c)

\* Only the session in svr.ctl and the one about to replace it hold a connection
\* or run proxies: those that Run starts after the worker of a session that died
\* at once has already closed its proxies are stopped with the next login.
OldSessionHoldsNothing ==
  \A c \in Control :
    c \in conn \/ proxies[c] = "running" => c \in {cur, new}

\* No channel is full, and the handler does not return for want of credentials.
SmoothSession ==
  \A c \in Control : sendCh[c] < ChanCap /\ readCh[c] < ChanCap /\ handler[c] # "authFailed"

\* A session whose connection ends, or whose handler ends it, is wound up and
\* followed by another login attempt, as long as no channel fills up.
SessionIsReplaced ==
  []SmoothSession =>
    \A c \in Control :
      (cur = c /\ keeper = "watch" /\ (c \in cut \/ handler[c] = "done")) ~> keeper = "login"
=============================================================================
