----------------------------- MODULE WorkConns -----------------------------
(***************************************************************************)
(* The work connections of one client: how a user connection that reaches  *)
(* a proxy of frps gets a connection to the client.  The pool and          *)
(* GetWorkConn of server/control.go, GetWorkConnFromPool and the user      *)
(* handler of server/proxy/proxy.go, handleConnection of server/service.go *)
(* and, at the other end of the network, HandleReqWorkConn and             *)
(* HandleTCPWorkConnection of the client.                                  *)
(*                                                                         *)
(* The goroutines are one per user connection, one per connection accepted *)
(* from the client, one per request the client answers, and the writer and *)
(* stoper of the control.  The latter two are modelled in full by          *)
(* ServerControl; here `stage' says which channels the stoper has closed.  *)
(* The pool is a channel, kept as a set: which of its connections is       *)
(* received first is not relied upon.                                      *)
(***************************************************************************)
EXTENDS Naturals, FiniteSets

CONSTANTS
  WorkConn,      \* the connections the client opens in answer to ReqWorkConn
  NoConn,        \* the nil connection
  User,          \* the connections of users
  PoolCount,     \* ctl.poolCount: min(pool_count, max_pool_count)
  PoolCap,       \* capacity of workConnCh (poolCount + 10)
  ChanCap,       \* capacity of sendCh (10)
  CloseMayFail   \* a work connection is a bare tls connection

ASSUME ConnAssumption == NoConn \notin WorkConn
ASSUME CapAssumption ==
  /\ PoolCount \in Nat /\ PoolCap \in Nat \ {0} /\ ChanCap \in Nat \ {0}
  /\ CloseMayFail \in BOOLEAN

VARIABLES
  stage,      \* how far the stoper is, see Stage
  writer,     \* the writer of the control: "on" or "off"
  startReqs,  \* requests Control.Start still has to make
  sendCh,     \* ReqWorkConn messages in ctl.sendCh
  pool,       \* the connections in ctl.workConnCh
  srv,        \* a work connection as frps sees it
  cli,        \* a work connection as the client sees it
  started,    \* the work connections StartWorkConn was written to
  user,       \* where the goroutine of a user connection is
  held,       \* the work connection it holds
  tries,      \* the failed attempts of its GetWorkConnFromPool
  listening   \* the listener of the proxy is open

ctlVars  == <<stage, writer, startReqs, sendCh>>
connVars == <<pool, srv, cli, started>>
userVars == <<user, held, tries>>
vars == <<ctlVars, connVars, userVars, listening>>

Stage == {"run", "stop", "closeFailed", "wait", "sendClosed", "poolClosed", "drainFailed",
          "drained", "gone"}

SendClosed == stage \notin {"run", "stop", "closeFailed", "wait"}
PoolClosed == SendClosed /\ stage # "sendClosed"

Init ==
  /\ stage = "run" /\ writer = "on" /\ startReqs = PoolCount
  /\ sendCh = 0
  /\ pool = {} /\ started = {}
  /\ srv = [w \in WorkConn |-> "none"]
  /\ cli = [w \in WorkConn |-> "none"]
  /\ user = [u \in User |-> "none"]
  /\ held = [u \in User |-> NoConn]
  /\ tries = [u \in User |-> 0]
  /\ listening = TRUE

-----------------------------------------------------------------------------
(* The control: requests to the client, and the stoper.                    *)

\* ctl.sendCh <- &msg.ReqWorkConn{} inside PanicToError: it blocks while the
\* channel is full, and a closed channel is an error.
CanSend == SendClosed \/ sendCh < ChanCap
SendReq == sendCh' = IF SendClosed THEN sendCh ELSE sendCh + 1

\* The goroutine of Control.Start fills the pool and ignores the error.
FillPool ==
  /\ startReqs > 0 /\ CanSend
  /\ startReqs' = startReqs - 1
  /\ SendReq
  /\ UNCHANGED <<stage, writer, connVars, userVars, listening>>

\* A write fails, always so once the stoper has closed the connection, or
\* sendCh is closed and empty; the writer's end starts the shutdown.
WriterEnds ==
  /\ writer = "on"
  /\ sendCh > 0 \/ SendClosed
  /\ writer' = "off"
  /\ sendCh' = IF sendCh > 0 THEN sendCh - 1 ELSE 0
  /\ stage' = IF stage = "run" THEN "stop" ELSE stage
  /\ UNCHANGED <<startReqs, connVars, userVars, listening>>

\* Anything else that starts allShutdown: the reader or manager ends, the
\* control is replaced, the service closes.
Shutdown ==
  /\ stage = "run" /\ stage' = "stop"
  /\ UNCHANGED <<writer, startReqs, sendCh, connVars, userVars, listening>>

\* The stoper returns if the connection is closed already, as the reader of a plain
\* TCP connection does after a read error: it never comes to its channels.
StoperClosesConn ==
  /\ stage = "stop" /\ stage' \in {"wait", "closeFailed"}
  /\ UNCHANGED <<writer, startReqs, sendCh, connVars, userVars, listening>>

\* The reader and the manager have ended.  Either may be blocked at a full channel,
\* see ServerControl, so that this need not come.
CloseSendCh ==
  /\ stage = "wait" /\ stage' = "sendClosed"
  /\ UNCHANGED <<writer, startReqs, sendCh, connVars, userVars, listening>>

ClosePool ==
  /\ stage = "sendClosed" /\ writer = "off"
  /\ stage' = "poolClosed"
  /\ UNCHANGED <<writer, startReqs, sendCh, connVars, userVars, listening>>

\* for workConn := range ctl.workConnCh: a connection is closed; the stoper
\* returns if Close reports an error.  A user connection may still receive
\* from the closed channel first.
Drain(w) ==
  /\ stage = "poolClosed" /\ w \in pool
  /\ pool' = pool \ {w}
  /\ srv' = [srv EXCEPT ![w] = "closed"]
  /\ \/ UNCHANGED stage
     \/ CloseMayFail /\ stage' = "drainFailed"
  /\ UNCHANGED <<writer, startReqs, sendCh, cli, started, userVars, listening>>

\* The rest of the stoper: the loop over the pool has ended, every proxy that
\* is left is closed, and the watcher deletes the control.
Drained ==
  /\ stage = "poolClosed" /\ pool = {}
  /\ stage' = "drained"
  /\ UNCHANGED <<writer, startReqs, sendCh, connVars, userVars, listening>>

Gone ==
  /\ stage = "drained" /\ ~listening
  /\ stage' = "gone"
  /\ UNCHANGED <<writer, startReqs, sendCh, connVars, userVars, listening>>

\* Proxy.Close, by CloseProxy of the running control or by the stoper.
CloseListeners ==
  /\ stage \in {"run", "stop", "closeFailed", "wait", "drained"}
  /\ listening /\ listening' = FALSE
  /\ UNCHANGED <<ctlVars, connVars, userVars>>

-----------------------------------------------------------------------------
(* The client's end of a work connection.                                  *)

\* The writer writes one ReqWorkConn and HandleReqWorkConn of the client answers
\* it: it dials and sends NewWorkConn.  A failed write closes the connection; if
\* SetNewWorkConn fails the client keeps it open and silent.  How long all this
\* takes is how long frps is still to read from the connection.
AnswerReq(w) ==
  /\ writer = "on" /\ sendCh > 0 /\ ~SendClosed
  /\ cli[w] = "none"
  /\ sendCh' = sendCh - 1
  /\ cli' \in {[cli EXCEPT ![w] = c] : c \in {"sent", "closed", "silent"}}
  /\ srv' = [srv EXCEPT ![w] = "accept"]
  /\ UNCHANGED <<stage, writer, startReqs, pool, started, userVars, listening>>

\* connectServer fails: the request is forgotten.
DialFails ==
  /\ writer = "on" /\ sendCh > 0 /\ ~SendClosed
  /\ sendCh' = sendCh - 1
  /\ UNCHANGED <<stage, writer, startReqs, connVars, userVars, listening>>

\* StartWorkConn arrives and the wrapper of the proxy is running: the proxy
\* dials the local service and joins the two.
ServeWorkConn(w) ==
  /\ cli[w] = "sent" /\ w \in started
  /\ cli' = [cli EXCEPT ![w] = "joined"]
  /\ UNCHANGED <<ctlVars, pool, srv, started, userVars, listening>>

\* The client closes its end.  While it waits for StartWorkConn: the message is
\* an error, the proxy is not found or not running, the local service cannot be
\* dialled, or the connection breaks or is closed by frps.  While it serves: the
\* local service or frps ends the connection.
EndWorkConn(w) ==
  /\ cli[w] \in {"sent", "joined"}
  /\ cli' = [cli EXCEPT ![w] = "closed"]
  /\ UNCHANGED <<ctlVars, pool, srv, started, userVars, listening>>

-----------------------------------------------------------------------------
(* HandleListener and handleConnection of a work connection.               *)

\* The connection is accepted, from the listener or as a stream of the client's
\* mux session, and its TLS check passes or fails.
HandleListener(w) ==
  /\ srv[w] = "accept"
  /\ srv' \in {[srv EXCEPT ![w] = s] : s \in {"read", "closed"}}
  /\ UNCHANGED <<ctlVars, pool, cli, started, userVars, listening>>

\* No message arrives in time, its control is not found, or the plugins or
\* the authentication refuse it, in which case the client gets a StartWorkConn
\* with an error first.
RejectConn(w) ==
  /\ srv[w] = "read"
  /\ srv' = [srv EXCEPT ![w] = "closed"]
  /\ UNCHANGED <<ctlVars, pool, cli, started, userVars, listening>>

\* RegisterWorkConn got the control and verified the message.
AcceptConn(w) ==
  /\ srv[w] = "read" /\ cli[w] \in {"sent", "closed"} /\ stage # "gone"
  /\ srv' = [srv EXCEPT ![w] = "register"]
  /\ UNCHANGED <<ctlVars, pool, cli, started, userVars, listening>>

\* Mutant: a full pool discards the connection without an error.
RegisterForgetsFull(w) ==
  /\ srv[w] = "register"
  /\ srv' = [srv EXCEPT ![w] = "open"]
  /\ pool' = IF ~PoolClosed /\ Cardinality(pool) < PoolCap THEN pool \cup {w} ELSE pool
  /\ UNCHANGED <<ctlVars, cli, started, userVars, listening>>

\* Control.RegisterWorkConn: into the pool, or closed if the pool is full.  If
\* the channel is closed by now the send panics; the recovered call returns no
\* error and nobody closes the connection.
RegisterWorkConn(w) ==
  /\ srv[w] = "register"
  /\ \/ /\ ~PoolClosed /\ Cardinality(pool) < PoolCap
        /\ pool' = pool \cup {w}
        /\ srv' = [srv EXCEPT ![w] = "open"]
     \/ /\ ~PoolClosed /\ Cardinality(pool) >= PoolCap
        /\ srv' = [srv EXCEPT ![w] = "closed"]
        /\ UNCHANGED pool
     \/ /\ PoolClosed
        /\ srv' = [srv EXCEPT ![w] = "open"]
        /\ UNCHANGED pool
  /\ UNCHANGED <<ctlVars, cli, started, userVars, listening>>

-----------------------------------------------------------------------------
(* handleUserTCPConnection.                                                *)

AcceptUser(u) ==
  /\ user[u] = "none" /\ listening
  /\ user' = [user EXCEPT ![u] = "hook"]
  /\ UNCHANGED <<ctlVars, connVars, held, tries, listening>>

\* The NewUserConn plugins let the connection pass or refuse it.
UserHook(u) ==
  /\ user[u] = "hook"
  /\ \/ user' = [user EXCEPT ![u] = "get"]
     \/ user' = [user EXCEPT ![u] = "ended"]
  /\ UNCHANGED <<ctlVars, connVars, held, tries, listening>>

\* Mutant: the connection is looked at and left in the pool.
TakePeeks(u, w) ==
  /\ user[u] \in {"get", "wait"} /\ w \in pool
  /\ held' = [held EXCEPT ![u] = w]
  /\ user' = [user EXCEPT ![u] = "replace"]
  /\ UNCHANGED <<ctlVars, connVars, tries, listening>>

\* GetWorkConn receives from the pool, at once or while it waits.
TakeWorkConn(u, w) ==
  /\ user[u] \in {"get", "wait"} /\ w \in pool
  /\ pool' = pool \ {w}
  /\ held' = [held EXCEPT ![u] = w]
  /\ user' = [user EXCEPT ![u] = "replace"]
  /\ UNCHANGED <<ctlVars, srv, cli, started, tries, listening>>

\* The pool is empty: ask the client for a connection and wait.
RequestWorkConn(u) ==
  /\ user[u] = "get" /\ pool = {} /\ ~PoolClosed
  /\ user' = [user EXCEPT ![u] = "request"]
  /\ UNCHANGED <<ctlVars, connVars, held, tries, listening>>

SendRequest(u) ==
  /\ user[u] = "request" /\ CanSend
  /\ SendReq
  /\ user' = [user EXCEPT ![u] = IF SendClosed THEN "ended" ELSE "wait"]
  /\ UNCHANGED <<stage, writer, startReqs, connVars, held, tries, listening>>


\* ErrCtlClosed, or the user connection timeout: handleUserTCPConnection
\* returns and the deferred Close ends the user connection.
GiveUp(u) ==
  /\ \/ user[u] \in {"get", "wait"} /\ PoolClosed /\ pool = {}
     \/ user[u] = "wait"
  /\ user' = [user EXCEPT ![u] = "ended"]
  /\ UNCHANGED <<ctlVars, connVars, held, tries, listening>>

\* "When we get a work connection from pool, replace it with a new one."
Replace(u) ==
  /\ user[u] = "replace" /\ CanSend
  /\ SendReq
  /\ user' = [user EXCEPT ![u] = "write"]
  /\ UNCHANGED <<stage, writer, startReqs, connVars, held, tries, listening>>

\* StartWorkConn is written.  A write to a connection whose other end is gone
\* may still succeed.
StartOK(u) ==
  /\ user[u] = "write"
  /\ started' = started \cup {held[u]}
  /\ user' = [user EXCEPT ![u] = "join"]
  /\ UNCHANGED <<ctlVars, pool, srv, cli, held, tries, listening>>

\* Mutant: the loop is left after the first failed write.
StartFailsOnce(u) ==
  /\ user[u] = "write" /\ cli[held[u]] = "closed"
  /\ srv' = [srv EXCEPT ![held[u]] = "closed"]
  /\ tries' = [tries EXCEPT ![u] = @ + 1]
  /\ user' = [user EXCEPT ![u] = "join"]
  /\ UNCHANGED <<ctlVars, pool, cli, started, held, listening>>

\* The write fails and the connection is closed; after PoolCount + 1 failures
\* the closed connection is returned without an error, because the error of
\* the write is a variable of the loop body.
StartFails(u) ==
  /\ user[u] = "write" /\ cli[held[u]] = "closed"
  /\ srv' = [srv EXCEPT ![held[u]] = "closed"]
  /\ tries' = [tries EXCEPT ![u] = @ + 1]
  /\ \/ /\ tries[u] < PoolCount
        /\ user' = [user EXCEPT ![u] = "get"]
        /\ held' = [held EXCEPT ![u] = NoConn]
     \/ /\ tries[u] >= PoolCount
        /\ user' = [user EXCEPT ![u] = "join"]
        /\ UNCHANGED held
  /\ UNCHANGED <<ctlVars, pool, cli, started, listening>>

\* The encryption layer fails, or Join returns: both connections are closed.
EndUser(u) ==
  /\ user[u] = "join"
  /\ user' = [user EXCEPT ![u] = "ended"]
  /\ srv' = [srv EXCEPT ![held[u]] = "closed"]
  /\ held' = [held EXCEPT ![u] = NoConn]
  /\ UNCHANGED <<ctlVars, pool, cli, started, tries, listening>>

-----------------------------------------------------------------------------
ControlStep ==
  \/ FillPool \/ WriterEnds \/ Shutdown \/ StoperClosesConn \/ CloseSendCh \/ ClosePool
  \/ Drained \/ Gone \/ CloseListeners
  \/ \E w \in WorkConn : Drain(w)

ClientStep ==
  \/ DialFails
  \/ \E w \in WorkConn :
       AnswerReq(w) \/ ServeWorkConn(w) \/ EndWorkConn(w)

ConnStep(w) == HandleListener(w) \/ RejectConn(w) \/ AcceptConn(w) \/ RegisterWorkConn(w)

\* What handleUserTCPConnection does on its way to Join.
UserStep(u) ==
  \/ UserHook(u) \/ RequestWorkConn(u) \/ SendRequest(u) \/ GiveUp(u) \/ Replace(u)
  \/ StartOK(u) \/ StartFails(u)
  \/ \E w \in WorkConn : TakeWorkConn(u, w)

Next ==
  \/ ControlStep \/ ClientStep
  \/ \E w \in WorkConn : ConnStep(w)
  \/ \E u \in User : AcceptUser(u) \/ UserStep(u) \/ EndUser(u)

Spec == Init /\ [][Next]_vars

\* Every goroutine that is not blocked runs.  Of the stoper nothing is assumed: it may
\* have returned, or wait for a reader or manager that is blocked for good.
Fairness ==
  /\ WF_vars(WriterEnds \/ DialFails \/ \E w \in WorkConn : AnswerReq(w))
  /\ \A w \in WorkConn : WF_vars(ConnStep(w))
  /\ \A u \in User : WF_vars(UserStep(u))

FairSpec == Spec /\ Fairness

-----------------------------------------------------------------------------
(* Properties.                                                             *)

TypeOK ==
  /\ stage \in Stage /\ writer \in {"on", "off"}
  /\ startReqs \in 0..PoolCount /\ sendCh \in 0..ChanCap
  /\ pool \subseteq WorkConn /\ started \subseteq WorkConn
  /\ srv \in [WorkConn -> {"none", "accept", "read", "register", "open", "closed"}]
  /\ cli \in [WorkConn -> {"none", "sent", "silent", "joined", "closed"}]
  /\ user \in [User -> {"none", "hook", "get", "request", "wait",
                        "replace", "write", "join", "ended"}]
  /\ held \in [User -> WorkConn \cup {NoConn}]
  /\ tries \in [User -> 0..(PoolCount + 1)]
  /\ listening \in BOOLEAN

\* A work connection carries one user and one only, ever: nobody holds a
\* connection of the pool, no two handlers hold the same one, one that
\* StartWorkConn was written to never is in the pool again, and the client serves
\* an open connection only for the user joined to it, whatever order the receives
\* of GetWorkConn, the drain of the stoper and new registrations happen in.
OneUserPerConn ==
  /\ \A u \in User : held[u] # NoConn => held[u] \notin pool
  /\ \A u, v \in User : held[u] = held[v] /\ held[u] # NoConn => u = v
  /\ started \cap pool = {}
  /\ \A w \in WorkConn : cli[w] = "joined" =>
       /\ srv[w] \in {"open", "closed"}
       /\ srv[w] = "open" => \E u \in User : held[u] = w /\ user[u] = "join"

\* Until the pool is closed, each work connection frps keeps open is in the
\* pool or held by a user connection: neither a full pool, nor a user that gave
\* up waiting, nor a failed StartWorkConn leaves one behind.
NoOrphanConn ==
  ~PoolClosed =>
    \A w \in WorkConn : srv[w] = "open" => w \in pool \/ \E u \in User : held[u] = w

\* A user connection that a dead client end was given is closed with it: the
\* only user ever joined to a closed work connection is one whose every
\* attempt failed.
JoinsOpenConn ==
  \A u \in User : user[u] = "join" /\ srv[held[u]] # "open" => tries[u] = PoolCount + 1

\* Nobody receives from sendCh, it is full, and the stoper has not closed it.
Jammed == writer = "off" /\ sendCh = ChanCap /\ ~SendClosed

=============================================================================
