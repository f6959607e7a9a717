---------------------------- MODULE Client_proofs ---------------------------
(***************************************************************************)
(* Proofs about the client: its sessions, for any number of logins and any *)
(* capacity of the channels, and a proxy and its registration at the       *)
(* server, for queues of any length and with or without a health monitor.  *)
(***************************************************************************)
EXTENDS ClientSession, ProxyWrapper, SequenceTheorems, TLAPS


\* The worker has passed a wait only if the goroutine it waited for has ended:
\* the reader before msgHandler is waited for, msgHandler before the writer is.
WorkerOrder ==
  \A c \in Control :
    /\ ReadChClosed(c) => reader[c] = "done"
    /\ SendChClosed(c) => handler[c] \in {"done", "authFailed"}

\* A control nobody has logged in with has no goroutines and holds nothing.
Unused ==
  \A c \in Control : worker[c] = "off" =>
    /\ reader[c] = "off" /\ handler[c] = "off" /\ writer[c] = "off"
    /\ c \notin conn /\ proxies[c] = "none"

\* There is a control on its way to svr.ctl exactly while Run or
\* keepControllerWorking starts one, and its worker was started before.
NewInHand ==
  /\ new \in Control <=> keeper \in {"run", "store"}
  /\ new \in Control => worker[new] # "off"

IInv == TypeOK /\ WorkerOrder /\ Unused /\ NewInHand /\ OldSessionHoldsNothing

LEMMA InitIInv == Init => IInv
<1> SUFFICES ASSUME Init PROVE IInv
  OBVIOUS
<1> USE DEF Init
<1>1. TypeOK
  BY CapAssumption DEF TypeOK
<1>2. WorkerOrder /\ Unused
  BY DEF WorkerOrder, Unused, ReadChClosed, SendChClosed
<1>3. NewInHand /\ OldSessionHoldsNothing
  BY ControlAssumption DEF NewInHand, OldSessionHoldsNothing
<1> QED BY <1>1, <1>2, <1>3 DEF IInv

\* Steps of the keeper that only move it.
LEMMA IdleSteps ==
  ASSUME IInv, ConnectFails \/ Connect \/ LoginFails \/ Retry \/ SeeClosed
  PROVE  IInv'
<1>0. /\ keeper \notin {"run", "store"} /\ keeper' \notin {"run", "store"}
      /\ keeper' \in {"login", "exchange", "sleep", "exit"}
      /\ UNCHANGED <<cur, new, conn, cut, chanVars, goVars, proxies>>
  BY DEF ConnectFails, Connect, LoginFails, Retry, SeeClosed
<1>1. TypeOK'
  BY <1>0 DEF IInv, TypeOK, chanVars, goVars
<1>2. WorkerOrder' /\ Unused'
  BY <1>0 DEF IInv, WorkerOrder, Unused, ReadChClosed, SendChClosed, goVars
<1>3. NewInHand' /\ OldSessionHoldsNothing'
  BY <1>0 DEF IInv, NewInHand, OldSessionHoldsNothing, goVars
<1> QED BY <1>1, <1>2, <1>3 DEF IInv

\* A login starts the goroutines of a control that was not used before.
LEMMA LoginStep ==
  ASSUME IInv, NEW c \in Control, LoginSucceeds(c)
  PROVE  IInv'
<1> USE DEF LoginSucceeds, IInv
<1>0. new \notin Control
  BY DEF NewInHand
<1>1. TypeOK'
  BY DEF TypeOK, chanVars
<1>2. WorkerOrder'
  BY DEF TypeOK, WorkerOrder, ReadChClosed, SendChClosed
<1>3. Unused'
  BY DEF TypeOK, Unused
<1>4. NewInHand'
  BY DEF TypeOK, NewInHand
<1>5. OldSessionHoldsNothing'
  BY <1>0 DEF OldSessionHoldsNothing
<1> QED BY <1>1, <1>2, <1>3, <1>4, <1>5

\* The proxies of the new control are started, then it takes the place of the old
\* one, which loses what it still holds.
LEMMA StoreSteps ==
  ASSUME IInv, StartProxies \/ Store
  PROVE  IInv'
<1> USE DEF IInv
<1>0. new \in Control /\ worker[new] # "off"
  BY DEF StartProxies, Store, NewInHand
<1>1. CASE StartProxies
  <2> USE <1>1 DEF StartProxies, goVars, chanVars
  <2>1. TypeOK'
    BY <1>0 DEF TypeOK
  <2>2. WorkerOrder' /\ NewInHand'
    BY DEF WorkerOrder, NewInHand, ReadChClosed, SendChClosed
  <2>3. Unused' /\ OldSessionHoldsNothing'
    BY <1>0 DEF TypeOK, Unused, OldSessionHoldsNothing
  <2> QED BY <2>1, <2>2, <2>3
<1>2. CASE Store
  <2> USE <1>2 DEF Store, goVars, chanVars
  <2>1. TypeOK'
    BY <1>0 DEF TypeOK
  <2>2. WorkerOrder' /\ NewInHand'
    BY ControlAssumption DEF WorkerOrder, NewInHand, ReadChClosed, SendChClosed
  <2>3. Unused' /\ OldSessionHoldsNothing'
    BY DEF TypeOK, Unused, OldSessionHoldsNothing
  <2> QED BY <2>1, <2>2, <2>3
<1> QED BY <1>1, <1>2

\* The reader and the end of the connection: a reader that is done stays so.
LEMMA ReaderSteps ==
  ASSUME IInv, NEW c \in Control, Cut(c) \/ ReaderStep(c)
  PROVE  IInv'
<1> USE DEF IInv
<1>0. /\ UNCHANGED <<keeperVars, sendCh, handler, writer, worker, proxies>>
      /\ conn' \subseteq conn
      /\ reader' = reader \/ (reader[c] \in {"read", "put"} /\
           \E r \in {"read", "put", "done"} : reader' = [reader EXCEPT ![c] = r])
  BY DEF Cut, ReaderStep, ReadMsg, PutMsg, ReadEnds, chanVars, goVars, TypeOK
<1>1. TypeOK'
  <2>1. readCh' \in [Control -> 0..ChanCap]
    BY CapAssumption DEF Cut, ReaderStep, ReadMsg, PutMsg, ReadEnds, chanVars, TypeOK
  <2>2. cut' \subseteq Control
    BY DEF Cut, ReaderStep, ReadMsg, PutMsg, ReadEnds, TypeOK
  <2> QED BY <1>0, <2>1, <2>2 DEF TypeOK, keeperVars
<1>2. WorkerOrder'
  BY <1>0 DEF TypeOK, WorkerOrder, ReadChClosed, SendChClosed
<1>3. Unused'
  BY <1>0 DEF TypeOK, Unused
<1>4. NewInHand' /\ OldSessionHoldsNothing'
  BY <1>0 DEF NewInHand, OldSessionHoldsNothing, keeperVars
<1> QED BY <1>1, <1>2, <1>3, <1>4

\* msgHandler moves only while it has not ended.
LEMMA HandlerSteps ==
  ASSUME IInv, NEW c \in Control, HandlerStep(c)
  PROVE  IInv'
<1> USE DEF IInv
<1>0. /\ UNCHANGED <<keeperVars, cut, reader, writer, worker, proxies>>
      /\ conn' \subseteq conn
      /\ handler[c] \in {"select", "send", "lock"}
      /\ \E h \in {"select", "send", "lock", "done", "authFailed"} :
           handler' = [handler EXCEPT ![c] = h]
  <2>1. handler' = handler => handler' = [handler EXCEPT ![c] = handler[c]]
    BY DEF TypeOK
  <2>2. CASE HandleMsg(c)
    BY <2>1, <2>2 DEF HandleMsg, HandlerFrame
  <2>3. CASE HandlerEnds(c) \/ HeartbeatTimeout(c) \/ Heartbeat(c)
    BY <2>3 DEF HandlerEnds, HeartbeatTimeout, Heartbeat, HandlerFrame
  <2>4. CASE SendPing(c) \/ GotLock(c)
    BY <2>4 DEF SendPing, GotLock, HandlerFrame
  <2> QED BY <2>2, <2>3, <2>4 DEF HandlerStep
<1>1. TypeOK'
  <2>1. readCh' \in [Control -> 0..ChanCap]
    BY CapAssumption DEF chanVars, TypeOK,
      HandlerStep, Heartbeat, SendPing, HeartbeatTimeout, HandleMsg, GotLock, HandlerEnds, HandlerFrame
  <2>2. sendCh' \in [Control -> 0..ChanCap]
    BY CapAssumption DEF chanVars, TypeOK,
      HandlerStep, Heartbeat, SendPing, HeartbeatTimeout, HandleMsg, GotLock, HandlerEnds, HandlerFrame
  <2>3. handler' \in [Control -> {"off", "select", "send", "lock", "done", "authFailed"}]
    BY <1>0 DEF TypeOK
  <2> QED BY <1>0, <2>1, <2>2, <2>3 DEF TypeOK, keeperVars
<1>2. WorkerOrder'
  BY <1>0 DEF TypeOK, WorkerOrder, ReadChClosed, SendChClosed
<1>3. Unused'
  BY <1>0 DEF TypeOK, Unused
<1>4. NewInHand' /\ OldSessionHoldsNothing'
  BY <1>0 DEF NewInHand, OldSessionHoldsNothing, keeperVars
<1> QED BY <1>1, <1>2, <1>3, <1>4

\* The wrappers and the writer only fill and empty sendCh.
LEMMA WriterSteps ==
  ASSUME IInv, NEW c \in Control, WrapperSend(c) \/ WriteMsg(c) \/ WriterEnds(c)
  PROVE  IInv'
<1> USE DEF IInv
<1> USE DEF WrapperSend, WriteMsg, WriterEnds
<1>0. /\ UNCHANGED <<keeperVars, conn, cut, readCh, reader, handler, worker, proxies>>
      /\ writer' = writer \/ (writer[c] = "recv" /\ writer' = [writer EXCEPT ![c] = "done"])
  BY DEF goVars
<1>1. TypeOK'
  <2>1. sendCh' \in [Control -> 0..ChanCap]
    BY CapAssumption DEF TypeOK
  <2> QED BY <1>0, <2>1 DEF TypeOK, keeperVars
<1>2. WorkerOrder'
  BY <1>0 DEF WorkerOrder, ReadChClosed, SendChClosed
<1>3. Unused'
  BY <1>0 DEF TypeOK, Unused
<1>4. NewInHand' /\ OldSessionHoldsNothing'
  BY <1>0 DEF NewInHand, OldSessionHoldsNothing, keeperVars
<1> QED BY <1>1, <1>2, <1>3, <1>4

\* The worker passes a wait when the goroutine it waits for has ended.
LEMMA WorkerSteps ==
  ASSUME IInv, NEW c \in Control, WorkerStep(c)
  PROVE  IInv'
<1> USE DEF IInv
<1> USE DEF WorkerStep, CloseReadCh, CloseSendCh, CloseProxies, WorkerDone, WorkerFrame
<1>0. /\ UNCHANGED <<keeperVars, cut, chanVars, reader, handler, writer>>
      /\ conn' \subseteq conn
      /\ worker[c] # "off"
      /\ \E w \in {"waitHandler", "waitWriter", "closing", "done"} :
           worker' = [worker EXCEPT ![c] = w]
      /\ \A x \in Control : proxies'[x] \in {proxies[x], "stopped"}
      /\ \A x \in Control : x # c => proxies'[x] = proxies[x]
      /\ proxies' \in [Control -> {"none", "running", "stopped"}]
  BY DEF TypeOK
<1>1. TypeOK'
  BY <1>0 DEF TypeOK, keeperVars, chanVars
<1>2. WorkerOrder'
  BY DEF TypeOK, WorkerOrder, ReadChClosed, SendChClosed
<1>3. Unused'
  BY <1>0 DEF TypeOK, Unused
<1>4. NewInHand' /\ OldSessionHoldsNothing'
  BY <1>0 DEF TypeOK, NewInHand, OldSessionHoldsNothing, keeperVars
<1> QED BY <1>1, <1>2, <1>3, <1>4

LEMMA NextIInv == IInv /\ [Next]_vars => IInv'
<1> SUFFICES ASSUME IInv, [Next]_vars PROVE IInv'
  OBVIOUS
<1>1. CASE KeeperStep
  BY <1>1, IdleSteps, LoginStep, StoreSteps DEF KeeperStep
<1>2. ASSUME NEW c \in Control,
             \/ Cut(c) \/ ReaderStep(c) \/ HandlerStep(c) \/ WrapperSend(c)
             \/ WriteMsg(c) \/ WriterEnds(c) \/ WorkerStep(c)
      PROVE  IInv'
  BY <1>2, ReaderSteps, HandlerSteps, WriterSteps, WorkerSteps
<1>3. CASE UNCHANGED vars
  <2>1. TypeOK'
    BY <1>3 DEF IInv, TypeOK, vars, keeperVars, chanVars, goVars
  <2>2. WorkerOrder' /\ Unused'
    BY <1>3 DEF IInv, WorkerOrder, Unused, ReadChClosed, SendChClosed, vars, goVars
  <2>3. NewInHand' /\ OldSessionHoldsNothing'
    BY <1>3 DEF IInv, NewInHand, OldSessionHoldsNothing, vars, keeperVars, goVars
  <2> QED BY <2>1, <2>2, <2>3 DEF IInv
<1> QED BY <1>1, <1>2, <1>3 DEF Next

LEMMA Inductive == Spec => []IInv
BY InitIInv, NextIInv, PTL DEF Spec

-----------------------------------------------------------------------------
\* The state of the client's sessions keeps its type: in particular readCh and
\* sendCh never hold more than their capacity.
THEOREM TypeCorrect == Spec => []TypeOK
<1>1. IInv => TypeOK
  BY DEF IInv
<1> QED BY <1>1, Inductive, PTL

\* The reader never sends on a closed readCh, nor msgHandler a ping on a closed
\* sendCh: the worker of client/control.go closes each after its sender has ended.
THEOREM SessionSendsAreSafe == Spec => []SessionSendsSafe
<1>1. IInv => SessionSendsSafe
  BY DEF IInv, WorkerOrder, SessionSendsSafe
<1> QED BY <1>1, Inductive, PTL

\* Only the control in svr.ctl and the one about to replace it hold a connection or
\* run proxies, whatever sessions keepControllerWorking has gone through.
THEOREM OnlyCurrentHolds == Spec => []OldSessionHoldsNothing
<1>1. IInv => OldSessionHoldsNothing
  BY DEF IInv
<1> QED BY <1>1, Inductive, PTL

-----------------------------------------------------------------------------
(* The end of a session: which of its goroutines can go on.                *)

\* The connection of a session that is not wound up yet is gone.
Ended(c) == worker[c] \notin {"off", "done"} /\ (c \in cut \/ c \notin conn)

ReaderCanRun(c) == reader[c] = "read" \/ (reader[c] = "put" /\ readCh[c] < ChanCap)

\* The tickers of msgHandler are left out: they do not bring the end closer.
HandlerCanRun(c) ==
  \/ handler[c] = "select" /\ (readCh[c] > 0 \/ ReadChClosed(c))
  \/ handler[c] \in {"send", "lock"} /\ sendCh[c] < ChanCap

WriterCanRun(c) == writer[c] = "recv" /\ (sendCh[c] > 0 \/ SendChClosed(c))

WorkerCanRun(c) ==
  \/ worker[c] = "wait" /\ reader[c] = "done"
  \/ worker[c] = "waitHandler" /\ handler[c] \in {"done", "authFailed"}
  \/ worker[c] = "waitWriter" /\ writer[c] = "done"
  \/ worker[c] = "closing"

\* The reader waits for room in a readCh nobody receives from any more.
ReaderStuck(c) ==
  reader[c] = "put" /\ readCh[c] = ChanCap /\ handler[c] \in {"done", "authFailed"}

\* msgHandler, or the wrapper whose lock it waits for, waits for room in a sendCh
\* nobody receives from any more.
HandlerStuck(c) ==
  handler[c] \in {"send", "lock"} /\ sendCh[c] = ChanCap /\ writer[c] = "done"

\* A session whose connection is gone has a goroutine that can go on until it is
\* wound up, or it is stuck in one of two ways.
WindUpMoves ==
  \A c \in Control : Ended(c) =>
    \/ ReaderCanRun(c) \/ HandlerCanRun(c) \/ WriterCanRun(c) \/ WorkerCanRun(c)
    \/ ReaderStuck(c) \/ HandlerStuck(c)

\* Nothing frees a session that is stuck.
StaysStuck ==
  \A c \in Control :
    /\ ReaderStuck(c) => ReaderStuck(c)'
    /\ HandlerStuck(c) => HandlerStuck(c)'

\* A session has all four goroutines from the start.
AllStarted ==
  \A c \in Control :
    worker[c] # "off" => reader[c] # "off" /\ handler[c] # "off" /\ writer[c] # "off"

LEMMA StartedStep == IInv /\ AllStarted /\ [Next]_vars => AllStarted'
<1> SUFFICES ASSUME IInv, AllStarted, [Next]_vars PROVE AllStarted'
  OBVIOUS
<1> USE DEF IInv, AllStarted
<1>1. ASSUME NEW c \in Control, LoginSucceeds(c) PROVE AllStarted'
  BY <1>1 DEF LoginSucceeds, TypeOK
<1>2. CASE \/ ConnectFails \/ Connect \/ LoginFails \/ Retry \/ StartProxies \/ Store \/ SeeClosed
           \/ UNCHANGED vars
  BY <1>2 DEF ConnectFails, Connect, LoginFails, Retry, StartProxies, Store, SeeClosed, vars, goVars
<1>3. ASSUME NEW c \in Control, Cut(c) \/ WrapperSend(c) \/ WriteMsg(c) PROVE AllStarted'
  BY <1>3 DEF Cut, WrapperSend, WriteMsg, goVars
<1>4. ASSUME NEW c \in Control, ReaderStep(c) PROVE AllStarted'
  BY <1>4 DEF ReaderStep, ReadMsg, PutMsg, ReadEnds, TypeOK
<1>5. ASSUME NEW c \in Control, HandlerStep(c) PROVE AllStarted'
  BY <1>5 DEF HandlerStep, Heartbeat, SendPing, HeartbeatTimeout, HandleMsg, GotLock, HandlerEnds,
     HandlerFrame, TypeOK
<1>6. ASSUME NEW c \in Control, WriterEnds(c) PROVE AllStarted'
  BY <1>6 DEF WriterEnds, TypeOK
<1>7. ASSUME NEW c \in Control, WorkerStep(c) PROVE AllStarted'
  BY <1>7 DEF WorkerStep, CloseReadCh, CloseSendCh, CloseProxies, WorkerDone, WorkerFrame, TypeOK
<1> QED BY <1>1, <1>2, <1>3, <1>4, <1>5, <1>6, <1>7 DEF Next, KeeperStep

\* Once its connection is gone a session is wound up, and keepControllerWorking told, by
\* goroutines of which one can always go on, except in two situations: the reader at a full
\* readCh after msgHandler has returned, and msgHandler, or a wrapper it waits for, at a full
\* sendCh after the writer has.  It is the safety part of SessionIsReplaced, for channels of
\* any capacity.
THEOREM WindUpStallsTwoWays == Spec => []WindUpMoves
<1>1. Init => AllStarted
  BY DEF Init, AllStarted
<1>2. Init /\ [][Next]_vars /\ []IInv => []AllStarted
  BY <1>1, StartedStep, PTL
<1>3. IInv /\ AllStarted => WindUpMoves
  <2> SUFFICES ASSUME IInv, AllStarted, NEW c \in Control, Ended(c)
               PROVE  \/ ReaderCanRun(c) \/ HandlerCanRun(c) \/ WriterCanRun(c) \/ WorkerCanRun(c)
                      \/ ReaderStuck(c) \/ HandlerStuck(c)
    BY DEF WindUpMoves
  <2>1. /\ reader[c] \in {"read", "put", "done"} /\ writer[c] \in {"recv", "done"}
        /\ handler[c] \in {"select", "send", "lock", "done", "authFailed"}
        /\ worker[c] \in {"wait", "waitHandler", "waitWriter", "closing"}
        /\ readCh[c] \in 0..ChanCap /\ sendCh[c] \in 0..ChanCap
        /\ ChanCap \in Nat \ {0}
    BY CapAssumption DEF IInv, TypeOK, AllStarted, Ended
  <2>2. \/ handler[c] \in {"done", "authFailed", "select"}
        \/ HandlerCanRun(c) \/ WriterCanRun(c) \/ HandlerStuck(c)
    BY <2>1 DEF HandlerCanRun, WriterCanRun, HandlerStuck
  <2>3. CASE worker[c] = "wait"
    BY <2>1, <2>2, <2>3 DEF WorkerCanRun, ReaderCanRun, ReaderStuck, HandlerCanRun
  <2>4. CASE worker[c] = "waitHandler"
    BY <2>2, <2>4 DEF WorkerCanRun, HandlerCanRun, ReadChClosed
  <2>5. CASE worker[c] = "waitWriter"
    BY <2>1, <2>5 DEF WorkerCanRun, WriterCanRun, SendChClosed
  <2>6. CASE worker[c] = "closing"
    BY <2>6 DEF WorkerCanRun
  <2> QED BY <2>1, <2>3, <2>4, <2>5, <2>6
<1> QED BY Inductive, <1>2, <1>3, PTL DEF Spec

\* No step of a session takes it out of one of the two situations.
LEMMA StuckStep == IInv /\ [Next]_vars => StaysStuck
<1> SUFFICES ASSUME IInv, [Next]_vars, NEW c \in Control
             PROVE  (ReaderStuck(c) => ReaderStuck(c)') /\ (HandlerStuck(c) => HandlerStuck(c)')
  BY DEF StaysStuck
<1> DEFINE Still == (ReaderStuck(c) => ReaderStuck(c)') /\ (HandlerStuck(c) => HandlerStuck(c)')
<1> USE CapAssumption DEF IInv, ReaderStuck, HandlerStuck
<1>1. ASSUME NEW d \in Control, LoginSucceeds(d) PROVE Still
  BY <1>1 DEF LoginSucceeds, TypeOK, Unused, chanVars
<1>2. CASE UNCHANGED <<reader, handler, writer, readCh, sendCh>>
  BY <1>2
<1>3. ASSUME NEW d \in Control, WrapperSend(d) \/ WriteMsg(d) \/ WriterEnds(d) PROVE Still
  BY <1>3 DEF WrapperSend, WriteMsg, WriterEnds, goVars, TypeOK
<1>4. ASSUME NEW d \in Control, ReaderStep(d) PROVE Still
  BY <1>4 DEF ReaderStep, ReadMsg, PutMsg, ReadEnds, TypeOK, chanVars
<1>5. ASSUME NEW d \in Control, HandlerStep(d) PROVE Still
  <2>1. d = c => ~ReaderStuck(c) /\ ~HandlerStuck(c)
    BY <1>5 DEF HandlerStep, Heartbeat, SendPing, HeartbeatTimeout, HandleMsg, GotLock, HandlerEnds,
       TypeOK, WorkerOrder
  <2>2. /\ d # c => handler'[c] = handler[c] /\ readCh'[c] = readCh[c] /\ sendCh'[c] = sendCh[c]
        /\ UNCHANGED <<reader, writer>>
    BY <1>5 DEF HandlerStep, Heartbeat, SendPing, HeartbeatTimeout, HandleMsg, GotLock, HandlerEnds,
       HandlerFrame, TypeOK, chanVars
  <2> QED BY <2>1, <2>2
<1>6. CASE \/ ConnectFails \/ Connect \/ LoginFails \/ Retry \/ StartProxies \/ Store \/ SeeClosed
           \/ (\E d \in Control : Cut(d) \/ WorkerStep(d)) \/ UNCHANGED vars
  <2>1. UNCHANGED <<reader, handler, writer, readCh, sendCh>>
    BY <1>6 DEF ConnectFails, Connect, LoginFails, Retry, StartProxies, Store, SeeClosed, Cut,
       WorkerStep, CloseReadCh, CloseSendCh, CloseProxies, WorkerDone, WorkerFrame, vars, goVars,
       chanVars
  <2> QED BY <1>2, <2>1
<1> QED BY <1>1, <1>3, <1>4, <1>5, <1>6 DEF Next, KeeperStep

\* The two situations are deadlocks of the session: neither ever ends by itself, so the
\* keeper that waits for ClosedDoneCh never logs in again.
THEOREM StuckStaysStuck == Spec => [][StaysStuck]_vars
<1>1. IInv /\ [Next]_vars => [StaysStuck]_vars
  BY StuckStep
<1> QED BY Inductive, <1>1, PTL DEF Spec

-----------------------------------------------------------------------------
(* A proxy and its registration.                                           *)

Message == [type : Kinds, latest : BOOLEAN]

Queues == toServer \in Seq(Message) /\ toClient \in Seq(Message)

\* While the wrapper waits, its latest request is the last message to the
\* server, or the server has handled all there were.
LatestIsLast ==
  phase = "waitStart" =>
    \A i \in 1..Len(toServer) :
      /\ toServer[i].latest => i = Len(toServer)
      /\ i = Len(toServer) => toServer[i].type = "NewProxy"

\* While the wrapper waits, an answer to the latest request finds nothing else on
\* its way to the server, and a good one finds the proxy registered.
AnswerIsCurrent ==
  phase = "waitStart" =>
    \A i \in 1..Len(toClient) : toClient[i].latest =>
      toServer = <<>> /\ (toClient[i].type = "ok" => registered)

\* A wrapper that runs because of that answer has sent nothing since.
GrantHolds == phase = "running" /\ agreed => registered /\ toServer = <<>>

WrapperInv == Queues /\ LatestIsLast /\ AnswerIsCurrent /\ GrantHolds

\* What is left of a queue when its first message is taken.
LEMMA Taken ==
  ASSUME NEW q \in Seq(Message), q # <<>>
  PROVE  /\ Tail(q) \in Seq(Message) /\ Len(q) \in Nat \ {0} /\ Len(Tail(q)) = Len(q) - 1
         /\ \A i \in 1..Len(Tail(q)) : Tail(q)[i] = q[i + 1]
         /\ Head(q) = q[1] /\ q[1] \in Message
         /\ Len(q) = 1 => Tail(q) = <<>>
<1>1. /\ Tail(q) \in Seq(Message) /\ Len(q) \in Nat \ {0} /\ Len(Tail(q)) = Len(q) - 1
      /\ \A i \in 1..Len(Tail(q)) : Tail(q)[i] = q[i + 1]
  BY HeadTailProperties, EmptySeq
<1>2. Head(q) = q[1] /\ q[1] \in Message
  BY <1>1, ElementOfSeq
<1>3. ASSUME NEW r \in Seq(Message), Len(r) = 0 PROVE r = <<>>
  BY <1>3, EmptySeq
<1> QED BY <1>1, <1>2, <1>3

\* After NewProxy is sent nothing older is the latest.
LEMMA SendNewProxyEffect ==
  ASSUME Queues, SendNewProxy
  PROVE  /\ Queues'
         /\ toServer' # <<>>
         /\ \A i \in 1..Len(toServer') :
              /\ toServer'[i].latest => i = Len(toServer')
              /\ i = Len(toServer') => toServer'[i].type = "NewProxy"
         /\ \A i \in 1..Len(toClient') : ~toClient'[i].latest
<1> USE DEF Queues, Message, Kinds
<1>1. ASSUME NEW q \in Seq(Message)
      PROVE  /\ Outdate(q) \in Seq(Message) /\ Len(Outdate(q)) = Len(q)
             /\ \A i \in 1..Len(q) : ~Outdate(q)[i].latest
  <2>1. /\ Len(q) \in Nat /\ DOMAIN q = 1..Len(q)
        /\ \A i \in 1..Len(q) : q[i] \in Message
    BY LenProperties, ElementOfSeq
  <2>2. \A i \in 1..Len(q) : /\ [q[i] EXCEPT !.latest = FALSE] \in Message
                             /\ ~[q[i] EXCEPT !.latest = FALSE].latest
    BY <2>1
  <2> HIDE DEF Message
  <2>3. Outdate(q) \in Seq(Message) /\ Len(Outdate(q)) = Len(q)
    BY <2>1, <2>2 DEF Outdate
  <2>4. \A i \in 1..Len(q) : Outdate(q)[i] = [q[i] EXCEPT !.latest = FALSE]
    BY <2>1 DEF Outdate
  <2> QED BY <2>2, <2>3, <2>4
<1>2. Request("NewProxy") \in Message /\ Request("NewProxy").type = "NewProxy"
  BY DEF Request
<1> HIDE DEF Message, Kinds
<1>3. toClient' \in Seq(Message) /\ \A i \in 1..Len(toClient') : ~toClient'[i].latest
  BY <1>1 DEF SendNewProxy
<1>4. /\ toServer' \in Seq(Message) /\ Len(toServer') = Len(toServer) + 1
      /\ \A i \in 1..Len(toServer) : ~toServer'[i].latest
      /\ toServer'[Len(toServer) + 1].type = "NewProxy"
  BY <1>1, <1>2, AppendProperties, LenProperties DEF SendNewProxy
<1> QED BY <1>3, <1>4, LenProperties, EmptySeq

\* Sending CloseProxy keeps the queues.
LEMMA SendCloseProxyEffect ==
  ASSUME Queues, SendCloseProxy
  PROVE  toServer' \in Seq(Message)
<1>1. Request("CloseProxy") \in Message
  BY DEF Request, Message, Kinds
<1> QED BY <1>1, AppendProperties DEF SendCloseProxy, Queues

\* Every step keeps the invariant.
LEMMA WrapperStep == WrapperInv /\ [WrapperNext]_wrapperVars => WrapperInv'
<1> SUFFICES ASSUME WrapperInv, [WrapperNext]_wrapperVars PROVE WrapperInv'
  OBVIOUS
<1> USE DEF WrapperInv, monVars, netVars, ghosts
<1>1. CASE CheckStart
  BY <1>1, SendNewProxyEffect DEF CheckStart, LatestIsLast, AnswerIsCurrent, GrantHolds
<1>2. CASE CheckRetry
  BY <1>2, SendNewProxyEffect DEF CheckRetry, LatestIsLast, AnswerIsCurrent, GrantHolds
<1>3. CASE CheckFail
  BY <1>3, SendCloseProxyEffect
  DEF CheckFail, Queues, LatestIsLast, AnswerIsCurrent, GrantHolds
<1>4. CASE Stop
  BY <1>4 DEF Stop, Queues, LatestIsLast, AnswerIsCurrent, GrantHolds
<1>5. CASE RespStarts
  <2>1. toClient' \in Seq(Message) /\ Head(toClient) = toClient[1] /\ 1 \in 1..Len(toClient)
    BY <1>5, Taken DEF RespStarts, Queues
  <2> QED BY <1>5, <2>1 DEF RespStarts, Queues, LatestIsLast, AnswerIsCurrent, GrantHolds
<1>6. CASE RespRunFails
  BY <1>6, SendCloseProxyEffect, Taken
  DEF RespRunFails, Queues, LatestIsLast, AnswerIsCurrent, GrantHolds
<1>7. CASE RespError \/ RespIgnored
  <2>1. toClient' \in Seq(Message) /\ phase' # "waitStart"
    BY <1>7, Taken DEF RespError, RespIgnored, Queues
  <2> QED
    BY <1>7, <2>1 DEF RespError, RespIgnored, Queues, LatestIsLast, AnswerIsCurrent, GrantHolds
<1>8. ASSUME toServer # <<>>, toServer' = Tail(toServer), NEW t \in {"ok", "error"},
             toClient' = Answer(t), t = "ok" => registered', registered => registered',
             UNCHANGED <<phase, agreed>>
      PROVE  WrapperInv'
  <2>0. phase' = phase /\ agreed' = agreed
    BY <1>8
  <2>1. /\ toServer' \in Seq(Message) /\ Len(toServer') = Len(toServer) - 1
        /\ \A i \in 1..Len(toServer') : toServer'[i] = toServer[i + 1]
        /\ Len(toServer) \in Nat \ {0} /\ Head(toServer) = toServer[1] /\ toServer[1] \in Message
        /\ Len(toServer) = 1 => toServer' = <<>>
    BY <1>8, Taken DEF Queues
  <2>2. [type |-> t, latest |-> Head(toServer).latest] \in Message
    BY <1>8, <2>1 DEF Message, Kinds
  <2>3. /\ toClient' \in Seq(Message) /\ Len(toClient') = Len(toClient) + 1
        /\ \A i \in 1..Len(toClient) : toClient'[i] = toClient[i]
        /\ toClient'[Len(toClient) + 1] = [type |-> t, latest |-> toServer[1].latest]
    BY <1>8, <2>1, <2>2, AppendProperties DEF Queues, Answer
  <2>4. LatestIsLast'
    BY <2>0, <2>1 DEF LatestIsLast
  <2>5. AnswerIsCurrent'
    <3> SUFFICES ASSUME phase = "waitStart", NEW i \in 1..Len(toClient'), toClient'[i].latest
                 PROVE  toServer' = <<>> /\ (toClient'[i].type = "ok" => registered')
      BY <1>8 DEF AnswerIsCurrent
    <3>1. i = Len(toClient) + 1
      <4>1. toServer # <<>> /\ Len(toClient) \in Nat
        BY <1>8, LenProperties DEF Queues
      <4>2. i \notin 1..Len(toClient)
        BY <2>3, <4>1 DEF AnswerIsCurrent
      <4> QED BY <2>3, <4>1, <4>2
    <3>2. Len(toServer) = 1
      BY <2>1, <2>3, <3>1 DEF LatestIsLast
    <3> QED BY <1>8, <2>1, <2>3, <3>1, <3>2
  <2>6. GrantHolds'
    BY <1>8 DEF GrantHolds
  <2> QED BY <2>1, <2>3, <2>4, <2>5, <2>6 DEF Queues
<1>9. CASE ServerRegisters \/ ServerRefuses
  BY <1>8, <1>9 DEF ServerRegisters, ServerRefuses
<1>10. CASE ServerCloses
  <2>1. /\ toServer' \in Seq(Message) /\ Len(toServer') = Len(toServer) - 1
        /\ \A i \in 1..Len(toServer') : toServer'[i] = toServer[i + 1]
        /\ Len(toServer) \in Nat \ {0} /\ phase' = phase
    BY <1>10, Taken DEF ServerCloses, Queues
  <2>2. LatestIsLast'
    BY <2>1 DEF LatestIsLast
  <2> QED BY <1>10, <2>1, <2>2 DEF ServerCloses, AnswerIsCurrent, GrantHolds, Queues
<1>11. CASE CheckGood \/ CheckBad \/ UNCHANGED wrapperVars
  BY <1>11 DEF CheckGood, CheckBad, wrapperVars, Queues, LatestIsLast, AnswerIsCurrent, GrantHolds
<1> QED
  BY <1>1, <1>2, <1>3, <1>4, <1>5, <1>6, <1>7, <1>9, <1>10, <1>11
  DEF WrapperNext, CheckStep, HandleResp, ServerStep

\* A wrapper that SetRunningStatus has started because its latest NewProxy was
\* granted is registered at the server, however many requests, withdrawals and
\* answers were under way, repeated or late.
THEOREM GrantedIsRegistered == WrapperSpec => []RunningIsRegistered
<1>1. WrapperInit => WrapperInv
  BY DEF WrapperInit, WrapperInv, Queues, LatestIsLast, AnswerIsCurrent, GrantHolds
<1>2. WrapperInv => RunningIsRegistered
  BY DEF WrapperInv, GrantHolds, RunningIsRegistered
<1> QED BY <1>1, <1>2, WrapperStep, PTL DEF WrapperSpec
=============================================================================
