-------------------------- MODULE WorkConns_proofs --------------------------
(* Proofs about WorkConns: its types, that a work connection carries one    *)
(* user only, and that frps loses none while its pool is open, for any      *)
(* number of users and work connections and any size of the pool.           *)
EXTENDS WorkConns, TLAPS

(***************************************************************************)
(* The inductive invariant.  What makes the properties inductive is where  *)
(* a connection may be in each state of its two ends: the pool has open    *)
(* connections only, a handler that has not joined yet holds an open one,  *)
(* and StartWorkConn was only written to one that is closed or joined.     *)
(***************************************************************************)
Holds(u) == user[u] \in {"replace", "write", "join"}

HeldInv ==
  \A u \in User :
    /\ held[u] # NoConn <=> Holds(u)
    /\ held[u] # NoConn => held[u] \notin pool
    /\ user[u] \in {"replace", "write"} => srv[held[u]] = "open" /\ held[u] \notin started
    /\ user[u] = "join" => srv[held[u]] \in {"open", "closed"}

Unique == \A u, v \in User : held[u] = held[v] /\ held[u] # NoConn => u = v

PoolInv == \A w \in pool : srv[w] = "open" /\ w \notin started

StartedInv ==
  \A w \in started :
    /\ srv[w] \in {"open", "closed"}
    /\ srv[w] = "open" => \E u \in User : held[u] = w /\ user[u] = "join"

ClientInv ==
  \A w \in WorkConn :
    /\ cli[w] = "none" => srv[w] = "none"
    /\ cli[w] = "joined" => w \in started

TriesInv ==
  \A u \in User :
    /\ tries[u] = PoolCount + 1 => user[u] \in {"join", "ended"}
    /\ user[u] = "join" /\ srv[held[u]] # "open" => tries[u] = PoolCount + 1

IInv ==
  /\ TypeOK /\ HeldInv /\ Unique /\ PoolInv /\ StartedInv /\ ClientInv
  /\ TriesInv /\ NoOrphanConn

LEMMA InitIInv == Init => IInv
BY ConnAssumption, CapAssumption
DEF Init, IInv, TypeOK, HeldInv, Unique, PoolInv, StartedInv, ClientInv, TriesInv, NoOrphanConn,
    Holds, Stage, PoolClosed, SendClosed

\* The actions of the control, and a failed dial, leave the connections and
\* users alone; the pool, once closed, stays closed.
LEMMA QuietSteps ==
  ASSUME IInv, TypeOK', UNCHANGED <<connVars, userVars>>, PoolClosed => PoolClosed'
  PROVE  IInv'
BY DEF IInv, HeldInv, Unique, PoolInv, StartedInv, ClientInv, TriesInv, NoOrphanConn,
       Holds, connVars, userVars

LEMMA ControlType ==
  ASSUME TypeOK, FillPool \/ WriterEnds \/ Shutdown \/ StoperClosesConn \/ CloseSendCh \/ ClosePool
                 \/ Drained \/ Gone \/ CloseListeners \/ DialFails
  PROVE  TypeOK'
<1>1. CASE FillPool
  BY <1>1, CapAssumption
  DEF TypeOK, FillPool, CanSend, SendReq, SendClosed, connVars, userVars, Stage
<1>2. CASE WriterEnds
  BY <1>2, CapAssumption DEF TypeOK, WriterEnds, SendClosed, connVars, userVars, Stage
<1>3. CASE Shutdown \/ StoperClosesConn \/ CloseSendCh \/ ClosePool \/ Drained \/ Gone
  BY <1>3 DEF TypeOK, Shutdown, StoperClosesConn, CloseSendCh, ClosePool, Drained, Gone, connVars, userVars, Stage
<1>4. CASE CloseListeners
  BY <1>4 DEF TypeOK, CloseListeners, connVars, userVars, ctlVars
<1>5. CASE DialFails
  BY <1>5, CapAssumption DEF TypeOK, DialFails, connVars, userVars
<1> QED BY <1>1, <1>2, <1>3, <1>4, <1>5

LEMMA ControlSteps ==
  ASSUME IInv, FillPool \/ WriterEnds \/ Shutdown \/ StoperClosesConn \/ CloseSendCh \/ ClosePool
               \/ Drained \/ Gone \/ CloseListeners \/ DialFails
  PROVE  IInv'
<1>1. TypeOK'
  BY ControlType DEF IInv
<1>2. UNCHANGED <<connVars, userVars>> /\ (PoolClosed => PoolClosed')
  BY DEF FillPool, WriterEnds, Shutdown, StoperClosesConn, CloseSendCh, ClosePool, Drained, Gone, CloseListeners,
         DialFails, PoolClosed, SendClosed, ctlVars
<1> QED BY <1>1, <1>2, QuietSteps

\* A drained connection was in the pool: nobody held it or was told to start.
LEMMA DrainStep ==
  ASSUME IInv, NEW w \in WorkConn, Drain(w)
  PROVE  IInv'
<1> USE DEF Drain, userVars, IInv
<1>1. TypeOK'
  BY DEF TypeOK, Stage
<1>2. HeldInv' /\ Unique' /\ PoolInv'
  BY DEF TypeOK, HeldInv, Unique, PoolInv, Holds
<1>3. StartedInv' /\ ClientInv'
  BY DEF TypeOK, StartedInv, ClientInv, PoolInv
<1>4. TriesInv'
  BY DEF TypeOK, TriesInv, HeldInv, Holds
<1>5. NoOrphanConn'
  BY DEF NoOrphanConn, PoolClosed, SendClosed
<1> QED BY <1>1, <1>2, <1>3, <1>4, <1>5

\* A new connection is nowhere yet.
LEMMA AnswerStep ==
  ASSUME IInv, NEW w \in WorkConn, AnswerReq(w)
  PROVE  IInv'
<1> USE DEF AnswerReq, userVars, IInv
<1>0. srv[w] = "none"
  BY DEF ClientInv
<1>1. TypeOK'
  BY CapAssumption DEF TypeOK, Stage
<1>2. HeldInv' /\ Unique' /\ PoolInv'
  BY <1>0 DEF TypeOK, HeldInv, Unique, PoolInv, Holds
<1>3. StartedInv' /\ ClientInv'
  BY <1>0 DEF TypeOK, StartedInv, ClientInv
<1>4. TriesInv'
  BY <1>0 DEF TypeOK, TriesInv, HeldInv, Holds
<1>5. NoOrphanConn'
  BY <1>0 DEF TypeOK, NoOrphanConn, PoolClosed, SendClosed
<1> QED BY <1>1, <1>2, <1>3, <1>4, <1>5

\* Steps of the client's end change cli only.
LEMMA ClientEndSteps ==
  ASSUME IInv, NEW w \in WorkConn, ServeWorkConn(w) \/ EndWorkConn(w)
  PROVE  IInv'
<1> USE DEF ServeWorkConn, EndWorkConn, userVars, ctlVars, IInv
<1>1. TypeOK'
  BY DEF TypeOK, Stage
<1>2. HeldInv' /\ Unique' /\ PoolInv' /\ StartedInv'
  BY DEF HeldInv, Unique, PoolInv, StartedInv, Holds
<1>3. ClientInv'
  BY DEF TypeOK, ClientInv
<1>4. TriesInv' /\ NoOrphanConn'
  BY DEF TriesInv, NoOrphanConn, PoolClosed, SendClosed
<1> QED BY <1>1, <1>2, <1>3, <1>4

\* Before it is registered a connection is nobody's; RegisterWorkConn puts it
\* into the pool, closes it, or, once the pool is closed, leaves it open.
LEMMA ConnSteps ==
  ASSUME IInv, NEW w \in WorkConn, ConnStep(w)
  PROVE  IInv'
<1> USE DEF IInv, ConnStep, HandleListener, RejectConn, AcceptConn, RegisterWorkConn, userVars, ctlVars
<1>0. /\ srv[w] \in {"accept", "read", "register"} /\ cli[w] # "none"
      /\ srv' \in {[srv EXCEPT ![w] = s] : s \in {"read", "closed", "register", "open"}}
      /\ pool' = pool \/ (pool' = pool \cup {w} /\ srv' = [srv EXCEPT ![w] = "open"])
      /\ srv' = [srv EXCEPT ![w] = "open"] => pool' = pool \cup {w} \/ PoolClosed
      /\ w \notin pool /\ w \notin started /\ \A u \in User : held[u] # w
      /\ UNCHANGED <<stage, writer, startReqs, sendCh, cli, started, user, held, tries, listening>>
  BY ConnAssumption DEF TypeOK, PoolInv, StartedInv, HeldInv, Holds, ClientInv
<1>1. TypeOK'
  BY <1>0 DEF TypeOK, Stage
<1>2. HeldInv' /\ Unique'
  BY <1>0 DEF TypeOK, HeldInv, Unique, Holds
<1>3. PoolInv'
  BY <1>0 DEF TypeOK, PoolInv
<1>4. StartedInv' /\ ClientInv'
  BY <1>0 DEF TypeOK, StartedInv, ClientInv
<1>5. TriesInv'
  BY <1>0 DEF TypeOK, TriesInv, HeldInv, Holds
<1>6. NoOrphanConn'
  BY <1>0 DEF TypeOK, NoOrphanConn, PoolClosed, SendClosed
<1> QED BY <1>1, <1>2, <1>3, <1>4, <1>5, <1>6

\* Steps of a handler that holds no connection: it only moves on.
LEMMA WaitingSteps ==
  ASSUME IInv, NEW u \in User,
         AcceptUser(u) \/ UserHook(u) \/ RequestWorkConn(u) \/ SendRequest(u) \/ GiveUp(u)
  PROVE  IInv'
<1> USE DEF AcceptUser, UserHook, RequestWorkConn, SendRequest, GiveUp, connVars, ctlVars, IInv
<1>0. /\ user[u] \in {"none", "hook", "get", "request", "wait"}
      /\ \E x \in {"hook", "get", "request", "wait", "ended"} : user' = [user EXCEPT ![u] = x]
      /\ UNCHANGED <<stage, writer, startReqs, pool, srv, cli, started, held, tries, listening>>
  BY DEF TypeOK
<1>1. TypeOK'
  <2>1. sendCh' \in 0..ChanCap
    BY CapAssumption DEF TypeOK, CanSend, SendReq
  <2> QED BY <1>0, <2>1 DEF TypeOK, Stage
<1>2. HeldInv' /\ Unique' /\ PoolInv'
  BY <1>0 DEF TypeOK, HeldInv, Unique, PoolInv, Holds
<1>3. StartedInv'
  BY <1>0 DEF TypeOK, StartedInv
<1>4. ClientInv' /\ TriesInv'
  BY <1>0 DEF TypeOK, ClientInv, TriesInv
<1>5. NoOrphanConn'
  BY <1>0 DEF NoOrphanConn, PoolClosed, SendClosed
<1> QED BY <1>1, <1>2, <1>3, <1>4, <1>5

\* The connection goes from the pool to the handler.
LEMMA TakeStep ==
  ASSUME IInv, NEW u \in User, NEW w \in WorkConn, TakeWorkConn(u, w)
  PROVE  IInv'
<1> USE DEF TakeWorkConn, ctlVars, IInv
<1>0. held[u] = NoConn /\ w # NoConn /\ \A v \in User : held[v] # w
  BY ConnAssumption DEF TypeOK, HeldInv, Holds
<1>1. TypeOK'
  BY DEF TypeOK, Stage
<1>2. HeldInv' /\ PoolInv'
  BY <1>0 DEF TypeOK, HeldInv, PoolInv, Holds
<1>3. Unique'
  BY <1>0 DEF TypeOK, Unique
<1>4. StartedInv'
  BY <1>0 DEF TypeOK, StartedInv
<1>5. ClientInv' /\ TriesInv'
  BY DEF TypeOK, ClientInv, TriesInv
<1>6. NoOrphanConn'
  <2> SUFFICES ASSUME ~PoolClosed, NEW x \in WorkConn, srv[x] = "open"
               PROVE  x \in pool' \/ \E v \in User : held'[v] = x
    BY DEF NoOrphanConn, PoolClosed, SendClosed
  <2>1. CASE x = w
    BY <2>1 DEF TypeOK
  <2>2. CASE x # w /\ x \in pool
    BY <2>2
  <2>3. CASE x # w /\ x \notin pool
    <3>1. PICK v \in User : held[v] = x
      BY <2>3 DEF NoOrphanConn
    <3>2. v # u
      BY <1>0, <3>1, ConnAssumption
    <3> QED BY <3>1, <3>2 DEF TypeOK
  <2> QED BY <2>1, <2>2, <2>3
<1> QED BY <1>1, <1>2, <1>3, <1>4, <1>5, <1>6

LEMMA ReplaceStep ==
  ASSUME IInv, NEW u \in User, Replace(u)
  PROVE  IInv'
<1> USE DEF Replace, connVars, IInv
<1>1. TypeOK'
  <2>1. sendCh' \in 0..ChanCap
    BY CapAssumption DEF TypeOK, CanSend, SendReq
  <2> QED BY <2>1 DEF TypeOK, Stage
<1>2. HeldInv' /\ Unique' /\ PoolInv'
  BY DEF TypeOK, HeldInv, Unique, PoolInv, Holds
<1>3. StartedInv'
  BY DEF TypeOK, StartedInv
<1>4. ClientInv' /\ TriesInv' /\ NoOrphanConn'
  BY DEF TypeOK, ClientInv, TriesInv, NoOrphanConn, PoolClosed, SendClosed
<1> QED BY <1>1, <1>2, <1>3, <1>4

\* StartWorkConn goes to an open connection that nobody else holds.
LEMMA StartStep ==
  ASSUME IInv, NEW u \in User, StartOK(u)
  PROVE  IInv'
<1> USE DEF StartOK, ctlVars, IInv
<1>0. held[u] \in WorkConn /\ srv[held[u]] = "open" /\ held[u] \notin pool
  BY DEF TypeOK, HeldInv, Holds
<1>1. TypeOK'
  BY <1>0 DEF TypeOK, Stage
<1>2. HeldInv'
  BY <1>0 DEF TypeOK, HeldInv, Holds, Unique
<1>3. Unique' /\ PoolInv'
  BY <1>0 DEF Unique, PoolInv
<1>4. StartedInv'
  BY <1>0 DEF TypeOK, StartedInv
<1>5. ClientInv' /\ TriesInv' /\ NoOrphanConn'
  BY <1>0 DEF TypeOK, ClientInv, TriesInv, NoOrphanConn, PoolClosed, SendClosed
<1> QED BY <1>1, <1>2, <1>3, <1>4, <1>5

\* A failed write closes the connection; the handler drops it, or keeps the
\* closed connection after its last attempt.
LEMMA StartFailsStep ==
  ASSUME IInv, NEW u \in User, StartFails(u)
  PROVE  IInv'
<1> USE DEF StartFails, ctlVars, IInv
<1>0. /\ held[u] \in WorkConn /\ srv[held[u]] = "open" /\ held[u] \notin pool
      /\ held[u] \notin started /\ tries[u] \in 0..PoolCount
      /\ srv' = [srv EXCEPT ![held[u]] = "closed"]
      /\ \A v \in User : v # u => held[v] # held[u]
  BY CapAssumption, ConnAssumption DEF TypeOK, HeldInv, Holds, TriesInv, Unique
<1>1. TypeOK'
  BY <1>0, CapAssumption DEF TypeOK, Stage
<1>2. HeldInv'
  BY <1>0, ConnAssumption DEF TypeOK, HeldInv, Holds
<1>3. Unique' /\ PoolInv'
  BY <1>0 DEF TypeOK, Unique, PoolInv
<1>4. StartedInv'
  BY <1>0 DEF TypeOK, StartedInv
<1>5. ClientInv'
  BY <1>0 DEF TypeOK, ClientInv
<1>6. TriesInv'
  <2> SUFFICES ASSUME NEW v \in User
               PROVE  /\ tries'[v] = PoolCount + 1 => user'[v] \in {"join", "ended"}
                      /\ user'[v] = "join" /\ srv'[held'[v]] # "open" => tries'[v] = PoolCount + 1
    BY DEF TriesInv
  <2>1. CASE v = u
    BY <1>0, <2>1, CapAssumption DEF TypeOK
  <2>2. CASE v # u
    BY <1>0, <2>2 DEF TypeOK, TriesInv, HeldInv, Holds
  <2> QED BY <2>1, <2>2
<1>7. NoOrphanConn'
  BY <1>0 DEF TypeOK, NoOrphanConn, PoolClosed, SendClosed
<1> QED BY <1>1, <1>2, <1>3, <1>4, <1>5, <1>6, <1>7

\* The end of a user closes the connection it held, and no other.
LEMMA EndStep ==
  ASSUME IInv, NEW u \in User, EndUser(u)
  PROVE  IInv'
<1> USE DEF EndUser, ctlVars, IInv
<1>0. /\ held[u] \in WorkConn /\ held[u] \notin pool
      /\ srv[held[u]] \in {"open", "closed"}
      /\ \A v \in User : v # u => held[v] # held[u]
  BY ConnAssumption DEF TypeOK, HeldInv, Holds, Unique
<1>1. TypeOK'
  BY <1>0 DEF TypeOK, Stage
<1>2. HeldInv'
  BY <1>0, ConnAssumption DEF TypeOK, HeldInv, Holds
<1>3. Unique' /\ PoolInv'
  BY <1>0 DEF TypeOK, Unique, PoolInv
<1>4. StartedInv'
  BY <1>0 DEF TypeOK, StartedInv
<1>5. ClientInv'
  BY <1>0 DEF TypeOK, ClientInv
<1>6. TriesInv'
  BY <1>0 DEF TypeOK, TriesInv, HeldInv, Holds
<1>7. NoOrphanConn'
  BY <1>0 DEF TypeOK, NoOrphanConn, PoolClosed, SendClosed
<1> QED BY <1>1, <1>2, <1>3, <1>4, <1>5, <1>6, <1>7

LEMMA NextIInv == IInv /\ [Next]_vars => IInv'
<1> SUFFICES ASSUME IInv, [Next]_vars PROVE IInv'
  OBVIOUS
<1>1. CASE ControlStep
  BY <1>1, ControlSteps, DrainStep DEF ControlStep
<1>2. CASE ClientStep
  BY <1>2, ControlSteps, AnswerStep, ClientEndSteps DEF ClientStep
<1>3. ASSUME NEW w \in WorkConn, ConnStep(w) PROVE IInv'
  BY <1>3, ConnSteps
<1>4. ASSUME NEW u \in User, AcceptUser(u) \/ UserStep(u) \/ EndUser(u) PROVE IInv'
  BY <1>4, WaitingSteps, TakeStep, ReplaceStep, StartStep, StartFailsStep, EndStep DEF UserStep
<1>5. CASE UNCHANGED vars
  <2>1. TypeOK'
    BY <1>5 DEF vars, ctlVars, connVars, userVars, IInv, TypeOK
  <2>2. PoolClosed => PoolClosed'
    BY <1>5 DEF vars, ctlVars, PoolClosed, SendClosed
  <2> QED BY <1>5, <2>1, <2>2, QuietSteps DEF vars
<1> QED BY <1>1, <1>2, <1>3, <1>4, <1>5 DEF Next

LEMMA Inductive == Spec => []IInv
BY InitIInv, NextIInv, PTL DEF Spec

-----------------------------------------------------------------------------
\* The state of the pool, its control, its connections and users keeps its type:
\* in particular sendCh never holds more than its capacity, and a handler makes
\* at most PoolCount + 1 attempts.
THEOREM TypeCorrect == Spec => []TypeOK
<1>1. IInv => TypeOK
  BY DEF IInv
<1> QED BY <1>1, Inductive, PTL

\* OneUserPerConn for any number of users and connections: no work connection of
\* a client ever carries two users (GetWorkConn, RegisterWorkConn, stoper).
THEOREM ConnsAreExclusive == Spec => []OneUserPerConn
<1>1. IInv => OneUserPerConn
  BY DEF IInv, TypeOK, HeldInv, Unique, PoolInv, StartedInv, ClientInv, OneUserPerConn
<1> QED BY <1>1, Inductive, PTL

\* NoOrphanConn for any number of users and connections: while the pool is
\* open, frps has every open work connection in it or in a handler's hands.
THEOREM NoConnIsLost == Spec => []NoOrphanConn
<1>1. IInv => NoOrphanConn
  BY DEF IInv
<1> QED BY <1>1, Inductive, PTL

\* JoinsOpenConn for any size of the pool: GetWorkConnFromPool hands out a
\* closed connection only after PoolCount + 1 failed writes.
THEOREM ClosedConnIsLastResort == Spec => []JoinsOpenConn
<1>1. IInv => JoinsOpenConn
  BY DEF IInv, TriesInv, JoinsOpenConn
<1> QED BY <1>1, Inductive, PTL
-----------------------------------------------------------------------------
(* The pool, the users and the stoper together implement ConnLedger.  A    *)
(* connection is fresh until RegisterWorkConn has decided about it, it is  *)
(* offered while it is in the pool and given while a user holds it.        *)
Unregistered == {w \in WorkConn : srv[w] \in {"none", "accept", "read", "register"}}
InHand == {p \in WorkConn \X User : held[p[2]] = p[1]}
Ledger == INSTANCE ConnLedger
  WITH Conn <- WorkConn, Holder <- User, fresh <- Unregistered, offered <- pool, given <- InHand

LEMMA LedgerInit == Init => Ledger!Init
<1> SUFFICES ASSUME Init PROVE Ledger!Init
  OBVIOUS
<1>1. Unregistered = WorkConn
  BY DEF Init, Unregistered
<1>2. InHand = {}
  BY ConnAssumption DEF Init, InHand
<1> QED BY <1>1, <1>2 DEF Ledger!Init, Init

\* A step that moves no connection between the three.
LEMMA LedgerStutter ==
  ASSUME TypeOK, UNCHANGED <<pool, held>>, UNCHANGED srv \/ Unregistered' = Unregistered
  PROVE  UNCHANGED Ledger!ledgerVars
BY DEF Ledger!ledgerVars, Unregistered, InHand

LEMMA LedgerConn ==
  ASSUME IInv, NEW w \in WorkConn, ConnStep(w)
  PROVE  [Ledger!Next]_Ledger!ledgerVars
<1> USE DEF IInv
<1>1. held' = held /\ srv[w] \in {"accept", "read", "register"}
  BY DEF ConnStep, HandleListener, RejectConn, AcceptConn, RegisterWorkConn, userVars
<1>2. InHand' = InHand /\ w \in Unregistered
  BY <1>1 DEF InHand, Unregistered
<1>3. CASE (srv' = [srv EXCEPT ![w] = "read"] \/ srv' = [srv EXCEPT ![w] = "register"]) /\ pool' = pool
  <2>1. Unregistered' = Unregistered
    BY <1>1, <1>3 DEF Unregistered, TypeOK
  <2> QED BY <1>2, <1>3, <2>1 DEF Ledger!ledgerVars
<1>4. CASE (srv' = [srv EXCEPT ![w] = "closed"] \/ srv' = [srv EXCEPT ![w] = "open"]) /\ pool' = pool
  <2>1. Unregistered' = Unregistered \ {w}
    BY <1>1, <1>4 DEF Unregistered, TypeOK
  <2>2. Ledger!Refuse(w)
    BY <1>2, <1>4, <2>1 DEF Ledger!Refuse
  <2> QED BY <2>2 DEF Ledger!Next
<1>5. CASE srv' = [srv EXCEPT ![w] = "open"] /\ pool' = pool \cup {w}
  <2>1. Unregistered' = Unregistered \ {w}
    BY <1>1, <1>5 DEF Unregistered, TypeOK
  <2>2. Ledger!Offer(w)
    BY <1>2, <1>5, <2>1 DEF Ledger!Offer
  <2> QED BY <2>2 DEF Ledger!Next
<1> QED BY <1>3, <1>4, <1>5 DEF ConnStep, HandleListener, RejectConn, AcceptConn, RegisterWorkConn

LEMMA LedgerTake ==
  ASSUME IInv, NEW u \in User, NEW w \in WorkConn, TakeWorkConn(u, w)
  PROVE  Ledger!Next
<1> USE DEF IInv
<1>1. /\ held[u] = NoConn /\ w \in pool /\ pool' = pool \ {w} /\ srv' = srv
      /\ held' = [held EXCEPT ![u] = w]
  BY DEF TakeWorkConn, HeldInv, Holds, TypeOK
<1>2. Unregistered' = Unregistered
  BY <1>1 DEF Unregistered
<1>3. \A v \in WorkConn : <<v, u>> \notin InHand
  BY <1>1, ConnAssumption DEF InHand
<1>4. InHand' = InHand \union {<<w, u>>}
  <2>1. \A v \in User : held'[v] = IF v = u THEN w ELSE held[v]
    BY <1>1 DEF TypeOK
  <2> QED BY <1>1, <2>1, ConnAssumption DEF InHand
<1>5. Ledger!Give(w, u)
  BY <1>1, <1>2, <1>3, <1>4 DEF Ledger!Give
<1> QED BY <1>5 DEF Ledger!Next

\* A user gives up the connection it holds.
LEMMA LedgerBack ==
  ASSUME IInv, NEW u \in User, held[u] \in WorkConn, held' = [held EXCEPT ![u] = NoConn],
         pool' = pool, srv[held[u]] \in {"open", "closed"},
         srv' = [srv EXCEPT ![held[u]] = "closed"]
  PROVE  Ledger!Next
<1> USE DEF IInv
<1>1. Unregistered' = Unregistered
  BY DEF Unregistered, TypeOK
<1>2. <<held[u], u>> \in InHand
  BY DEF InHand
<1>3. \A v \in User : held'[v] = IF v = u THEN NoConn ELSE held[v]
  BY DEF TypeOK
<1>4. InHand' = InHand \ {<<held[u], u>>}
  BY <1>3, ConnAssumption DEF InHand
<1>5. Ledger!GiveBack(held[u], u)
  BY <1>1, <1>2, <1>4 DEF Ledger!GiveBack
<1> QED BY <1>5 DEF Ledger!Next

LEMMA LedgerUser ==
  ASSUME IInv, NEW u \in User, AcceptUser(u) \/ UserStep(u) \/ EndUser(u)
  PROVE  [Ledger!Next]_Ledger!ledgerVars
<1> USE DEF IInv
<1>1. CASE \E w \in WorkConn : TakeWorkConn(u, w)
  BY <1>1, LedgerTake
<1>2. CASE EndUser(u)
  <2>1. held[u] \in WorkConn /\ srv[held[u]] \in {"open", "closed"}
    BY <1>2 DEF EndUser, TypeOK, HeldInv, Holds
  <2> QED BY <1>2, <2>1, LedgerBack DEF EndUser
<1>3. CASE StartFails(u)
  <2>1. held[u] \in WorkConn /\ srv[held[u]] = "open"
    BY <1>3 DEF StartFails, TypeOK, HeldInv, Holds
  <2>2. CASE held' = [held EXCEPT ![u] = NoConn]
    BY <1>3, <2>1, <2>2, LedgerBack DEF StartFails
  <2>3. CASE UNCHANGED held
    <3>1. Unregistered' = Unregistered
      BY <1>3, <2>1 DEF StartFails, Unregistered, TypeOK
    <3> QED BY <1>3, <2>3, <3>1, LedgerStutter DEF StartFails
  <2> QED BY <1>3, <2>2, <2>3 DEF StartFails
<1>4. CASE \/ AcceptUser(u) \/ UserHook(u) \/ RequestWorkConn(u) \/ SendRequest(u) \/ GiveUp(u)
           \/ Replace(u) \/ StartOK(u)
  <2>1. UNCHANGED <<pool, held, srv>>
    BY <1>4 DEF AcceptUser, UserHook, RequestWorkConn, SendRequest, GiveUp, Replace, StartOK,
       connVars
  <2> QED BY <2>1, LedgerStutter
<1> QED BY <1>1, <1>2, <1>3, <1>4 DEF UserStep

LEMMA LedgerStep == IInv /\ [Next]_vars => [Ledger!Next]_Ledger!ledgerVars
<1> SUFFICES ASSUME IInv, [Next]_vars PROVE [Ledger!Next]_Ledger!ledgerVars
  OBVIOUS
<1> USE DEF IInv
<1>1. ASSUME UNCHANGED <<pool, held, srv>> PROVE [Ledger!Next]_Ledger!ledgerVars
  BY <1>1, LedgerStutter
<1>2. CASE FillPool \/ WriterEnds \/ Shutdown \/ StoperClosesConn \/ CloseSendCh \/ ClosePool \/ Drained \/ Gone
           \/ CloseListeners \/ DialFails \/ UNCHANGED vars
  BY <1>1, <1>2 DEF FillPool, WriterEnds, Shutdown, StoperClosesConn, CloseSendCh, ClosePool, Drained, Gone,
     CloseListeners, DialFails, vars, connVars, userVars
<1>3. ASSUME NEW w \in WorkConn, Drain(w) PROVE [Ledger!Next]_Ledger!ledgerVars
  <2>1. w \in pool /\ pool' = pool \ {w} /\ held' = held
    BY <1>3 DEF Drain, userVars
  <2>2. Unregistered' = Unregistered
    BY <1>3 DEF Drain, Unregistered, TypeOK, PoolInv
  <2>3. Ledger!ThrowAway(w)
    BY <2>1, <2>2 DEF Ledger!ThrowAway, InHand
  <2> QED BY <2>3 DEF Ledger!Next
<1>4. ASSUME NEW w \in WorkConn, AnswerReq(w) PROVE [Ledger!Next]_Ledger!ledgerVars
  <2>1. srv[w] = "none" /\ UNCHANGED <<pool, held>>
    BY <1>4 DEF AnswerReq, ClientInv, userVars
  <2>2. Unregistered' = Unregistered
    BY <1>4, <2>1 DEF AnswerReq, Unregistered, TypeOK
  <2> QED BY <2>1, <2>2, LedgerStutter
<1>5. ASSUME NEW w \in WorkConn, ServeWorkConn(w) \/ EndWorkConn(w)
      PROVE  [Ledger!Next]_Ledger!ledgerVars
  BY <1>1, <1>5 DEF ServeWorkConn, EndWorkConn, userVars
<1>6. ASSUME NEW w \in WorkConn, ConnStep(w) PROVE [Ledger!Next]_Ledger!ledgerVars
  BY <1>6, LedgerConn
<1>7. ASSUME NEW u \in User, AcceptUser(u) \/ UserStep(u) \/ EndUser(u)
      PROVE  [Ledger!Next]_Ledger!ledgerVars
  BY <1>7, LedgerUser
<1> QED BY <1>2, <1>3, <1>4, <1>5, <1>6, <1>7 DEF Next, ControlStep, ClientStep

\* The work connections are handed over as ConnLedger says: in its whole life each goes
\* through the pool once at most and to one user at most, also when receives from the pool,
\* failed writes of StartWorkConn, the drain of the stoper and late registrations cross.
THEOREM HandedOverOnce == Spec => Ledger!Spec
<1>1. Init => Ledger!Init
  BY LedgerInit
<1>2. IInv /\ [Next]_vars => [Ledger!Next]_Ledger!ledgerVars
  BY LedgerStep
<1> QED BY Inductive, <1>1, <1>2, PTL DEF Spec, Ledger!Spec

-----------------------------------------------------------------------------
(* A user connection on its way to Join: where it can be held up, and how  *)
(* many steps it has to make.                                              *)

\* A goroutine that waits for room in sendCh waits for the writer, which has a message
\* to take, or for a stoper that has not closed the channel.
SendWaitsFor ==
  ~CanSend => (writer = "on" /\ sendCh > 0) \/ stage \in {"stop", "closeFailed", "wait"}

\* At a jammed sendCh nobody moves until the stoper closes it, and a stoper that could
\* not close the connection never does.
OnlyStoperFrees ==
  Jammed =>
    /\ Jammed' \/ (stage = "wait" /\ stage' = "sendClosed")
    /\ stage = "closeFailed" => stage' = "closeFailed"
    /\ \A u \in User : user[u] \in {"request", "replace"} => user'[u] = user[u]

\* The positions of handleUserTCPConnection, and how many it has left in one
\* round of GetWorkConnFromPool.
StepsLeft(s) ==
  IF s = "none" THEN 8 ELSE IF s = "hook" THEN 7 ELSE IF s = "get" THEN 6
  ELSE IF s = "request" THEN 5 ELSE IF s = "wait" THEN 4 ELSE IF s = "replace" THEN 3
  ELSE IF s = "write" THEN 2 ELSE IF s = "join" THEN 1 ELSE 0

\* A round that failed leaves one attempt less.
Rank(u) == 9 * (PoolCount + 1 - tries[u]) + StepsLeft(user[u])

\* Every step of a user's goroutine brings it closer to its end.
Closer ==
  \A u \in User :
    /\ Rank(u) \in 0..(9 * PoolCount + 17)
    /\ UNCHANGED <<user[u], tries[u]>> \/ Rank(u)' < Rank(u)

\* GetWorkConn is held up at sendCh by a writer that is at work or by a shutdown that
\* has begun, and by nothing else: a writer is never gone from a control that runs on
\* (control.go:281, 303 against the writer and the stoper).
THEOREM SendersWaitForShutdown == Spec => []SendWaitsFor
<1>1. Init => (writer = "off" => stage # "run")
  BY DEF Init
<1>2. TypeOK /\ (writer = "off" => stage # "run") /\ [Next]_vars => (writer = "off" => stage # "run")'
  <2> SUFFICES ASSUME TypeOK, writer = "off" => stage # "run", [Next]_vars
               PROVE  (writer = "off" => stage # "run")'
    OBVIOUS
  <2>1. CASE ControlStep
    BY <2>1 DEF ControlStep, FillPool, WriterEnds, Shutdown, StoperClosesConn, CloseSendCh, ClosePool, Drained, Gone,
       CloseListeners, Drain, ctlVars
  <2>2. CASE UNCHANGED <<stage, writer>>
    BY <2>2
  <2>3. ControlStep \/ UNCHANGED <<stage, writer>>
    BY DEF Next, ClientStep, DialFails, AnswerReq, ServeWorkConn, EndWorkConn, ConnStep, HandleListener,
       RejectConn, AcceptConn, RegisterWorkConn, AcceptUser, UserStep, UserHook, RequestWorkConn,
       SendRequest, GiveUp, Replace, StartOK, StartFails, TakeWorkConn, EndUser, vars, ctlVars
  <2> QED BY <2>1, <2>2, <2>3
<1>3. TypeOK /\ (writer = "off" => stage # "run") => SendWaitsFor
  BY CapAssumption DEF SendWaitsFor, CanSend, SendClosed, TypeOK
<1>4. IInv => TypeOK
  BY DEF IInv
<1> QED BY Inductive, <1>1, <1>2, <1>3, <1>4, PTL DEF Spec

LEMMA JamStep == IInv /\ [Next]_vars => OnlyStoperFrees
<1> SUFFICES ASSUME IInv, [Next]_vars, Jammed
             PROVE  /\ Jammed' \/ (stage = "wait" /\ stage' = "sendClosed")
                    /\ stage = "closeFailed" => stage' = "closeFailed"
                    /\ \A u \in User : user[u] \in {"request", "replace"} => user'[u] = user[u]
  BY DEF OnlyStoperFrees
<1>0. writer = "off" /\ sendCh = ChanCap /\ ~SendClosed /\ ~CanSend /\ ChanCap \in Nat
  BY CapAssumption DEF Jammed, CanSend
<1>1. CASE /\ UNCHANGED <<writer, sendCh, user>>
           /\ \/ stage' = stage
              \/ stage = "run" /\ stage' = "stop"
              \/ stage = "stop" /\ stage' \in {"wait", "closeFailed"}
              \/ stage = "wait" /\ stage' = "sendClosed"
  BY <1>0, <1>1 DEF Jammed, SendClosed
<1>2. CASE ControlStep
  BY <1>0, <1>1, <1>2 DEF ControlStep, FillPool, WriterEnds, Shutdown, StoperClosesConn, CloseSendCh,
     ClosePool, Drained, Gone, CloseListeners, Drain, SendClosed, ctlVars, userVars
<1>3. CASE ClientStep \/ (\E w \in WorkConn : ConnStep(w)) \/ UNCHANGED vars
  BY <1>0, <1>1, <1>3 DEF ClientStep, DialFails, AnswerReq, ServeWorkConn, EndWorkConn, ConnStep,
     HandleListener, RejectConn, AcceptConn, RegisterWorkConn, vars, ctlVars, userVars
<1>4. ASSUME NEW u \in User, AcceptUser(u) \/ UserStep(u) \/ EndUser(u)
      PROVE  /\ Jammed' /\ stage' = stage
             /\ \A v \in User : user[v] \in {"request", "replace"} => user'[v] = user[v]
  <2>1. /\ user[u] \notin {"request", "replace"}
        /\ \E x \in {user'[u]} : user' = [user EXCEPT ![u] = x]
        /\ UNCHANGED <<stage, writer, sendCh>>
    BY <1>0, <1>4 DEF IInv, TypeOK, AcceptUser, UserStep, UserHook, RequestWorkConn, SendRequest,
       GiveUp, Replace, StartOK, StartFails, TakeWorkConn, EndUser, ctlVars
  <2> QED BY <1>0, <2>1 DEF IInv, TypeOK, Jammed, SendClosed
<1> QED BY <1>2, <1>3, <1>4 DEF Next

\* A full sendCh without a writer holds every sender until the stoper closes it, and for
\* good when the stoper returned at control.go:384: the timeout of GetWorkConn begins
\* only after its send.  This is the exception of UserHeldOnlyAtSend.
THEOREM JamEndsWithStoper == Spec => [][OnlyStoperFrees]_vars
<1>1. IInv /\ [Next]_vars => [OnlyStoperFrees]_vars
  BY JamStep
<1> QED BY Inductive, <1>1, PTL DEF Spec

\* Every step of a user comes before every other one it has left.
LEMMA CloserStep == IInv /\ [Next]_vars => Closer
<1> SUFFICES ASSUME IInv, [Next]_vars, NEW u \in User
             PROVE  /\ Rank(u) \in 0..(9 * PoolCount + 17)
                    /\ UNCHANGED <<user[u], tries[u]>> \/ Rank(u)' < Rank(u)
  BY DEF Closer
<1>1. /\ PoolCount \in Nat /\ tries[u] \in 0..(PoolCount + 1)
      /\ user[u] \in {"none", "hook", "get", "request", "wait", "replace", "write", "join", "ended"}
  BY CapAssumption DEF IInv, TypeOK
<1>2. Rank(u) \in 0..(9 * PoolCount + 17)
  BY <1>1 DEF Rank, StepsLeft
<1>3. CASE UNCHANGED <<user[u], tries[u]>>
  BY <1>2, <1>3
<1>4. CASE tries'[u] = tries[u] /\ StepsLeft(user'[u]) < StepsLeft(user[u])
  BY <1>1, <1>2, <1>4 DEF Rank, StepsLeft
<1>5. ASSUME NEW v \in User, AcceptUser(v) \/ UserStep(v) \/ EndUser(v), v # u
      PROVE  UNCHANGED <<user[u], tries[u]>>
  BY <1>5 DEF IInv, TypeOK, AcceptUser, UserStep, UserHook, RequestWorkConn, SendRequest, GiveUp,
     Replace, StartOK, StartFails, TakeWorkConn, EndUser
<1>6. CASE StartFails(u)
  <2>1. /\ user[u] = "write" /\ tries'[u] = tries[u] + 1
        /\ user'[u] = "get" \/ user'[u] = "join"
    BY <1>6 DEF StartFails, IInv, TypeOK
  <2> QED BY <1>1, <1>2, <2>1 DEF Rank, StepsLeft
<1>7. CASE \/ AcceptUser(u) \/ UserHook(u) \/ RequestWorkConn(u) \/ SendRequest(u) \/ GiveUp(u)
           \/ Replace(u) \/ StartOK(u) \/ EndUser(u) \/ \E w \in WorkConn : TakeWorkConn(u, w)
  <2>1. tries'[u] = tries[u]
    BY <1>7 DEF AcceptUser, UserHook, RequestWorkConn, SendRequest, GiveUp, Replace, StartOK,
       TakeWorkConn, EndUser
  <2>2. StepsLeft(user'[u]) < StepsLeft(user[u])
    BY <1>7 DEF IInv, TypeOK, AcceptUser, UserHook, RequestWorkConn, SendRequest, GiveUp, Replace,
       StartOK, TakeWorkConn, EndUser, StepsLeft
  <2> QED BY <1>4, <2>1, <2>2
<1>8. CASE ControlStep \/ ClientStep \/ (\E w \in WorkConn : ConnStep(w)) \/ UNCHANGED vars
  BY <1>3, <1>8 DEF ControlStep, ClientStep, ConnStep, FillPool, WriterEnds, Shutdown, StoperClosesConn, CloseSendCh,
     ClosePool, Drained, Gone, CloseListeners, Drain, DialFails, AnswerReq, ServeWorkConn,
     EndWorkConn, HandleListener, RejectConn, AcceptConn, RegisterWorkConn, vars, userVars
<1> QED BY <1>3, <1>5, <1>6, <1>7, <1>8 DEF Next, UserStep

\* handleUserTCPConnection makes at most 9 * PoolCount + 17 steps, whatever the
\* others do in between, since a work connection that fails costs one of PoolCount + 1
\* attempts and nothing ever gives a user an attempt back.  With SendersWaitForShutdown
\* it is the safety part of UserHeldOnlyAtSend, for any number of users and any size of
\* the pool.
THEOREM UsersComeCloser == Spec => [][Closer]_vars
<1>1. IInv /\ [Next]_vars => [Closer]_vars
  BY CloserStep
<1> QED BY Inductive, <1>1, PTL DEF Spec
=============================================================================
