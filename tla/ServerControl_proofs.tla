------------------------ MODULE ServerControl_proofs ------------------------
(***************************************************************************)
(* Proofs about the control sessions, for any number of logins, run ids,   *)
(* proxy names and any channel capacity.                                   *)
(***************************************************************************)
EXTENDS ServerControl, FiniteSetTheorems, TLAPS

Registering == {"register", "exist", "run", "add", "record", "close"}

\* A goroutine that works on a message has one, and a login that waits has a
\* control to wait for.
MsgInHand ==
  \A c \in Control :
    /\ login[c] = "waitOld" => oldCtl[c] \in Control
    /\ reader[c] = "put" => readerMsg[c] \in Message
    /\ manager[c] \in Registering => managerMsg[c] \in Message

\* The stoper goes on only after the goroutine it waits for has ended, and no
\* goroutine runs before the control is started.
PhaseOrder ==
  \A c \in Control :
    /\ ReadChClosed(c) => reader[c] = "done"
    /\ SendChClosed(c) => manager[c] = "done"
    /\ stoper[c] \in {"closing", "released", "drainFailed"} => writer[c] = "done"
    /\ stoper[c] # "closing" => closing[c] = {}
    /\ ~Started(c) => /\ reader[c] = "off" /\ writer[c] = "off"
                      /\ manager[c] = "off" /\ stoper[c] = "off"

\* The name a control is registering is not one of its own.
FreshName ==
  \A c \in Control :
    manager[c] \in {"run", "add", "record"} => managerMsg[c].name \notin proxies[c]

\* The reservation of the registration a control is in.
Reserved(c) ==
  IF manager[c] \in {"exist", "run", "add", "record"}
  THEN UsedPortsNum(managerMsg[c].name) ELSE 0

PortCount ==
  /\ \A c \in Control : IsFiniteSet(proxies[c])
  /\ MaxPortsPerClient > 0 =>
       \A c \in Control :
         /\ portsUsed[c] = Cardinality(proxies[c] \cap PortName) + Reserved(c)
         /\ portsUsed[c] <= MaxPortsPerClient

IInv ==
  TypeOK /\ MsgInHand /\ PhaseOrder /\ NameOwnership /\ FreshName /\ PortCount

USE DEF loginVars, readerVars, writerVars, mgrVars, pxyVars, stopVars

-----------------------------------------------------------------------------
\* The inductive invariant holds when no client has logged in.
LEMMA InitIInv == Init => IInv
<1> SUFFICES ASSUME Init PROVE IInv
  OBVIOUS
<1> USE ControlAssumption, BoundAssumption DEF Init
<1>1. TypeOK
  BY DEF TypeOK, ManagerState, StoperState
<1>2. MsgInHand
  BY DEF MsgInHand, Registering
<1>3. PhaseOrder
  BY DEF PhaseOrder, ReadChClosed, SendChClosed, Started
<1>4. NameOwnership
  BY DEF NameOwnership, Holds
<1>5. FreshName
  BY DEF FreshName
<1>6. PortCount
  <2>1. IsFiniteSet({}) /\ Cardinality({}) = 0
    BY FS_EmptySet
  <2>2. {} \cap PortName = {}
    OBVIOUS
  <2> QED
    BY <2>1, <2>2 DEF PortCount, Reserved
<1> QED
  BY <1>1, <1>2, <1>3, <1>4, <1>5, <1>6 DEF IInv

\* Cardinality facts about the proxies of one control that count as ports.
LEMMA PortsOfProxies ==
  ASSUME NEW S, IsFiniteSet(S), NEW n
  PROVE  /\ Cardinality(S \cap PortName) \in Nat
         /\ n \in S => Cardinality((S \ {n}) \cap PortName)
                          = Cardinality(S \cap PortName) - UsedPortsNum(n)
         /\ n \notin S => Cardinality((S \cup {n}) \cap PortName)
                             = Cardinality(S \cap PortName) + UsedPortsNum(n)
         /\ IsFiniteSet(S \ {n}) /\ IsFiniteSet(S \cup {n})
<1> DEFINE P == S \cap PortName
<1>1. IsFiniteSet(P) /\ Cardinality(P) \in Nat
  BY FS_Intersection, FS_CardinalityType
<1>2. IsFiniteSet(S \ {n}) /\ IsFiniteSet(S \cup {n})
  BY FS_RemoveElement, FS_AddElement
<1>3. ASSUME n \in S
      PROVE  Cardinality((S \ {n}) \cap PortName) = Cardinality(P) - UsedPortsNum(n)
  <2>1. CASE n \in PortName
    <3>1. (S \ {n}) \cap PortName = P \ {n}
      OBVIOUS
    <3>2. n \in P
      BY <1>3, <2>1
    <3>3. Cardinality(P \ {n}) = Cardinality(P) - 1
      BY <1>1, <3>2, FS_RemoveElement
    <3> QED
      BY <2>1, <3>1, <3>3 DEF UsedPortsNum
  <2>2. CASE n \notin PortName
    <3>1. (S \ {n}) \cap PortName = P
      BY <2>2
    <3> QED
      BY <1>1, <2>2, <3>1 DEF UsedPortsNum
  <2> QED
    BY <2>1, <2>2
<1>4. ASSUME n \notin S
      PROVE  Cardinality((S \cup {n}) \cap PortName) = Cardinality(P) + UsedPortsNum(n)
  <2>1. CASE n \in PortName
    <3>1. (S \cup {n}) \cap PortName = P \cup {n}
      BY <2>1
    <3>2. n \notin P
      BY <1>4
    <3>3. Cardinality(P \cup {n}) = Cardinality(P) + 1
      BY <1>1, <3>2, FS_AddElement
    <3> QED
      BY <2>1, <3>1, <3>3 DEF UsedPortsNum
  <2>2. CASE n \notin PortName
    <3>1. (S \cup {n}) \cap PortName = P
      BY <2>2
    <3> QED
      BY <1>1, <2>2, <3>1 DEF UsedPortsNum
  <2> QED
    BY <2>1, <2>2
<1> QED
  BY <1>1, <1>2, <1>3, <1>4

\* What Rollback subtracts was charged before.
LEMMA RollbackNat ==
  ASSUME IInv, MaxPortsPerClient > 0, NEW c \in Control,
         \/ manager[c] \in {"exist", "run", "add"}
         \/ manager[c] = "close" /\ managerMsg[c].name \in proxies[c]
  PROVE  portsUsed[c] - UsedPortsNum(managerMsg[c].name) \in Nat
<1> DEFINE S == proxies[c]
           n == managerMsg[c].name
<1>1. IsFiniteSet(S) /\ portsUsed[c] = Cardinality(S \cap PortName) + Reserved(c)
  BY DEF IInv, PortCount
<1>2. /\ Cardinality(S \cap PortName) \in Nat
      /\ n \in S => /\ Cardinality((S \ {n}) \cap PortName)
                          = Cardinality(S \cap PortName) - UsedPortsNum(n)
                     /\ Cardinality((S \ {n}) \cap PortName) \in Nat
  BY <1>1, PortsOfProxies
<1>3. CASE manager[c] \in {"exist", "run", "add"}
  BY <1>1, <1>2, <1>3 DEF Reserved, UsedPortsNum
<1>4. CASE manager[c] = "close" /\ n \in S
  BY <1>1, <1>2, <1>4 DEF Reserved, UsedPortsNum
<1> QED
  BY <1>3, <1>4

\* Every message carries a proxy name.
LEMMA NameOfMsg == \A m \in Message : m.name \in Name
BY DEF Message

\* What an update of one control's set of names holds afterwards.
LEMMA SetUpdate ==
  ASSUME NEW f \in [Control -> SUBSET Name], NEW c \in Control, NEW n \in Name
  PROVE  /\ [f EXCEPT ![c] = @ \cup {n}] \in [Control -> SUBSET Name]
         /\ [f EXCEPT ![c] = @ \ {n}] \in [Control -> SUBSET Name]
<1>1. f[c] \cup {n} \in SUBSET Name
  OBVIOUS
<1>2. f[c] \ {n} \in SUBSET Name
  OBVIOUS
<1> QED
  BY <1>1, <1>2

\* Every step of every goroutine keeps the types.
LEMMA TypeStep == IInv /\ [Next]_vars => TypeOK'
<1> SUFFICES ASSUME IInv, [Next]_vars PROVE TypeOK'
  OBVIOUS
<1>a. TypeOK /\ MsgInHand
  BY DEF IInv
<1> USE ControlAssumption, NameAssumption, InboundAssumption, BoundAssumption
<1>1. ASSUME NEW c \in Control, WaitOld(c) PROVE TypeOK'
  BY <1>1, <1>a DEF WaitOld, TypeOK, MsgInHand
<1>2. ASSUME NEW c \in Control, Start(c) PROVE TypeOK'
  BY <1>2, <1>a DEF Start, TypeOK, ManagerState, StoperState
<1>3. ASSUME NEW c \in Control, Watch(c) PROVE TypeOK'
  BY <1>3, <1>a DEF Watch, Del, TypeOK, ManagerState, StoperState
<1>4. ASSUME NEW c \in Control, RefuseLogin(c) PROVE TypeOK'
  BY <1>4, <1>a DEF RefuseLogin, TypeOK, ManagerState, StoperState
<1>5. ASSUME NEW c \in Control, \E r \in RunID : Login(c, r) PROVE TypeOK'
  BY <1>5, <1>a DEF Login, TypeOK, ManagerState, StoperState
<1>6. ASSUME NEW c \in Control, ReadMsg(c) PROVE TypeOK'
  BY <1>6, <1>a DEF ReadMsg, TypeOK, ManagerState, StoperState
<1>7. ASSUME NEW c \in Control, ReadEOF(c) PROVE TypeOK'
  BY <1>7, <1>a DEF ReadEOF, ReaderExit, TypeOK, ManagerState, StoperState
<1>8. ASSUME NEW c \in Control, ReadError(c) PROVE TypeOK'
  BY <1>8, <1>a DEF ReadError, ReaderExit, TypeOK, ManagerState, StoperState
<1>9. ASSUME NEW c \in Control, SendReqWorkConn(c) PROVE TypeOK'
  BY <1>9, <1>a DEF SendReqWorkConn, TypeOK, ManagerState, StoperState
<1>10. ASSUME NEW c \in Control, WriteMsg(c) PROVE TypeOK'
  BY <1>10, <1>a DEF WriteMsg, TypeOK, ManagerState, StoperState
<1>11. ASSUME NEW c \in Control, HeartbeatTimeout(c) PROVE TypeOK'
  BY <1>11, <1>a DEF HeartbeatTimeout, ManagerExit, TypeOK, ManagerState, StoperState
<1>12. ASSUME NEW c \in Control, PutMsg(c) PROVE TypeOK'
  <2>1. Append(readCh[c], readerMsg[c]) \in Seq(Message)
    BY <1>12, <1>a DEF PutMsg, TypeOK, MsgInHand
  <2> QED
    BY <1>12, <1>a, <2>1 DEF PutMsg, TypeOK
<1>13. ASSUME NEW c \in Control, ReadClosed(c) PROVE TypeOK'
  BY <1>13, <1>a DEF ReadClosed, ReaderExit, TypeOK, ManagerState, StoperState
<1>14. ASSUME NEW c \in Control, WriteError(c) PROVE TypeOK'
  BY <1>14, <1>a DEF WriteError, TypeOK, ManagerState, StoperState
<1>15. ASSUME NEW c \in Control, WriterClosed(c) PROVE TypeOK'
  BY <1>15, <1>a DEF WriterClosed, TypeOK, ManagerState, StoperState
<1>16. ASSUME NEW c \in Control, Receive(c) PROVE TypeOK'
  BY <1>16, <1>a DEF Receive, Dispatch, TypeOK, ManagerState, StoperState
<1>17. ASSUME NEW c \in Control, ManagerClosed(c) PROVE TypeOK'
  BY <1>17, <1>a DEF ManagerClosed, ManagerExit, TypeOK, ManagerState, StoperState
<1>18. ASSUME NEW c \in Control, RejectPing(c) PROVE TypeOK'
  BY <1>18, <1>a DEF RejectPing, ManagerExit, TypeOK, ManagerState, StoperState
<1>19. ASSUME NEW c \in Control, Respond(c) PROVE TypeOK'
  BY <1>19, <1>a DEF Respond, TypeOK, ManagerState, StoperState
<1>20. ASSUME NEW c \in Control, RefuseProxy(c) PROVE TypeOK'
  BY <1>20, <1>a DEF RefuseProxy, RegisterFrame, TypeOK, ManagerState, StoperState
<1>21. ASSUME NEW c \in Control, ReservePorts(c) PROVE TypeOK'
  <2>0. managerMsg[c] \in Message => managerMsg[c].name \in Name
    BY NameOfMsg
  <2>1. portsUsed' \in [Control -> Nat]
    BY <1>21, <1>a DEF ReservePorts, RegisterFrame, ExceedsPorts, TypeOK, MsgInHand, UsedPortsNum
  <2>2. /\ proxies' \in [Control -> SUBSET Name]
        /\ running' \in [Control -> SUBSET Name]
        /\ pxyManager' \in [Name -> Control \cup {NoControl}]
    BY <1>21, <1>a, <2>0 DEF ReservePorts, RegisterFrame, ExceedsPorts, TypeOK, MsgInHand, Registering
  <2>3. \E p \in ManagerState : manager' = [manager EXCEPT ![c] = p]
    BY <1>21 DEF ReservePorts, RegisterFrame, ExceedsPorts, ManagerState
  <2>4. manager' \in [Control -> ManagerState]
    BY <1>a, <2>3 DEF TypeOK
  <2> QED
    BY <1>21, <1>a, <2>1, <2>2, <2>4 DEF ReservePorts, RegisterFrame, TypeOK
<1>22. ASSUME NEW c \in Control, CheckExist(c) PROVE TypeOK'
  <2>0. managerMsg[c] \in Message => managerMsg[c].name \in Name
    BY NameOfMsg
  <2>1. portsUsed' \in [Control -> Nat]
    <3>1. UNCHANGED portsUsed \/ Rollback(c)
      BY <1>22 DEF CheckExist
    <3>2. Rollback(c) => portsUsed' \in [Control -> Nat]
      BY <1>22, <1>a, RollbackNat DEF CheckExist, Rollback, TypeOK
    <3> QED
      BY <1>a, <3>1, <3>2 DEF TypeOK
  <2>2. /\ proxies' \in [Control -> SUBSET Name]
        /\ running' \in [Control -> SUBSET Name]
        /\ pxyManager' \in [Name -> Control \cup {NoControl}]
    BY <1>22, <1>a, <2>0 DEF CheckExist, RegisterFrame, Rollback, TypeOK, MsgInHand, Registering
  <2>3. \E p \in ManagerState : manager' = [manager EXCEPT ![c] = p]
    BY <1>22 DEF CheckExist, RegisterFrame, Rollback, ManagerState
  <2>4. manager' \in [Control -> ManagerState]
    BY <1>a, <2>3 DEF TypeOK
  <2> QED
    BY <1>22, <1>a, <2>1, <2>2, <2>4 DEF CheckExist, RegisterFrame, TypeOK
<1>23. ASSUME NEW c \in Control, RunProxy(c) PROVE TypeOK'
  <2>0. managerMsg[c] \in Message => managerMsg[c].name \in Name
    BY NameOfMsg
  <2>1. portsUsed' \in [Control -> Nat]
    <3>1. UNCHANGED portsUsed \/ Rollback(c)
      BY <1>23 DEF RunProxy
    <3>2. Rollback(c) => portsUsed' \in [Control -> Nat]
      BY <1>23, <1>a, RollbackNat DEF RunProxy, Rollback, TypeOK
    <3> QED
      BY <1>a, <3>1, <3>2 DEF TypeOK
  <2>2. /\ proxies' \in [Control -> SUBSET Name]
        /\ running' \in [Control -> SUBSET Name]
        /\ pxyManager' \in [Name -> Control \cup {NoControl}]
    <3>1. managerMsg[c].name \in Name
      BY <1>23, <1>a, <2>0 DEF RunProxy, MsgInHand, Registering
    <3>2. /\ UNCHANGED <<proxies, pxyManager>>
          /\ \/ UNCHANGED running
             \/ running' = [running EXCEPT ![c] = @ \cup {managerMsg[c].name}]
      BY <1>23 DEF RunProxy
    <3>3. proxies \in [Control -> SUBSET Name] /\ running \in [Control -> SUBSET Name]
      BY <1>a DEF TypeOK
    <3>4. [running EXCEPT ![c] = @ \cup {managerMsg[c].name}] \in [Control -> SUBSET Name]
      BY <3>1, <3>3, SetUpdate
    <3> QED
      BY <1>a, <3>2, <3>3, <3>4 DEF TypeOK
  <2>3. \E p \in ManagerState : manager' = [manager EXCEPT ![c] = p]
    BY <1>23 DEF RunProxy, RegisterFrame, Rollback, ManagerState
  <2>4. manager' \in [Control -> ManagerState]
    BY <1>a, <2>3 DEF TypeOK
  <2> QED
    BY <1>23, <1>a, <2>1, <2>2, <2>4 DEF RunProxy, RegisterFrame, TypeOK
<1>24. ASSUME NEW c \in Control, AddProxy(c) PROVE TypeOK'
  <2>0. managerMsg[c] \in Message => managerMsg[c].name \in Name
    BY NameOfMsg
  <2>1. portsUsed' \in [Control -> Nat]
    <3>1. UNCHANGED portsUsed \/ Rollback(c)
      BY <1>24 DEF AddProxy
    <3>2. Rollback(c) => portsUsed' \in [Control -> Nat]
      BY <1>24, <1>a, RollbackNat DEF AddProxy, Rollback, TypeOK
    <3> QED
      BY <1>a, <3>1, <3>2 DEF TypeOK
  <2>2. /\ proxies' \in [Control -> SUBSET Name]
        /\ running' \in [Control -> SUBSET Name]
        /\ pxyManager' \in [Name -> Control \cup {NoControl}]
    <3>1. managerMsg[c].name \in Name
      BY <1>24, <1>a, <2>0 DEF AddProxy, MsgInHand, Registering
    <3>2. /\ UNCHANGED proxies
          /\ \/ UNCHANGED running
             \/ running' = [running EXCEPT ![c] = @ \ {managerMsg[c].name}]
          /\ \/ UNCHANGED pxyManager
             \/ pxyManager' = [pxyManager EXCEPT ![managerMsg[c].name] = c]
      BY <1>24 DEF AddProxy
    <3>3. pxyManager' \in [Name -> Control \cup {NoControl}]
      BY <1>a, <3>1, <3>2 DEF TypeOK
    <3>4. proxies \in [Control -> SUBSET Name] /\ running \in [Control -> SUBSET Name]
      BY <1>a DEF TypeOK
    <3>5. [running EXCEPT ![c] = @ \ {managerMsg[c].name}] \in [Control -> SUBSET Name]
      BY <3>1, <3>4, SetUpdate
    <3> QED
      BY <3>2, <3>3, <3>4, <3>5
  <2>3. \E p \in ManagerState : manager' = [manager EXCEPT ![c] = p]
    BY <1>24 DEF AddProxy, RegisterFrame, Rollback, ManagerState
  <2>4. manager' \in [Control -> ManagerState]
    BY <1>a, <2>3 DEF TypeOK
  <2> QED
    BY <1>24, <1>a, <2>1, <2>2, <2>4 DEF AddProxy, RegisterFrame, TypeOK
<1>25. ASSUME NEW c \in Control, RecordProxy(c) PROVE TypeOK'
  <2>0. managerMsg[c] \in Message => managerMsg[c].name \in Name
    BY NameOfMsg
  <2>1. portsUsed' \in [Control -> Nat]
    BY <1>25, <1>a DEF RecordProxy, RegisterFrame, TypeOK, MsgInHand, UsedPortsNum
  <2>2. /\ proxies' \in [Control -> SUBSET Name]
        /\ running' \in [Control -> SUBSET Name]
        /\ pxyManager' \in [Name -> Control \cup {NoControl}]
    BY <1>25, <1>a, <2>0 DEF RecordProxy, RegisterFrame, TypeOK, MsgInHand, Registering
  <2>3. \E p \in ManagerState : manager' = [manager EXCEPT ![c] = p]
    BY <1>25 DEF RecordProxy, RegisterFrame, ManagerState
  <2>4. manager' \in [Control -> ManagerState]
    BY <1>a, <2>3 DEF TypeOK
  <2> QED
    BY <1>25, <1>a, <2>1, <2>2, <2>4 DEF RecordProxy, RegisterFrame, TypeOK
<1>26. ASSUME NEW c \in Control, CloseProxy(c) PROVE TypeOK'
  <2>0. managerMsg[c] \in Message => managerMsg[c].name \in Name
    BY NameOfMsg
  <2>1. portsUsed' \in [Control -> Nat]
    <3>1. \/ UNCHANGED portsUsed
          \/ managerMsg[c].name \in proxies[c] /\ Rollback(c)
      BY <1>26 DEF CloseProxy
    <3>2. managerMsg[c].name \in proxies[c] /\ Rollback(c) => portsUsed' \in [Control -> Nat]
      BY <1>26, <1>a, RollbackNat DEF CloseProxy, Rollback, TypeOK
    <3> QED
      BY <1>a, <3>1, <3>2 DEF TypeOK
  <2>2. /\ proxies' \in [Control -> SUBSET Name]
        /\ running' \in [Control -> SUBSET Name]
        /\ pxyManager' \in [Name -> Control \cup {NoControl}]
    <3>1. managerMsg[c].name \in Name
      BY <1>26, <1>a, <2>0 DEF CloseProxy, MsgInHand, Registering
    <3>2. \/ UNCHANGED pxyVars
          \/ /\ running' = [running EXCEPT ![c] = @ \ {managerMsg[c].name}]
             /\ pxyManager' = [pxyManager EXCEPT ![managerMsg[c].name] = NoControl]
             /\ proxies' = [proxies EXCEPT ![c] = @ \ {managerMsg[c].name}]
      BY <1>26 DEF CloseProxy
    <3>3. proxies \in [Control -> SUBSET Name] /\ running \in [Control -> SUBSET Name]
      BY <1>a DEF TypeOK
    <3>4. /\ [running EXCEPT ![c] = @ \ {managerMsg[c].name}] \in [Control -> SUBSET Name]
          /\ [proxies EXCEPT ![c] = @ \ {managerMsg[c].name}] \in [Control -> SUBSET Name]
      BY <3>1, <3>3, SetUpdate
    <3>5. pxyManager' \in [Name -> Control \cup {NoControl}]
      BY <1>a, <3>1, <3>2 DEF TypeOK
    <3> QED
      BY <3>2, <3>3, <3>4, <3>5
  <2>3. \E p \in ManagerState : manager' = [manager EXCEPT ![c] = p]
    BY <1>26 DEF CloseProxy, RegisterFrame, Rollback, ManagerState
  <2>4. manager' \in [Control -> ManagerState]
    BY <1>a, <2>3 DEF TypeOK
  <2> QED
    BY <1>26, <1>a, <2>1, <2>2, <2>4 DEF CloseProxy, RegisterFrame, TypeOK
<1>27. ASSUME NEW c \in Control, StopConn(c) PROVE TypeOK'
  BY <1>27, <1>a DEF StopConn, StoperFrame, TypeOK, ManagerState, StoperState
<1>28. ASSUME NEW c \in Control, StopReader(c) PROVE TypeOK'
  BY <1>28, <1>a DEF StopReader, StoperFrame, TypeOK, ManagerState, StoperState
<1>29. ASSUME NEW c \in Control, StopManager(c) PROVE TypeOK'
  BY <1>29, <1>a DEF StopManager, StoperFrame, TypeOK, ManagerState, StoperState
<1>30. ASSUME NEW c \in Control, StopWriter(c) PROVE TypeOK'
  <2>1. closing' \in [Control -> SUBSET Name]
    BY <1>30, <1>a DEF StopWriter, TypeOK
  <2>2. \E p \in StoperState : stoper' = [stoper EXCEPT ![c] = p]
    BY <1>30 DEF StopWriter, StoperState
  <2>3. stoper' \in [Control -> StoperState]
    BY <1>a, <2>2 DEF TypeOK
  <2> QED
    BY <1>30, <1>a, <2>1, <2>3 DEF StopWriter, StoperFrame, TypeOK
<1>31. ASSUME NEW c \in Control, StopProxy(c) PROVE TypeOK'
  BY <1>31, <1>a DEF StopProxy, StoperFrame, TypeOK, ManagerState, StoperState
<1>32. ASSUME NEW c \in Control, StopDone(c) PROVE TypeOK'
  BY <1>32, <1>a DEF StopDone, StoperFrame, TypeOK, ManagerState, StoperState
<1>33. ASSUME NEW r \in RunID, CloseUser(r) PROVE TypeOK'
  BY <1>33, <1>a DEF CloseUser, TypeOK, ManagerState, StoperState
<1>34. ASSUME CloseAll PROVE TypeOK'
  BY <1>34, <1>a DEF CloseAll, TypeOK, ManagerState, StoperState
<1>35. ASSUME UNCHANGED vars PROVE TypeOK'
  BY <1>35, <1>a DEF vars, TypeOK, ManagerState, StoperState
<1> QED
  BY <1>1, <1>2, <1>3, <1>4, <1>5, <1>6, <1>7, <1>8, <1>9, <1>10, <1>11, <1>12, <1>13, <1>14, <1>15, <1>16, <1>17, <1>18, <1>19, <1>20, <1>21, <1>22, <1>23, <1>24, <1>25, <1>26, <1>27, <1>28, <1>29, <1>30, <1>31, <1>32, <1>33, <1>34, <1>35
  DEF Next, LoginStep, Environment, ReaderStep, WriterStep, ManagerStep, RegisterStep,
      StoperStep

\* No step takes away a message that a goroutine still works on.
LEMMA MsgStep == IInv /\ [Next]_vars => MsgInHand'
<1> SUFFICES ASSUME IInv, [Next]_vars PROVE MsgInHand'
  OBVIOUS
<1>a. TypeOK /\ MsgInHand
  BY DEF IInv
<1> USE ControlAssumption
<1>1. ASSUME NEW c \in Control, WaitOld(c) PROVE MsgInHand'
  BY <1>1, <1>a DEF WaitOld, TypeOK, MsgInHand, Registering
<1>2. ASSUME NEW c \in Control, Start(c) PROVE MsgInHand'
  BY <1>2, <1>a DEF Start, TypeOK, MsgInHand, Registering
<1>3. ASSUME NEW c \in Control, Watch(c) PROVE MsgInHand'
  BY <1>3, <1>a DEF Watch, Del, TypeOK, MsgInHand, Registering
<1>4. ASSUME NEW c \in Control, RefuseLogin(c) PROVE MsgInHand'
  BY <1>4, <1>a DEF RefuseLogin, TypeOK, MsgInHand, Registering
<1>5. ASSUME NEW c \in Control, \E r \in RunID : Login(c, r) PROVE MsgInHand'
  BY <1>5, <1>a DEF Login, TypeOK, MsgInHand, Registering
<1>6. ASSUME NEW c \in Control, ReadMsg(c) PROVE MsgInHand'
  BY <1>6, <1>a, InboundAssumption DEF ReadMsg, TypeOK, MsgInHand, Registering
<1>7. ASSUME NEW c \in Control, ReadEOF(c) PROVE MsgInHand'
  BY <1>7, <1>a DEF ReadEOF, ReaderExit, TypeOK, MsgInHand, Registering
<1>8. ASSUME NEW c \in Control, ReadError(c) PROVE MsgInHand'
  BY <1>8, <1>a DEF ReadError, ReaderExit, TypeOK, MsgInHand, Registering
<1>9. ASSUME NEW c \in Control, SendReqWorkConn(c) PROVE MsgInHand'
  BY <1>9, <1>a DEF SendReqWorkConn, TypeOK, MsgInHand, Registering
<1>10. ASSUME NEW c \in Control, WriteMsg(c) PROVE MsgInHand'
  BY <1>10, <1>a DEF WriteMsg, TypeOK, MsgInHand, Registering
<1>11. ASSUME NEW c \in Control, HeartbeatTimeout(c) PROVE MsgInHand'
  BY <1>11, <1>a DEF HeartbeatTimeout, ManagerExit, TypeOK, MsgInHand, Registering
<1>12. ASSUME NEW c \in Control, PutMsg(c) PROVE MsgInHand'
  BY <1>12, <1>a DEF PutMsg, TypeOK, MsgInHand, Registering
<1>13. ASSUME NEW c \in Control, ReadClosed(c) PROVE MsgInHand'
  BY <1>13, <1>a DEF ReadClosed, ReaderExit, TypeOK, MsgInHand, Registering
<1>14. ASSUME NEW c \in Control, WriteError(c) PROVE MsgInHand'
  BY <1>14, <1>a DEF WriteError, TypeOK, MsgInHand, Registering
<1>15. ASSUME NEW c \in Control, WriterClosed(c) PROVE MsgInHand'
  BY <1>15, <1>a DEF WriterClosed, TypeOK, MsgInHand, Registering
<1>16. ASSUME NEW c \in Control, Receive(c) PROVE MsgInHand'
  BY <1>16, <1>a DEF Receive, Dispatch, TypeOK, MsgInHand, Registering
<1>17. ASSUME NEW c \in Control, ManagerClosed(c) PROVE MsgInHand'
  BY <1>17, <1>a DEF ManagerClosed, ManagerExit, TypeOK, MsgInHand, Registering
<1>18. ASSUME NEW c \in Control, RejectPing(c) PROVE MsgInHand'
  BY <1>18, <1>a DEF RejectPing, ManagerExit, TypeOK, MsgInHand, Registering
<1>19. ASSUME NEW c \in Control, Respond(c) PROVE MsgInHand'
  BY <1>19, <1>a DEF Respond, TypeOK, MsgInHand, Registering
<1>20. ASSUME NEW c \in Control, RefuseProxy(c) PROVE MsgInHand'
  BY <1>20, <1>a DEF RefuseProxy, RegisterFrame, TypeOK, MsgInHand, Registering
<1>21. ASSUME NEW c \in Control, ReservePorts(c) PROVE MsgInHand'
  BY <1>21, <1>a DEF ReservePorts, RegisterFrame, ExceedsPorts, TypeOK, MsgInHand, Registering
<1>22. ASSUME NEW c \in Control, CheckExist(c) PROVE MsgInHand'
  BY <1>22, <1>a DEF CheckExist, RegisterFrame, Rollback, TypeOK, MsgInHand, Registering
<1>23. ASSUME NEW c \in Control, RunProxy(c) PROVE MsgInHand'
  BY <1>23, <1>a DEF RunProxy, RegisterFrame, Rollback, TypeOK, MsgInHand, Registering
<1>24. ASSUME NEW c \in Control, AddProxy(c) PROVE MsgInHand'
  BY <1>24, <1>a DEF AddProxy, RegisterFrame, Rollback, TypeOK, MsgInHand, Registering
<1>25. ASSUME NEW c \in Control, RecordProxy(c) PROVE MsgInHand'
  BY <1>25, <1>a DEF RecordProxy, RegisterFrame, TypeOK, MsgInHand, Registering
<1>26. ASSUME NEW c \in Control, CloseProxy(c) PROVE MsgInHand'
  BY <1>26, <1>a DEF CloseProxy, RegisterFrame, Rollback, TypeOK, MsgInHand, Registering
<1>27. ASSUME NEW c \in Control, StopConn(c) PROVE MsgInHand'
  BY <1>27, <1>a DEF StopConn, StoperFrame, TypeOK, MsgInHand, Registering
<1>28. ASSUME NEW c \in Control, StopReader(c) PROVE MsgInHand'
  BY <1>28, <1>a DEF StopReader, StoperFrame, TypeOK, MsgInHand, Registering
<1>29. ASSUME NEW c \in Control, StopManager(c) PROVE MsgInHand'
  BY <1>29, <1>a DEF StopManager, StoperFrame, TypeOK, MsgInHand, Registering
<1>30. ASSUME NEW c \in Control, StopWriter(c) PROVE MsgInHand'
  BY <1>30, <1>a DEF StopWriter, StoperFrame, TypeOK, MsgInHand, Registering
<1>31. ASSUME NEW c \in Control, StopProxy(c) PROVE MsgInHand'
  BY <1>31, <1>a DEF StopProxy, StoperFrame, TypeOK, MsgInHand, Registering
<1>32. ASSUME NEW c \in Control, StopDone(c) PROVE MsgInHand'
  BY <1>32, <1>a DEF StopDone, StoperFrame, TypeOK, MsgInHand, Registering
<1>33. ASSUME NEW r \in RunID, CloseUser(r) PROVE MsgInHand'
  BY <1>33, <1>a DEF CloseUser, TypeOK, MsgInHand, Registering
<1>34. ASSUME CloseAll PROVE MsgInHand'
  BY <1>34, <1>a DEF CloseAll, TypeOK, MsgInHand, Registering
<1>35. ASSUME UNCHANGED vars PROVE MsgInHand'
  BY <1>35, <1>a DEF vars, TypeOK, MsgInHand, Registering
<1> QED
  BY <1>1, <1>2, <1>3, <1>4, <1>5, <1>6, <1>7, <1>8, <1>9, <1>10, <1>11, <1>12, <1>13, <1>14, <1>15, <1>16, <1>17, <1>18, <1>19, <1>20, <1>21, <1>22, <1>23, <1>24, <1>25, <1>26, <1>27, <1>28, <1>29, <1>30, <1>31, <1>32, <1>33, <1>34, <1>35
  DEF Next, LoginStep, Environment, ReaderStep, WriterStep, ManagerStep, RegisterStep,
      StoperStep

\* No step breaks the order in which the goroutines of a control end.
LEMMA PhaseStep == IInv /\ [Next]_vars => PhaseOrder'
<1> SUFFICES ASSUME IInv, [Next]_vars PROVE PhaseOrder'
  OBVIOUS
<1>a. TypeOK /\ PhaseOrder
  BY DEF IInv
<1> USE ControlAssumption
<1>1. ASSUME NEW c \in Control, WaitOld(c) PROVE PhaseOrder'
  BY <1>1, <1>a DEF WaitOld, TypeOK, PhaseOrder, ReadChClosed, SendChClosed, Started
<1>2. ASSUME NEW c \in Control, Start(c) PROVE PhaseOrder'
  BY <1>2, <1>a DEF Start, TypeOK, PhaseOrder, ReadChClosed, SendChClosed, Started
<1>3. ASSUME NEW c \in Control, Watch(c) PROVE PhaseOrder'
  BY <1>3, <1>a DEF Watch, Del, TypeOK, PhaseOrder, ReadChClosed, SendChClosed, Started
<1>4. ASSUME NEW c \in Control, RefuseLogin(c) PROVE PhaseOrder'
  BY <1>4, <1>a DEF RefuseLogin, TypeOK, PhaseOrder, ReadChClosed, SendChClosed, Started
<1>5. ASSUME NEW c \in Control, \E r \in RunID : Login(c, r) PROVE PhaseOrder'
  BY <1>5, <1>a DEF Login, TypeOK, PhaseOrder, ReadChClosed, SendChClosed, Started
<1>6. ASSUME NEW c \in Control, ReadMsg(c) PROVE PhaseOrder'
  BY <1>6, <1>a DEF ReadMsg, TypeOK, PhaseOrder, ReadChClosed, SendChClosed, Started
<1>7. ASSUME NEW c \in Control, ReadEOF(c) PROVE PhaseOrder'
  BY <1>7, <1>a DEF ReadEOF, ReaderExit, TypeOK, PhaseOrder, ReadChClosed, SendChClosed, Started
<1>8. ASSUME NEW c \in Control, ReadError(c) PROVE PhaseOrder'
  BY <1>8, <1>a DEF ReadError, ReaderExit, TypeOK, PhaseOrder, ReadChClosed, SendChClosed, Started
<1>9. ASSUME NEW c \in Control, SendReqWorkConn(c) PROVE PhaseOrder'
  BY <1>9, <1>a DEF SendReqWorkConn, TypeOK, PhaseOrder, ReadChClosed, SendChClosed, Started
<1>10. ASSUME NEW c \in Control, WriteMsg(c) PROVE PhaseOrder'
  BY <1>10, <1>a DEF WriteMsg, TypeOK, PhaseOrder, ReadChClosed, SendChClosed, Started
<1>11. ASSUME NEW c \in Control, HeartbeatTimeout(c) PROVE PhaseOrder'
  BY <1>11, <1>a DEF HeartbeatTimeout, ManagerExit, TypeOK, PhaseOrder, ReadChClosed, SendChClosed, Started
<1>12. ASSUME NEW c \in Control, PutMsg(c) PROVE PhaseOrder'
  BY <1>12, <1>a DEF PutMsg, TypeOK, PhaseOrder, ReadChClosed, SendChClosed, Started
<1>13. ASSUME NEW c \in Control, ReadClosed(c) PROVE PhaseOrder'
  BY <1>13, <1>a DEF ReadClosed, ReaderExit, TypeOK, PhaseOrder, ReadChClosed, SendChClosed, Started
<1>14. ASSUME NEW c \in Control, WriteError(c) PROVE PhaseOrder'
  BY <1>14, <1>a DEF WriteError, TypeOK, PhaseOrder, ReadChClosed, SendChClosed, Started
<1>15. ASSUME NEW c \in Control, WriterClosed(c) PROVE PhaseOrder'
  BY <1>15, <1>a DEF WriterClosed, TypeOK, PhaseOrder, ReadChClosed, SendChClosed, Started
<1>16. ASSUME NEW c \in Control, Receive(c) PROVE PhaseOrder'
  BY <1>16, <1>a DEF Receive, Dispatch, TypeOK, PhaseOrder, ReadChClosed, SendChClosed, Started
<1>17. ASSUME NEW c \in Control, ManagerClosed(c) PROVE PhaseOrder'
  BY <1>17, <1>a DEF ManagerClosed, ManagerExit, TypeOK, PhaseOrder, ReadChClosed, SendChClosed, Started
<1>18. ASSUME NEW c \in Control, RejectPing(c) PROVE PhaseOrder'
  BY <1>18, <1>a DEF RejectPing, ManagerExit, TypeOK, PhaseOrder, ReadChClosed, SendChClosed, Started
<1>19. ASSUME NEW c \in Control, Respond(c) PROVE PhaseOrder'
  BY <1>19, <1>a DEF Respond, TypeOK, PhaseOrder, ReadChClosed, SendChClosed, Started
<1>20. ASSUME NEW c \in Control, RefuseProxy(c) PROVE PhaseOrder'
  BY <1>20, <1>a DEF RefuseProxy, RegisterFrame, TypeOK, PhaseOrder, ReadChClosed, SendChClosed, Started
<1>21. ASSUME NEW c \in Control, ReservePorts(c) PROVE PhaseOrder'
  BY <1>21, <1>a DEF ReservePorts, RegisterFrame, ExceedsPorts, TypeOK, PhaseOrder, ReadChClosed, SendChClosed, Started
<1>22. ASSUME NEW c \in Control, CheckExist(c) PROVE PhaseOrder'
  BY <1>22, <1>a DEF CheckExist, RegisterFrame, Rollback, TypeOK, PhaseOrder, ReadChClosed, SendChClosed, Started
<1>23. ASSUME NEW c \in Control, RunProxy(c) PROVE PhaseOrder'
  BY <1>23, <1>a DEF RunProxy, RegisterFrame, Rollback, TypeOK, PhaseOrder, ReadChClosed, SendChClosed, Started
<1>24. ASSUME NEW c \in Control, AddProxy(c) PROVE PhaseOrder'
  BY <1>24, <1>a DEF AddProxy, RegisterFrame, Rollback, TypeOK, PhaseOrder, ReadChClosed, SendChClosed, Started
<1>25. ASSUME NEW c \in Control, RecordProxy(c) PROVE PhaseOrder'
  BY <1>25, <1>a DEF RecordProxy, RegisterFrame, TypeOK, PhaseOrder, ReadChClosed, SendChClosed, Started
<1>26. ASSUME NEW c \in Control, CloseProxy(c) PROVE PhaseOrder'
  BY <1>26, <1>a DEF CloseProxy, RegisterFrame, Rollback, TypeOK, PhaseOrder, ReadChClosed, SendChClosed, Started
<1>27. ASSUME NEW c \in Control, StopConn(c) PROVE PhaseOrder'
  BY <1>27, <1>a DEF StopConn, StoperFrame, TypeOK, PhaseOrder, ReadChClosed, SendChClosed, Started
<1>28. ASSUME NEW c \in Control, StopReader(c) PROVE PhaseOrder'
  BY <1>28, <1>a DEF StopReader, StoperFrame, TypeOK, PhaseOrder, ReadChClosed, SendChClosed, Started
<1>29. ASSUME NEW c \in Control, StopManager(c) PROVE PhaseOrder'
  BY <1>29, <1>a DEF StopManager, StoperFrame, TypeOK, PhaseOrder, ReadChClosed, SendChClosed, Started
<1>30. ASSUME NEW c \in Control, StopWriter(c) PROVE PhaseOrder'
  <2>1. /\ UNCHANGED <<login, reader, writer, manager>>
        /\ stoper[c] = "waitWriter" /\ writer[c] = "done"
    BY <1>30 DEF StopWriter, StoperFrame
  <2>2. CASE stoper' = [stoper EXCEPT ![c] = "closing"] /\ closing' = [closing EXCEPT ![c] = proxies[c]]
    BY <2>1, <2>2, <1>a DEF TypeOK, PhaseOrder, ReadChClosed, SendChClosed, Started
  <2>3. CASE stoper' = [stoper EXCEPT ![c] = "drainFailed"] /\ closing' = closing
    BY <2>1, <2>3, <1>a DEF TypeOK, PhaseOrder, ReadChClosed, SendChClosed, Started
  <2> QED BY <1>30, <2>2, <2>3 DEF StopWriter
<1>31. ASSUME NEW c \in Control, StopProxy(c) PROVE PhaseOrder'
  BY <1>31, <1>a DEF StopProxy, StoperFrame, TypeOK, PhaseOrder, ReadChClosed, SendChClosed, Started
<1>32. ASSUME NEW c \in Control, StopDone(c) PROVE PhaseOrder'
  BY <1>32, <1>a DEF StopDone, StoperFrame, TypeOK, PhaseOrder, ReadChClosed, SendChClosed, Started
<1>33. ASSUME NEW r \in RunID, CloseUser(r) PROVE PhaseOrder'
  BY <1>33, <1>a DEF CloseUser, TypeOK, PhaseOrder, ReadChClosed, SendChClosed, Started
<1>34. ASSUME CloseAll PROVE PhaseOrder'
  BY <1>34, <1>a DEF CloseAll, TypeOK, PhaseOrder, ReadChClosed, SendChClosed, Started
<1>35. ASSUME UNCHANGED vars PROVE PhaseOrder'
  BY <1>35, <1>a DEF vars, TypeOK, PhaseOrder, ReadChClosed, SendChClosed, Started
<1> QED
  BY <1>1, <1>2, <1>3, <1>4, <1>5, <1>6, <1>7, <1>8, <1>9, <1>10, <1>11, <1>12, <1>13, <1>14, <1>15, <1>16, <1>17, <1>18, <1>19, <1>20, <1>21, <1>22, <1>23, <1>24, <1>25, <1>26, <1>27, <1>28, <1>29, <1>30, <1>31, <1>32, <1>33, <1>34, <1>35
  DEF Next, LoginStep, Environment, ReaderStep, WriterStep, ManagerStep, RegisterStep,
      StoperStep

\* No step adds the name being registered to the control's own proxies
\* before RecordProxy does.
LEMMA FreshStep == IInv /\ [Next]_vars => FreshName'
<1> SUFFICES ASSUME IInv, [Next]_vars PROVE FreshName'
  OBVIOUS
<1>a. TypeOK /\ MsgInHand /\ PhaseOrder /\ FreshName /\ NameOwnership
  BY DEF IInv
<1> USE ControlAssumption
<1>1. ASSUME NEW c \in Control, WaitOld(c) PROVE FreshName'
  BY <1>1, <1>a DEF WaitOld, TypeOK, FreshName
<1>2. ASSUME NEW c \in Control, Start(c) PROVE FreshName'
  BY <1>2, <1>a DEF Start, TypeOK, FreshName
<1>3. ASSUME NEW c \in Control, Watch(c) PROVE FreshName'
  BY <1>3, <1>a DEF Watch, Del, TypeOK, FreshName
<1>4. ASSUME NEW c \in Control, RefuseLogin(c) PROVE FreshName'
  BY <1>4, <1>a DEF RefuseLogin, TypeOK, FreshName
<1>5. ASSUME NEW c \in Control, \E r \in RunID : Login(c, r) PROVE FreshName'
  BY <1>5, <1>a DEF Login, TypeOK, FreshName
<1>6. ASSUME NEW c \in Control, ReadMsg(c) PROVE FreshName'
  BY <1>6, <1>a DEF ReadMsg, TypeOK, FreshName
<1>7. ASSUME NEW c \in Control, ReadEOF(c) PROVE FreshName'
  BY <1>7, <1>a DEF ReadEOF, ReaderExit, TypeOK, FreshName
<1>8. ASSUME NEW c \in Control, ReadError(c) PROVE FreshName'
  BY <1>8, <1>a DEF ReadError, ReaderExit, TypeOK, FreshName
<1>9. ASSUME NEW c \in Control, SendReqWorkConn(c) PROVE FreshName'
  BY <1>9, <1>a DEF SendReqWorkConn, TypeOK, FreshName
<1>10. ASSUME NEW c \in Control, WriteMsg(c) PROVE FreshName'
  BY <1>10, <1>a DEF WriteMsg, TypeOK, FreshName
<1>11. ASSUME NEW c \in Control, HeartbeatTimeout(c) PROVE FreshName'
  BY <1>11, <1>a DEF HeartbeatTimeout, ManagerExit, TypeOK, FreshName
<1>12. ASSUME NEW c \in Control, PutMsg(c) PROVE FreshName'
  BY <1>12, <1>a DEF PutMsg, TypeOK, FreshName
<1>13. ASSUME NEW c \in Control, ReadClosed(c) PROVE FreshName'
  BY <1>13, <1>a DEF ReadClosed, ReaderExit, TypeOK, FreshName
<1>14. ASSUME NEW c \in Control, WriteError(c) PROVE FreshName'
  BY <1>14, <1>a DEF WriteError, TypeOK, FreshName
<1>15. ASSUME NEW c \in Control, WriterClosed(c) PROVE FreshName'
  BY <1>15, <1>a DEF WriterClosed, TypeOK, FreshName
<1>16. ASSUME NEW c \in Control, Receive(c) PROVE FreshName'
  BY <1>16, <1>a DEF Receive, Dispatch, TypeOK, FreshName
<1>17. ASSUME NEW c \in Control, ManagerClosed(c) PROVE FreshName'
  BY <1>17, <1>a DEF ManagerClosed, ManagerExit, TypeOK, FreshName
<1>18. ASSUME NEW c \in Control, RejectPing(c) PROVE FreshName'
  BY <1>18, <1>a DEF RejectPing, ManagerExit, TypeOK, FreshName
<1>19. ASSUME NEW c \in Control, Respond(c) PROVE FreshName'
  BY <1>19, <1>a DEF Respond, TypeOK, FreshName
<1>20. ASSUME NEW c \in Control, RefuseProxy(c) PROVE FreshName'
  BY <1>20, <1>a DEF RefuseProxy, RegisterFrame, TypeOK, FreshName
<1>21. ASSUME NEW c \in Control, ReservePorts(c) PROVE FreshName'
  BY <1>21, <1>a DEF ReservePorts, RegisterFrame, ExceedsPorts, TypeOK, FreshName
<1>22. ASSUME NEW c \in Control, CheckExist(c) PROVE FreshName'
  <2>1. managerMsg[c].name \in Name
    BY <1>22, <1>a, NameOfMsg DEF CheckExist, MsgInHand, Registering
  <2>2. stoper[c] \notin {"closing", "released"}
    BY <1>22, <1>a DEF CheckExist, PhaseOrder, SendChClosed
  <2>3. pxyManager[managerMsg[c].name] = NoControl => managerMsg[c].name \notin proxies[c]
    BY <1>a, <2>1, <2>2 DEF NameOwnership, Holds
  <2> QED
    BY <1>22, <1>a, <2>3 DEF CheckExist, RegisterFrame, Rollback, TypeOK, FreshName
<1>23. ASSUME NEW c \in Control, RunProxy(c) PROVE FreshName'
  BY <1>23, <1>a DEF RunProxy, RegisterFrame, Rollback, TypeOK, FreshName
<1>24. ASSUME NEW c \in Control, AddProxy(c) PROVE FreshName'
  BY <1>24, <1>a DEF AddProxy, RegisterFrame, Rollback, TypeOK, FreshName
<1>25. ASSUME NEW c \in Control, RecordProxy(c) PROVE FreshName'
  BY <1>25, <1>a DEF RecordProxy, RegisterFrame, TypeOK, FreshName
<1>26. ASSUME NEW c \in Control, CloseProxy(c) PROVE FreshName'
  BY <1>26, <1>a DEF CloseProxy, RegisterFrame, Rollback, TypeOK, FreshName
<1>27. ASSUME NEW c \in Control, StopConn(c) PROVE FreshName'
  BY <1>27, <1>a DEF StopConn, StoperFrame, TypeOK, FreshName
<1>28. ASSUME NEW c \in Control, StopReader(c) PROVE FreshName'
  BY <1>28, <1>a DEF StopReader, StoperFrame, TypeOK, FreshName
<1>29. ASSUME NEW c \in Control, StopManager(c) PROVE FreshName'
  BY <1>29, <1>a DEF StopManager, StoperFrame, TypeOK, FreshName
<1>30. ASSUME NEW c \in Control, StopWriter(c) PROVE FreshName'
  BY <1>30, <1>a DEF StopWriter, StoperFrame, TypeOK, FreshName
<1>31. ASSUME NEW c \in Control, StopProxy(c) PROVE FreshName'
  BY <1>31, <1>a DEF StopProxy, StoperFrame, TypeOK, FreshName
<1>32. ASSUME NEW c \in Control, StopDone(c) PROVE FreshName'
  BY <1>32, <1>a DEF StopDone, StoperFrame, TypeOK, FreshName
<1>33. ASSUME NEW r \in RunID, CloseUser(r) PROVE FreshName'
  BY <1>33, <1>a DEF CloseUser, TypeOK, FreshName
<1>34. ASSUME CloseAll PROVE FreshName'
  BY <1>34, <1>a DEF CloseAll, TypeOK, FreshName
<1>35. ASSUME UNCHANGED vars PROVE FreshName'
  BY <1>35, <1>a DEF vars, TypeOK, FreshName
<1> QED
  BY <1>1, <1>2, <1>3, <1>4, <1>5, <1>6, <1>7, <1>8, <1>9, <1>10, <1>11, <1>12, <1>13, <1>14, <1>15, <1>16, <1>17, <1>18, <1>19, <1>20, <1>21, <1>22, <1>23, <1>24, <1>25, <1>26, <1>27, <1>28, <1>29, <1>30, <1>31, <1>32, <1>33, <1>34, <1>35
  DEF Next, LoginStep, Environment, ReaderStep, WriterStep, ManagerStep, RegisterStep,
      StoperStep

\* No step makes the name table and the controls disagree.
LEMMA OwnershipStep == IInv /\ [Next]_vars => NameOwnership'
<1> SUFFICES ASSUME IInv, [Next]_vars PROVE NameOwnership'
  OBVIOUS
<1>a. TypeOK /\ MsgInHand /\ PhaseOrder /\ NameOwnership
  BY DEF IInv
<1> USE ControlAssumption
<1>1. ASSUME NEW c \in Control, WaitOld(c) PROVE NameOwnership'
  BY <1>1, <1>a DEF WaitOld, TypeOK, NameOwnership, Holds
<1>2. ASSUME NEW c \in Control, Start(c) PROVE NameOwnership'
  <2>1. manager[c] = "off" /\ stoper[c] = "off"
    BY <1>2, <1>a DEF Start, PhaseOrder, Started
  <2>2. ASSUME NEW d \in Control, NEW n \in Name PROVE Holds(d, n)' <=> Holds(d, n)
    BY <1>2, <1>a, <2>1 DEF Start, TypeOK, Holds
  <2> QED
    BY <1>2, <1>a, <2>2 DEF Start, NameOwnership
<1>3. ASSUME NEW c \in Control, Watch(c) PROVE NameOwnership'
  BY <1>3, <1>a DEF Watch, Del, TypeOK, NameOwnership, Holds
<1>4. ASSUME NEW c \in Control, RefuseLogin(c) PROVE NameOwnership'
  BY <1>4, <1>a DEF RefuseLogin, TypeOK, NameOwnership, Holds
<1>5. ASSUME NEW c \in Control, \E r \in RunID : Login(c, r) PROVE NameOwnership'
  BY <1>5, <1>a DEF Login, TypeOK, NameOwnership, Holds
<1>6. ASSUME NEW c \in Control, ReadMsg(c) PROVE NameOwnership'
  BY <1>6, <1>a DEF ReadMsg, TypeOK, NameOwnership, Holds
<1>7. ASSUME NEW c \in Control, ReadEOF(c) PROVE NameOwnership'
  BY <1>7, <1>a DEF ReadEOF, ReaderExit, TypeOK, NameOwnership, Holds
<1>8. ASSUME NEW c \in Control, ReadError(c) PROVE NameOwnership'
  BY <1>8, <1>a DEF ReadError, ReaderExit, TypeOK, NameOwnership, Holds
<1>9. ASSUME NEW c \in Control, SendReqWorkConn(c) PROVE NameOwnership'
  BY <1>9, <1>a DEF SendReqWorkConn, TypeOK, NameOwnership, Holds
<1>10. ASSUME NEW c \in Control, WriteMsg(c) PROVE NameOwnership'
  BY <1>10, <1>a DEF WriteMsg, TypeOK, NameOwnership, Holds
<1>11. ASSUME NEW c \in Control, HeartbeatTimeout(c) PROVE NameOwnership'
  BY <1>11, <1>a DEF HeartbeatTimeout, ManagerExit, TypeOK, NameOwnership, Holds
<1>12. ASSUME NEW c \in Control, PutMsg(c) PROVE NameOwnership'
  BY <1>12, <1>a DEF PutMsg, TypeOK, NameOwnership, Holds
<1>13. ASSUME NEW c \in Control, ReadClosed(c) PROVE NameOwnership'
  BY <1>13, <1>a DEF ReadClosed, ReaderExit, TypeOK, NameOwnership, Holds
<1>14. ASSUME NEW c \in Control, WriteError(c) PROVE NameOwnership'
  BY <1>14, <1>a DEF WriteError, TypeOK, NameOwnership, Holds
<1>15. ASSUME NEW c \in Control, WriterClosed(c) PROVE NameOwnership'
  BY <1>15, <1>a DEF WriterClosed, TypeOK, NameOwnership, Holds
<1>16. ASSUME NEW c \in Control, Receive(c) PROVE NameOwnership'
  BY <1>16, <1>a DEF Receive, Dispatch, TypeOK, NameOwnership, Holds
<1>17. ASSUME NEW c \in Control, ManagerClosed(c) PROVE NameOwnership'
  BY <1>17, <1>a DEF ManagerClosed, ManagerExit, TypeOK, NameOwnership, Holds
<1>18. ASSUME NEW c \in Control, RejectPing(c) PROVE NameOwnership'
  BY <1>18, <1>a DEF RejectPing, ManagerExit, TypeOK, NameOwnership, Holds
<1>19. ASSUME NEW c \in Control, Respond(c) PROVE NameOwnership'
  BY <1>19, <1>a DEF Respond, TypeOK, NameOwnership, Holds
<1>20. ASSUME NEW c \in Control, RefuseProxy(c) PROVE NameOwnership'
  BY <1>20, <1>a DEF RefuseProxy, RegisterFrame, TypeOK, NameOwnership, Holds
<1>21. ASSUME NEW c \in Control, ReservePorts(c) PROVE NameOwnership'
  BY <1>21, <1>a DEF ReservePorts, RegisterFrame, ExceedsPorts, TypeOK, NameOwnership, Holds
<1>22. ASSUME NEW c \in Control, CheckExist(c) PROVE NameOwnership'
  BY <1>22, <1>a DEF CheckExist, RegisterFrame, Rollback, TypeOK, NameOwnership, Holds
<1>23. ASSUME NEW c \in Control, RunProxy(c) PROVE NameOwnership'
  BY <1>23, <1>a DEF RunProxy, RegisterFrame, Rollback, TypeOK, NameOwnership, Holds
<1>24. ASSUME NEW c \in Control, AddProxy(c) PROVE NameOwnership'
  BY <1>24, <1>a DEF AddProxy, RegisterFrame, Rollback, TypeOK, NameOwnership, Holds
<1>25. ASSUME NEW c \in Control, RecordProxy(c) PROVE NameOwnership'
  <2>1. stoper[c] \notin {"closing", "released"}
    BY <1>25, <1>a DEF RecordProxy, PhaseOrder, SendChClosed
  <2> QED
    BY <1>25, <1>a, <2>1 DEF RecordProxy, RegisterFrame, TypeOK, NameOwnership, Holds
<1>26. ASSUME NEW c \in Control, CloseProxy(c) PROVE NameOwnership'
  <2>1. PICK n \in Name : n = managerMsg[c].name
    BY <1>26, <1>a, NameOfMsg DEF CloseProxy, MsgInHand, Registering
  <2>2. stoper[c] \notin {"closing", "released"} /\ closing[c] = {}
    BY <1>26, <1>a DEF CloseProxy, PhaseOrder, SendChClosed
  <2>3. CASE n \notin proxies[c]
    BY <1>26, <1>a, <2>1, <2>3 DEF CloseProxy, RegisterFrame, TypeOK, NameOwnership, Holds
  <2>4. CASE n \in proxies[c]
    <3>1. pxyManager[n] = c
      BY <1>a, <2>1, <2>2, <2>4 DEF NameOwnership, Holds
    <3>2. ASSUME NEW d \in Control PROVE ~Holds(d, n)'
      BY <1>26, <1>a, <2>1, <2>2, <2>4, <3>1
      DEF CloseProxy, RegisterFrame, TypeOK, NameOwnership, Holds
    <3>3. ASSUME NEW d \in Control, NEW m \in Name, m # n
          PROVE  pxyManager'[m] = pxyManager[m] /\ (Holds(d, m)' <=> Holds(d, m))
      BY <1>26, <1>a, <2>1, <2>4, <3>3 DEF CloseProxy, RegisterFrame, TypeOK, Holds
    <3>4. pxyManager'[n] = NoControl
      BY <1>26, <1>a, <2>1, <2>4 DEF CloseProxy, TypeOK
    <3>5. ASSUME NEW d \in Control, NEW m \in Name
          PROVE  pxyManager'[m] = d <=> Holds(d, m)'
      BY <1>a, <3>2, <3>3, <3>4 DEF NameOwnership
    <3> QED
      BY <3>5 DEF NameOwnership
  <2> QED
    BY <2>3, <2>4
<1>27. ASSUME NEW c \in Control, StopConn(c) PROVE NameOwnership'
  BY <1>27, <1>a DEF StopConn, StoperFrame, TypeOK, NameOwnership, Holds
<1>28. ASSUME NEW c \in Control, StopReader(c) PROVE NameOwnership'
  BY <1>28, <1>a DEF StopReader, StoperFrame, TypeOK, NameOwnership, Holds
<1>29. ASSUME NEW c \in Control, StopManager(c) PROVE NameOwnership'
  BY <1>29, <1>a DEF StopManager, StoperFrame, TypeOK, NameOwnership, Holds
<1>30. ASSUME NEW c \in Control, StopWriter(c) PROVE NameOwnership'
  <2>1. closing[c] = {} /\ manager[c] = "done"
    BY <1>30, <1>a DEF StopWriter, PhaseOrder, SendChClosed
  <2>2. ASSUME NEW d \in Control, NEW n \in Name PROVE Holds(d, n)' <=> Holds(d, n)
    <3>1. CASE d = c
      BY <1>30, <1>a, <2>1, <3>1 DEF StopWriter, StoperFrame, TypeOK, Holds
    <3>2. CASE d # c
      BY <1>30, <1>a, <3>2 DEF StopWriter, StoperFrame, TypeOK, Holds
    <3> QED
      BY <3>1, <3>2
  <2> QED
    BY <1>30, <1>a, <2>2 DEF StopWriter, NameOwnership
<1>31. ASSUME NEW c \in Control, StopProxy(c) PROVE NameOwnership'
  <2>1. manager[c] = "done"
    BY <1>31, <1>a DEF StopProxy, PhaseOrder, SendChClosed
  <2>2. PICK n \in closing[c] :
          /\ closing' = [closing EXCEPT ![c] = closing[c] \ {n}]
          /\ pxyManager' = [pxyManager EXCEPT ![n] = NoControl]
    BY <1>31 DEF StopProxy
  <2>3. n \in Name /\ pxyManager[n] = c
    BY <1>a, <2>2 DEF TypeOK, NameOwnership, Holds
  <2>4. ASSUME NEW d \in Control PROVE ~Holds(d, n)'
    BY <1>31, <1>a, <2>1, <2>2, <2>3
    DEF StopProxy, StoperFrame, TypeOK, NameOwnership, Holds
  <2>5. ASSUME NEW d \in Control, NEW m \in Name, m # n
        PROVE  pxyManager'[m] = pxyManager[m] /\ (Holds(d, m)' <=> Holds(d, m))
    BY <1>31, <1>a, <2>2, <2>3, <2>5 DEF StopProxy, StoperFrame, TypeOK, Holds
  <2>6. pxyManager'[n] = NoControl
    BY <1>a, <2>2, <2>3 DEF TypeOK
  <2>7. ASSUME NEW d \in Control, NEW m \in Name
        PROVE  pxyManager'[m] = d <=> Holds(d, m)'
    BY <1>a, <2>4, <2>5, <2>6 DEF NameOwnership
  <2> QED
    BY <2>7 DEF NameOwnership
<1>32. ASSUME NEW c \in Control, StopDone(c) PROVE NameOwnership'
  BY <1>32, <1>a DEF StopDone, StoperFrame, TypeOK, NameOwnership, Holds
<1>33. ASSUME NEW r \in RunID, CloseUser(r) PROVE NameOwnership'
  BY <1>33, <1>a DEF CloseUser, TypeOK, NameOwnership, Holds
<1>34. ASSUME CloseAll PROVE NameOwnership'
  BY <1>34, <1>a DEF CloseAll, TypeOK, NameOwnership, Holds
<1>35. ASSUME UNCHANGED vars PROVE NameOwnership'
  BY <1>35, <1>a DEF vars, TypeOK, NameOwnership, Holds
<1> QED
  BY <1>1, <1>2, <1>3, <1>4, <1>5, <1>6, <1>7, <1>8, <1>9, <1>10, <1>11, <1>12, <1>13, <1>14, <1>15, <1>16, <1>17, <1>18, <1>19, <1>20, <1>21, <1>22, <1>23, <1>24, <1>25, <1>26, <1>27, <1>28, <1>29, <1>30, <1>31, <1>32, <1>33, <1>34, <1>35
  DEF Next, LoginStep, Environment, ReaderStep, WriterStep, ManagerStep, RegisterStep,
      StoperStep

\* Every step keeps portsUsedNum in line with the proxies and the pending
\* registration.
LEMMA PortStep == IInv /\ [Next]_vars => PortCount'
<1> SUFFICES ASSUME IInv, [Next]_vars PROVE PortCount'
  OBVIOUS
<1>a. TypeOK /\ MsgInHand /\ PhaseOrder /\ NameOwnership /\ FreshName /\ PortCount
  BY DEF IInv
<1> USE ControlAssumption
<1>1. ASSUME NEW c \in Control, WaitOld(c) PROVE PortCount'
  BY <1>1, <1>a DEF WaitOld, TypeOK, PortCount, Reserved
<1>2. ASSUME NEW c \in Control, Start(c) PROVE PortCount'
  BY <1>2, <1>a DEF Start, TypeOK, PortCount, Reserved, PhaseOrder, Started
<1>3. ASSUME NEW c \in Control, Watch(c) PROVE PortCount'
  BY <1>3, <1>a DEF Watch, Del, TypeOK, PortCount, Reserved
<1>4. ASSUME NEW c \in Control, RefuseLogin(c) PROVE PortCount'
  BY <1>4, <1>a DEF RefuseLogin, TypeOK, PortCount, Reserved
<1>5. ASSUME NEW c \in Control, \E r \in RunID : Login(c, r) PROVE PortCount'
  BY <1>5, <1>a DEF Login, TypeOK, PortCount, Reserved
<1>6. ASSUME NEW c \in Control, ReadMsg(c) PROVE PortCount'
  BY <1>6, <1>a DEF ReadMsg, TypeOK, PortCount, Reserved
<1>7. ASSUME NEW c \in Control, ReadEOF(c) PROVE PortCount'
  BY <1>7, <1>a DEF ReadEOF, ReaderExit, TypeOK, PortCount, Reserved
<1>8. ASSUME NEW c \in Control, ReadError(c) PROVE PortCount'
  BY <1>8, <1>a DEF ReadError, ReaderExit, TypeOK, PortCount, Reserved
<1>9. ASSUME NEW c \in Control, SendReqWorkConn(c) PROVE PortCount'
  BY <1>9, <1>a DEF SendReqWorkConn, TypeOK, PortCount, Reserved
<1>10. ASSUME NEW c \in Control, WriteMsg(c) PROVE PortCount'
  BY <1>10, <1>a DEF WriteMsg, TypeOK, PortCount, Reserved
<1>11. ASSUME NEW c \in Control, HeartbeatTimeout(c) PROVE PortCount'
  BY <1>11, <1>a DEF HeartbeatTimeout, ManagerExit, TypeOK, PortCount, Reserved
<1>12. ASSUME NEW c \in Control, PutMsg(c) PROVE PortCount'
  BY <1>12, <1>a DEF PutMsg, TypeOK, PortCount, Reserved
<1>13. ASSUME NEW c \in Control, ReadClosed(c) PROVE PortCount'
  BY <1>13, <1>a DEF ReadClosed, ReaderExit, TypeOK, PortCount, Reserved
<1>14. ASSUME NEW c \in Control, WriteError(c) PROVE PortCount'
  BY <1>14, <1>a DEF WriteError, TypeOK, PortCount, Reserved
<1>15. ASSUME NEW c \in Control, WriterClosed(c) PROVE PortCount'
  BY <1>15, <1>a DEF WriterClosed, TypeOK, PortCount, Reserved
<1>16. ASSUME NEW c \in Control, Receive(c) PROVE PortCount'
  BY <1>16, <1>a DEF Receive, Dispatch, TypeOK, PortCount, Reserved
<1>17. ASSUME NEW c \in Control, ManagerClosed(c) PROVE PortCount'
  BY <1>17, <1>a DEF ManagerClosed, ManagerExit, TypeOK, PortCount, Reserved
<1>18. ASSUME NEW c \in Control, RejectPing(c) PROVE PortCount'
  BY <1>18, <1>a DEF RejectPing, ManagerExit, TypeOK, PortCount, Reserved
<1>19. ASSUME NEW c \in Control, Respond(c) PROVE PortCount'
  BY <1>19, <1>a DEF Respond, TypeOK, PortCount, Reserved
<1>20. ASSUME NEW c \in Control, RefuseProxy(c) PROVE PortCount'
  BY <1>20, <1>a DEF RefuseProxy, RegisterFrame, TypeOK, PortCount, Reserved
<1>21. ASSUME NEW c \in Control, ReservePorts(c) PROVE PortCount'
  <2>1. Cardinality(proxies[c] \cap PortName) \in Nat
    BY <1>a, PortsOfProxies DEF PortCount
  <2>2. ASSUME NEW d \in Control, MaxPortsPerClient > 0
        PROVE  /\ portsUsed'[d] = Cardinality(proxies[d] \cap PortName) + Reserved(d)'
               /\ portsUsed'[d] <= MaxPortsPerClient
    <3>1. CASE d = c
      <4>1. /\ manager[c] = "register" /\ managerMsg' = managerMsg
            /\ \/ manager'[c] = "respond" /\ portsUsed'[c] = portsUsed[c]
               \/ /\ manager'[c] = "exist"
                  /\ portsUsed'[c] = portsUsed[c] + UsedPortsNum(managerMsg[c].name)
                  /\ ~(portsUsed[c] + UsedPortsNum(managerMsg[c].name) > MaxPortsPerClient)
        BY <1>21, <1>a, <2>2 DEF ReservePorts, RegisterFrame, ExceedsPorts, TypeOK
      <4>2. /\ portsUsed[c] = Cardinality(proxies[c] \cap PortName) + Reserved(c)
            /\ portsUsed[c] <= MaxPortsPerClient /\ portsUsed[c] \in Nat
        BY <1>a, <2>2 DEF PortCount, TypeOK
      <4> QED
        BY <2>1, <3>1, <4>1, <4>2, BoundAssumption DEF Reserved, UsedPortsNum
    <3>2. CASE d # c
      BY <1>21, <1>a, <2>2, <3>2 DEF ReservePorts, RegisterFrame, ExceedsPorts, TypeOK, PortCount, Reserved
    <3> QED
      BY <3>1, <3>2
  <2> QED
    BY <1>21, <1>a, <2>2 DEF ReservePorts, RegisterFrame, ExceedsPorts, PortCount
<1>22. ASSUME NEW c \in Control, CheckExist(c) PROVE PortCount'
  <2>1. Cardinality(proxies[c] \cap PortName) \in Nat
    BY <1>a, PortsOfProxies DEF PortCount
  <2>2. ASSUME NEW d \in Control, MaxPortsPerClient > 0
        PROVE  /\ portsUsed'[d] = Cardinality(proxies[d] \cap PortName) + Reserved(d)'
               /\ portsUsed'[d] <= MaxPortsPerClient
    <3>1. CASE d = c
      <4>1. /\ manager[c] = "exist" /\ managerMsg' = managerMsg
            /\ \/ /\ manager'[c] = "respond"
                  /\ portsUsed'[c] = portsUsed[c] - UsedPortsNum(managerMsg[c].name)
               \/ manager'[c] = "run" /\ portsUsed'[c] = portsUsed[c]
        BY <1>22, <1>a, <2>2 DEF CheckExist, RegisterFrame, Rollback, TypeOK
      <4>2. /\ portsUsed[c] = Cardinality(proxies[c] \cap PortName) + Reserved(c)
            /\ portsUsed[c] <= MaxPortsPerClient /\ portsUsed[c] \in Nat
        BY <1>a, <2>2 DEF PortCount, TypeOK
      <4> QED
        BY <2>1, <3>1, <4>1, <4>2, BoundAssumption DEF Reserved, UsedPortsNum
    <3>2. CASE d # c
      <4>1. /\ manager'[d] = manager[d] /\ managerMsg'[d] = managerMsg[d] /\ proxies' = proxies
            /\ portsUsed'[d] = portsUsed[d]
        BY <1>22, <1>a, <3>2 DEF CheckExist, RegisterFrame, Rollback, TypeOK
      <4> QED BY <1>a, <2>2, <4>1 DEF PortCount, Reserved
    <3> QED
      BY <3>1, <3>2
  <2> QED
    BY <1>22, <1>a, <2>2 DEF CheckExist, RegisterFrame, Rollback, PortCount
<1>23. ASSUME NEW c \in Control, RunProxy(c) PROVE PortCount'
  <2>1. Cardinality(proxies[c] \cap PortName) \in Nat
    BY <1>a, PortsOfProxies DEF PortCount
  <2>2. ASSUME NEW d \in Control, MaxPortsPerClient > 0
        PROVE  /\ portsUsed'[d] = Cardinality(proxies[d] \cap PortName) + Reserved(d)'
               /\ portsUsed'[d] <= MaxPortsPerClient
    <3>1. CASE d = c
      <4>1. /\ manager[c] = "run" /\ managerMsg' = managerMsg
            /\ \/ /\ manager'[c] = "respond"
                  /\ portsUsed'[c] = portsUsed[c] - UsedPortsNum(managerMsg[c].name)
               \/ manager'[c] = "add" /\ portsUsed'[c] = portsUsed[c]
        BY <1>23, <1>a, <2>2 DEF RunProxy, RegisterFrame, Rollback, TypeOK
      <4>2. /\ portsUsed[c] = Cardinality(proxies[c] \cap PortName) + Reserved(c)
            /\ portsUsed[c] <= MaxPortsPerClient /\ portsUsed[c] \in Nat
        BY <1>a, <2>2 DEF PortCount, TypeOK
      <4> QED
        BY <2>1, <3>1, <4>1, <4>2, BoundAssumption DEF Reserved, UsedPortsNum
    <3>2. CASE d # c
      <4>1. /\ manager'[d] = manager[d] /\ managerMsg'[d] = managerMsg[d] /\ proxies' = proxies
            /\ portsUsed'[d] = portsUsed[d]
        BY <1>23, <1>a, <3>2 DEF RunProxy, RegisterFrame, Rollback, TypeOK
      <4> QED BY <1>a, <2>2, <4>1 DEF PortCount, Reserved
    <3> QED
      BY <3>1, <3>2
  <2> QED
    BY <1>23, <1>a, <2>2 DEF RunProxy, RegisterFrame, Rollback, PortCount
<1>24. ASSUME NEW c \in Control, AddProxy(c) PROVE PortCount'
  <2>1. Cardinality(proxies[c] \cap PortName) \in Nat
    BY <1>a, PortsOfProxies DEF PortCount
  <2>2. ASSUME NEW d \in Control, MaxPortsPerClient > 0
        PROVE  /\ portsUsed'[d] = Cardinality(proxies[d] \cap PortName) + Reserved(d)'
               /\ portsUsed'[d] <= MaxPortsPerClient
    <3>1. CASE d = c
      <4>1. /\ manager[c] = "add" /\ managerMsg' = managerMsg
            /\ \/ /\ manager'[c] = "respond"
                  /\ portsUsed'[c] = portsUsed[c] - UsedPortsNum(managerMsg[c].name)
               \/ manager'[c] = "record" /\ portsUsed'[c] = portsUsed[c]
        BY <1>24, <1>a, <2>2 DEF AddProxy, RegisterFrame, Rollback, TypeOK
      <4>2. /\ portsUsed[c] = Cardinality(proxies[c] \cap PortName) + Reserved(c)
            /\ portsUsed[c] <= MaxPortsPerClient /\ portsUsed[c] \in Nat
        BY <1>a, <2>2 DEF PortCount, TypeOK
      <4> QED
        BY <2>1, <3>1, <4>1, <4>2, BoundAssumption DEF Reserved, UsedPortsNum
    <3>2. CASE d # c
      BY <1>24, <1>a, <2>2, <3>2 DEF AddProxy, RegisterFrame, Rollback, TypeOK, PortCount, Reserved
    <3> QED
      BY <3>1, <3>2
  <2> QED
    BY <1>24, <1>a, <2>2 DEF AddProxy, RegisterFrame, Rollback, PortCount
<1>25. ASSUME NEW c \in Control, RecordProxy(c) PROVE PortCount'
  <2> DEFINE n == managerMsg[c].name
  <2>1. n \notin proxies[c]
    BY <1>25, <1>a DEF RecordProxy, FreshName
  <2>2. /\ Cardinality(proxies[c] \cap PortName) \in Nat
        /\ IsFiniteSet(proxies[c] \cup {n})
        /\ Cardinality((proxies[c] \cup {n}) \cap PortName)
             = Cardinality(proxies[c] \cap PortName) + UsedPortsNum(n)
    BY <1>a, <2>1, PortsOfProxies DEF PortCount
  <2>3. proxies' = [proxies EXCEPT ![c] = proxies[c] \cup {n}]
    BY <1>25, <2>1 DEF RecordProxy
  <2>4. ASSUME NEW d \in Control PROVE IsFiniteSet(proxies'[d])
    BY <1>a, <2>2, <2>3 DEF TypeOK, PortCount
  <2>5. ASSUME NEW d \in Control, MaxPortsPerClient > 0
        PROVE  /\ portsUsed'[d] = Cardinality(proxies'[d] \cap PortName) + Reserved(d)'
               /\ portsUsed'[d] <= MaxPortsPerClient
    <3>1. CASE d = c
      <4>1. proxies'[c] = proxies[c] \cup {n}
        BY <1>a, <2>3 DEF TypeOK
      <4>2. portsUsed[c] = Cardinality(proxies[c] \cap PortName) + Reserved(c)
            /\ portsUsed[c] <= MaxPortsPerClient
        BY <1>a, <2>5 DEF PortCount
      <4> QED
        BY <1>25, <1>a, <2>1, <2>2, <2>5, <3>1, <4>1, <4>2, BoundAssumption
        DEF RecordProxy, RegisterFrame, TypeOK, Reserved, UsedPortsNum
    <3>2. CASE d # c
      <4>1. proxies'[d] = proxies[d]
        BY <1>a, <2>3, <3>2 DEF TypeOK
      <4> QED
        BY <1>25, <1>a, <2>5, <3>2, <4>1 DEF RecordProxy, RegisterFrame, TypeOK, PortCount, Reserved
    <3> QED
      BY <3>1, <3>2
  <2> QED
    BY <2>4, <2>5 DEF PortCount
<1>26. ASSUME NEW c \in Control, CloseProxy(c) PROVE PortCount'
  <2> DEFINE n == managerMsg[c].name
  <2>0. CASE n \notin proxies[c]
    BY <1>26, <1>a, <2>0 DEF CloseProxy, RegisterFrame, TypeOK, PortCount, Reserved
  <2>1. SUFFICES ASSUME n \in proxies[c] PROVE PortCount'
    BY <2>0
  <2>2. /\ Cardinality(proxies[c] \cap PortName) \in Nat
        /\ IsFiniteSet(proxies[c] \ {n})
        /\ Cardinality((proxies[c] \ {n}) \cap PortName)
             = Cardinality(proxies[c] \cap PortName) - UsedPortsNum(n)
    BY <1>a, <2>1, PortsOfProxies DEF PortCount
  <2>3. proxies' = [proxies EXCEPT ![c] = proxies[c] \ {n}]
    BY <1>26, <2>1 DEF CloseProxy
  <2>4. ASSUME NEW d \in Control PROVE IsFiniteSet(proxies'[d])
    BY <1>a, <2>2, <2>3 DEF TypeOK, PortCount
  <2>5. ASSUME NEW d \in Control, MaxPortsPerClient > 0
        PROVE  /\ portsUsed'[d] = Cardinality(proxies'[d] \cap PortName) + Reserved(d)'
               /\ portsUsed'[d] <= MaxPortsPerClient
    <3>1. CASE d = c
      <4>1. proxies'[c] = proxies[c] \ {n}
        BY <1>a, <2>3 DEF TypeOK
      <4>2. portsUsed[c] = Cardinality(proxies[c] \cap PortName) + Reserved(c)
            /\ portsUsed[c] <= MaxPortsPerClient
        BY <1>a, <2>5 DEF PortCount
      <4> QED
        BY <1>26, <1>a, <2>1, <2>2, <2>5, <3>1, <4>1, <4>2, BoundAssumption
        DEF CloseProxy, RegisterFrame, Rollback, TypeOK, Reserved, UsedPortsNum
    <3>2. CASE d # c
      <4>1. proxies'[d] = proxies[d]
        BY <1>a, <2>3, <3>2 DEF TypeOK
      <4> QED
        BY <1>26, <1>a, <2>5, <3>2, <4>1 DEF CloseProxy, RegisterFrame, Rollback, TypeOK, PortCount, Reserved
    <3> QED
      BY <3>1, <3>2
  <2> QED
    BY <2>4, <2>5 DEF PortCount
<1>27. ASSUME NEW c \in Control, StopConn(c) PROVE PortCount'
  BY <1>27, <1>a DEF StopConn, StoperFrame, TypeOK, PortCount, Reserved
<1>28. ASSUME NEW c \in Control, StopReader(c) PROVE PortCount'
  BY <1>28, <1>a DEF StopReader, StoperFrame, TypeOK, PortCount, Reserved
<1>29. ASSUME NEW c \in Control, StopManager(c) PROVE PortCount'
  BY <1>29, <1>a DEF StopManager, StoperFrame, TypeOK, PortCount, Reserved
<1>30. ASSUME NEW c \in Control, StopWriter(c) PROVE PortCount'
  BY <1>30, <1>a DEF StopWriter, StoperFrame, TypeOK, PortCount, Reserved
<1>31. ASSUME NEW c \in Control, StopProxy(c) PROVE PortCount'
  BY <1>31, <1>a DEF StopProxy, StoperFrame, TypeOK, PortCount, Reserved
<1>32. ASSUME NEW c \in Control, StopDone(c) PROVE PortCount'
  BY <1>32, <1>a DEF StopDone, StoperFrame, TypeOK, PortCount, Reserved
<1>33. ASSUME NEW r \in RunID, CloseUser(r) PROVE PortCount'
  BY <1>33, <1>a DEF CloseUser, TypeOK, PortCount, Reserved
<1>34. ASSUME CloseAll PROVE PortCount'
  BY <1>34, <1>a DEF CloseAll, TypeOK, PortCount, Reserved
<1>35. ASSUME UNCHANGED vars PROVE PortCount'
  BY <1>35, <1>a DEF vars, TypeOK, PortCount, Reserved
<1> QED
  BY <1>1, <1>2, <1>3, <1>4, <1>5, <1>6, <1>7, <1>8, <1>9, <1>10, <1>11, <1>12, <1>13, <1>14, <1>15, <1>16, <1>17, <1>18, <1>19, <1>20, <1>21, <1>22, <1>23, <1>24, <1>25, <1>26, <1>27, <1>28, <1>29, <1>30, <1>31, <1>32, <1>33, <1>34, <1>35
  DEF Next, LoginStep, Environment, ReaderStep, WriterStep, ManagerStep, RegisterStep,
      StoperStep

-----------------------------------------------------------------------------
\* The inductive invariant holds in every reachable state.
THEOREM Invariance == Spec => []IInv
<1>1. IInv /\ [Next]_vars => IInv'
  BY TypeStep, MsgStep, PhaseStep, FreshStep, OwnershipStep, PortStep DEF IInv
<1> QED
  BY InitIInv, <1>1, PTL DEF Spec

\* Every variable keeps its type (control.go, service.go): no path through
\* RegisterProxy and CloseProxy takes the number of ports in use below zero.
THEOREM TypeCorrect == Spec => []TypeOK
<1>1. IInv => TypeOK
  BY DEF IInv
<1> QED
  BY Invariance, <1>1, PTL

\* The name table and the controls agree on who holds a name, however the
\* registrations and the shutdowns of any number of clients interleave.
THEOREM NamesAreOwned == Spec => []NameOwnership
<1>1. IInv => NameOwnership
  BY DEF IInv
<1> QED
  BY Invariance, <1>1, PTL

\* Neither the reader nor the manager sends on a channel that the stoper closed.
THEOREM ChannelsCloseInOrder == Spec => []NoSendOnClosedChannel
<1>1. IInv => NoSendOnClosedChannel
  BY DEF IInv, PhaseOrder, NoSendOnClosedChannel
<1> QED
  BY Invariance, <1>1, PTL

\* portsUsedNum is exactly what the proxies and the pending registration of a
\* control use, and within max_ports_per_client.
THEOREM PortsAreAccounted == Spec => []PortAccounting
<1>1. IInv => PortAccounting
  BY DEF IInv, PortCount, PortAccounting, Reserved
<1> QED
  BY Invariance, <1>1, PTL

-----------------------------------------------------------------------------
\* No step leaves a proxy running outside the name table.
LEMMA OrphanStep == IInv /\ NoOrphanProxy /\ [Next]_vars => NoOrphanProxy'
<1> SUFFICES ASSUME IInv, NoOrphanProxy, [Next]_vars PROVE NoOrphanProxy'
  OBVIOUS
<1>a. TypeOK /\ MsgInHand /\ PhaseOrder /\ NameOwnership /\ FreshName /\ NoOrphanProxy
  BY DEF IInv
<1> USE ControlAssumption
<1>1. ASSUME NEW c \in Control, WaitOld(c) PROVE NoOrphanProxy'
  BY <1>1, <1>a DEF WaitOld, TypeOK, NoOrphanProxy
<1>2. ASSUME NEW c \in Control, Start(c) PROVE NoOrphanProxy'
  <2>1. manager[c] = "off"
    BY <1>2, <1>a DEF Start, PhaseOrder, Started
  <2>2. ASSUME NEW d \in Control PROVE manager'[d] = "add" <=> manager[d] = "add"
    BY <1>2, <1>a, <2>1 DEF Start, TypeOK
  <2> QED
    BY <1>2, <1>a, <2>2 DEF Start, NoOrphanProxy
<1>3. ASSUME NEW c \in Control, Watch(c) PROVE NoOrphanProxy'
  BY <1>3, <1>a DEF Watch, Del, TypeOK, NoOrphanProxy
<1>4. ASSUME NEW c \in Control, RefuseLogin(c) PROVE NoOrphanProxy'
  BY <1>4, <1>a DEF RefuseLogin, TypeOK, NoOrphanProxy
<1>5. ASSUME NEW c \in Control, \E r \in RunID : Login(c, r) PROVE NoOrphanProxy'
  BY <1>5, <1>a DEF Login, TypeOK, NoOrphanProxy
<1>6. ASSUME NEW c \in Control, ReadMsg(c) PROVE NoOrphanProxy'
  BY <1>6, <1>a DEF ReadMsg, TypeOK, NoOrphanProxy
<1>7. ASSUME NEW c \in Control, ReadEOF(c) PROVE NoOrphanProxy'
  BY <1>7, <1>a DEF ReadEOF, ReaderExit, TypeOK, NoOrphanProxy
<1>8. ASSUME NEW c \in Control, ReadError(c) PROVE NoOrphanProxy'
  BY <1>8, <1>a DEF ReadError, ReaderExit, TypeOK, NoOrphanProxy
<1>9. ASSUME NEW c \in Control, SendReqWorkConn(c) PROVE NoOrphanProxy'
  BY <1>9, <1>a DEF SendReqWorkConn, TypeOK, NoOrphanProxy
<1>10. ASSUME NEW c \in Control, WriteMsg(c) PROVE NoOrphanProxy'
  BY <1>10, <1>a DEF WriteMsg, TypeOK, NoOrphanProxy
<1>11. ASSUME NEW c \in Control, HeartbeatTimeout(c) PROVE NoOrphanProxy'
  BY <1>11, <1>a DEF HeartbeatTimeout, ManagerExit, TypeOK, NoOrphanProxy
<1>12. ASSUME NEW c \in Control, PutMsg(c) PROVE NoOrphanProxy'
  BY <1>12, <1>a DEF PutMsg, TypeOK, NoOrphanProxy
<1>13. ASSUME NEW c \in Control, ReadClosed(c) PROVE NoOrphanProxy'
  BY <1>13, <1>a DEF ReadClosed, ReaderExit, TypeOK, NoOrphanProxy
<1>14. ASSUME NEW c \in Control, WriteError(c) PROVE NoOrphanProxy'
  BY <1>14, <1>a DEF WriteError, TypeOK, NoOrphanProxy
<1>15. ASSUME NEW c \in Control, WriterClosed(c) PROVE NoOrphanProxy'
  BY <1>15, <1>a DEF WriterClosed, TypeOK, NoOrphanProxy
<1>16. ASSUME NEW c \in Control, Receive(c) PROVE NoOrphanProxy'
  BY <1>16, <1>a DEF Receive, Dispatch, TypeOK, NoOrphanProxy
<1>17. ASSUME NEW c \in Control, ManagerClosed(c) PROVE NoOrphanProxy'
  BY <1>17, <1>a DEF ManagerClosed, ManagerExit, TypeOK, NoOrphanProxy
<1>18. ASSUME NEW c \in Control, RejectPing(c) PROVE NoOrphanProxy'
  BY <1>18, <1>a DEF RejectPing, ManagerExit, TypeOK, NoOrphanProxy
<1>19. ASSUME NEW c \in Control, Respond(c) PROVE NoOrphanProxy'
  BY <1>19, <1>a DEF Respond, TypeOK, NoOrphanProxy
<1>20. ASSUME NEW c \in Control, RefuseProxy(c) PROVE NoOrphanProxy'
  BY <1>20, <1>a DEF RefuseProxy, RegisterFrame, TypeOK, NoOrphanProxy
<1>21. ASSUME NEW c \in Control, ReservePorts(c) PROVE NoOrphanProxy'
  BY <1>21, <1>a DEF ReservePorts, RegisterFrame, ExceedsPorts, TypeOK, NoOrphanProxy
<1>22. ASSUME NEW c \in Control, CheckExist(c) PROVE NoOrphanProxy'
  <2>1. ASSUME NEW d \in Control PROVE manager'[d] = "add" <=> manager[d] = "add"
    BY <1>22, <1>a DEF CheckExist, TypeOK
  <2> QED
    BY <1>22, <1>a, <2>1 DEF CheckExist, RegisterFrame, NoOrphanProxy
<1>23. ASSUME NEW c \in Control, RunProxy(c) PROVE NoOrphanProxy'
  <2>1. PICK n \in Name : n = managerMsg[c].name
    BY <1>23, <1>a, NameOfMsg DEF RunProxy, MsgInHand, Registering
  <2>2. manager[c] = "run" /\ UNCHANGED <<pxyManager, managerMsg>>
    BY <1>23 DEF RunProxy, RegisterFrame
  <2>3. CASE manager' = [manager EXCEPT ![c] = "respond"] /\ UNCHANGED running
    BY <1>a, <2>2, <2>3 DEF TypeOK, NoOrphanProxy
  <2>4. CASE /\ manager' = [manager EXCEPT ![c] = "add"]
             /\ running' = [running EXCEPT ![c] = @ \cup {n}]
    BY <1>a, <2>1, <2>2, <2>4 DEF TypeOK, NoOrphanProxy
  <2> QED
    BY <1>23, <2>1, <2>3, <2>4 DEF RunProxy
<1>24. ASSUME NEW c \in Control, AddProxy(c) PROVE NoOrphanProxy'
  <2>1. PICK n \in Name : n = managerMsg[c].name
    BY <1>24, <1>a, NameOfMsg DEF AddProxy, MsgInHand, Registering
  <2>2. \A d \in Control : manager'[d] = "add" <=> manager[d] = "add" /\ d # c
    BY <1>24, <1>a DEF AddProxy, TypeOK
  <2>3. n \in running[c]
    BY <1>24, <1>a, <2>1 DEF AddProxy, NoOrphanProxy
  <2>4. CASE pxyManager[n] # NoControl
    <3>1. /\ UNCHANGED <<pxyManager, managerMsg>>
          /\ running' = [running EXCEPT ![c] = @ \ {n}]
      BY <1>24, <2>1, <2>4 DEF AddProxy, RegisterFrame
    <3>2. pxyManager[n] # c
      <4>1. stoper[c] \notin {"closing", "released"} /\ closing[c] = {}
        BY <1>24, <1>a DEF AddProxy, PhaseOrder, SendChClosed
      <4> QED
        BY <1>24, <1>a, <2>1, <4>1 DEF AddProxy, NameOwnership, Holds, FreshName
    <3> QED
      BY <1>a, <1>24, <2>1, <2>2, <3>1, <3>2 DEF TypeOK, NoOrphanProxy, AddProxy
  <2>5. CASE pxyManager[n] = NoControl
    <3>1. /\ UNCHANGED <<running, managerMsg>>
          /\ pxyManager' = [pxyManager EXCEPT ![n] = c]
      BY <1>24, <2>1, <2>5 DEF AddProxy, RegisterFrame
    <3> QED
      BY <1>24, <1>a, <2>1, <2>2, <2>3, <2>5, <3>1 DEF TypeOK, NoOrphanProxy, AddProxy
  <2> QED
    BY <2>4, <2>5
<1>25. ASSUME NEW c \in Control, RecordProxy(c) PROVE NoOrphanProxy'
  BY <1>25, <1>a DEF RecordProxy, RegisterFrame, TypeOK, NoOrphanProxy
<1>26. ASSUME NEW c \in Control, CloseProxy(c) PROVE NoOrphanProxy'
  <2>1. PICK n \in Name : n = managerMsg[c].name
    BY <1>26, <1>a, NameOfMsg DEF CloseProxy, MsgInHand, Registering
  <2>2. \A d \in Control : manager'[d] = "add" <=> manager[d] = "add"
    BY <1>26, <1>a DEF CloseProxy, TypeOK
  <2>3. CASE UNCHANGED pxyVars
    BY <1>26, <1>a, <2>2, <2>3 DEF CloseProxy, RegisterFrame, NoOrphanProxy
  <2>4. CASE /\ n \in proxies[c]
             /\ running' = [running EXCEPT ![c] = @ \ {n}]
             /\ pxyManager' = [pxyManager EXCEPT ![n] = NoControl]
    <3>1. stoper[c] \notin {"closing", "released"}
      BY <1>26, <1>a DEF CloseProxy, PhaseOrder, SendChClosed
    <3>2. pxyManager[n] = c /\ manager[c] # "add" /\ managerMsg' = managerMsg
      BY <1>26, <1>a, <2>1, <2>4, <3>1 DEF CloseProxy, RegisterFrame, NameOwnership, Holds
    <3> QED
      BY <1>a, <2>1, <2>2, <2>4, <3>2 DEF TypeOK, NoOrphanProxy
  <2> QED
    BY <1>26, <2>1, <2>3, <2>4 DEF CloseProxy
<1>27. ASSUME NEW c \in Control, StopConn(c) PROVE NoOrphanProxy'
  BY <1>27, <1>a DEF StopConn, StoperFrame, TypeOK, NoOrphanProxy
<1>28. ASSUME NEW c \in Control, StopReader(c) PROVE NoOrphanProxy'
  BY <1>28, <1>a DEF StopReader, StoperFrame, TypeOK, NoOrphanProxy
<1>29. ASSUME NEW c \in Control, StopManager(c) PROVE NoOrphanProxy'
  BY <1>29, <1>a DEF StopManager, StoperFrame, TypeOK, NoOrphanProxy
<1>30. ASSUME NEW c \in Control, StopWriter(c) PROVE NoOrphanProxy'
  BY <1>30, <1>a DEF StopWriter, StoperFrame, TypeOK, NoOrphanProxy
<1>31. ASSUME NEW c \in Control, StopProxy(c) PROVE NoOrphanProxy'
  <2>1. PICK n \in closing[c] :
          /\ running' = [running EXCEPT ![c] = @ \ {n}]
          /\ pxyManager' = [pxyManager EXCEPT ![n] = NoControl]
    BY <1>31 DEF StopProxy
  <2>2. n \in Name /\ pxyManager[n] = c
    BY <1>a, <2>1 DEF TypeOK, NameOwnership, Holds
  <2>3. manager[c] = "done" /\ UNCHANGED mgrVars
    BY <1>31, <1>a DEF StopProxy, StoperFrame, PhaseOrder, SendChClosed
  <2> QED
    BY <1>a, <2>1, <2>2, <2>3 DEF TypeOK, NoOrphanProxy
<1>32. ASSUME NEW c \in Control, StopDone(c) PROVE NoOrphanProxy'
  BY <1>32, <1>a DEF StopDone, StoperFrame, TypeOK, NoOrphanProxy
<1>33. ASSUME NEW r \in RunID, CloseUser(r) PROVE NoOrphanProxy'
  BY <1>33, <1>a DEF CloseUser, TypeOK, NoOrphanProxy
<1>34. ASSUME CloseAll PROVE NoOrphanProxy'
  BY <1>34, <1>a DEF CloseAll, TypeOK, NoOrphanProxy
<1>35. ASSUME UNCHANGED vars PROVE NoOrphanProxy'
  BY <1>35, <1>a DEF vars, TypeOK, NoOrphanProxy
<1> QED
  BY <1>1, <1>2, <1>3, <1>4, <1>5, <1>6, <1>7, <1>8, <1>9, <1>10, <1>11, <1>12, <1>13, <1>14, <1>15, <1>16, <1>17, <1>18, <1>19, <1>20, <1>21, <1>22, <1>23, <1>24, <1>25, <1>26, <1>27, <1>28, <1>29, <1>30, <1>31, <1>32, <1>33, <1>34, <1>35
  DEF Next, LoginStep, Environment, ReaderStep, WriterStep, ManagerStep, RegisterStep,
      StoperStep

\* The invariants of the two previous parts hold together.
LEMMA OrphanInvariance == Spec => [](IInv /\ NoOrphanProxy)
<1>1. Init => NoOrphanProxy
  BY ControlAssumption DEF Init, NoOrphanProxy
<1>2. IInv /\ NoOrphanProxy /\ [Next]_vars => NoOrphanProxy'
  BY OrphanStep
<1>3. Init /\ [][Next]_vars /\ []IInv => []NoOrphanProxy
  BY <1>1, <1>2, PTL
<1> QED
  BY Invariance, <1>3, PTL DEF Spec

\* A proxy runs exactly while it has a name in the table or is about to get
\* one: RegisterProxy closes what it cannot add, CloseProxy and the stoper
\* close what they delete.
THEOREM NoOrphans == Spec => []NoOrphanProxy
BY OrphanInvariance, PTL

\* A control that reports itself closed holds no name and no running proxy, and
\* its goroutines have ended.
THEOREM ReleasedIsReleased == Spec => []ReleasedHoldsNothing
<1>1. IInv /\ NoOrphanProxy => ReleasedHoldsNothing
  <2> SUFFICES ASSUME IInv, NoOrphanProxy, NEW c \in Control, stoper[c] = "released"
               PROVE  /\ \A n \in Name : pxyManager[n] # c /\ n \notin running[c]
                      /\ reader[c] = "done" /\ writer[c] = "done" /\ manager[c] = "done"
    BY DEF ReleasedHoldsNothing
  <2>1. /\ reader[c] = "done" /\ writer[c] = "done" /\ manager[c] = "done"
        /\ closing[c] = {}
    BY DEF IInv, PhaseOrder, ReadChClosed, SendChClosed
  <2>2. \A n \in Name : pxyManager[n] # c
    BY <2>1 DEF IInv, NameOwnership, Holds
  <2> QED
    BY <2>1, <2>2 DEF NoOrphanProxy
<1> QED
  BY OrphanInvariance, <1>1, PTL

-----------------------------------------------------------------------------
(* The sessions implement the name registry.                               *)

Released == {c \in Control : stoper[c] = "released"}

\* The initial states are initial states of the registry.
LEMMA RegistryInit == Init => Registry!Init
BY DEF Init, Registry!Init

\* Every step is a step of the registry or leaves it unchanged.
LEMMA RegistryStep ==
  IInv /\ [Next]_vars => [Registry!Next]_<<pxyManager, Released>>
<1> SUFFICES ASSUME IInv, [Next]_vars
             PROVE  Registry!Next \/ UNCHANGED <<pxyManager, Released>>
  OBVIOUS
<1>a. TypeOK /\ MsgInHand /\ PhaseOrder /\ NameOwnership
  BY DEF IInv
<1> USE ControlAssumption
<1>1. ASSUME NEW c \in Control, WaitOld(c) PROVE Registry!Next \/ UNCHANGED <<pxyManager, Released>>
  BY <1>1, <1>a DEF WaitOld, Released
<1>2. ASSUME NEW c \in Control, Start(c) PROVE Registry!Next \/ UNCHANGED <<pxyManager, Released>>
  <2>1. Released' = Released
    BY <1>2, <1>a DEF Start, Released, TypeOK, PhaseOrder, Started
  <2> QED
    BY <1>2, <2>1 DEF Start
<1>3. ASSUME NEW c \in Control, Watch(c) PROVE Registry!Next \/ UNCHANGED <<pxyManager, Released>>
  BY <1>3, <1>a DEF Watch, Del, Released
<1>4. ASSUME NEW c \in Control, RefuseLogin(c) PROVE Registry!Next \/ UNCHANGED <<pxyManager, Released>>
  BY <1>4, <1>a DEF RefuseLogin, Released
<1>5. ASSUME NEW c \in Control, \E r \in RunID : Login(c, r) PROVE Registry!Next \/ UNCHANGED <<pxyManager, Released>>
  BY <1>5, <1>a DEF Login, Released
<1>6. ASSUME NEW c \in Control, ReadMsg(c) PROVE Registry!Next \/ UNCHANGED <<pxyManager, Released>>
  BY <1>6, <1>a DEF ReadMsg, Released
<1>7. ASSUME NEW c \in Control, ReadEOF(c) PROVE Registry!Next \/ UNCHANGED <<pxyManager, Released>>
  BY <1>7, <1>a DEF ReadEOF, ReaderExit, Released
<1>8. ASSUME NEW c \in Control, ReadError(c) PROVE Registry!Next \/ UNCHANGED <<pxyManager, Released>>
  BY <1>8, <1>a DEF ReadError, ReaderExit, Released
<1>9. ASSUME NEW c \in Control, SendReqWorkConn(c) PROVE Registry!Next \/ UNCHANGED <<pxyManager, Released>>
  BY <1>9, <1>a DEF SendReqWorkConn, Released
<1>10. ASSUME NEW c \in Control, WriteMsg(c) PROVE Registry!Next \/ UNCHANGED <<pxyManager, Released>>
  BY <1>10, <1>a DEF WriteMsg, Released
<1>11. ASSUME NEW c \in Control, HeartbeatTimeout(c) PROVE Registry!Next \/ UNCHANGED <<pxyManager, Released>>
  BY <1>11, <1>a DEF HeartbeatTimeout, ManagerExit, Released
<1>12. ASSUME NEW c \in Control, PutMsg(c) PROVE Registry!Next \/ UNCHANGED <<pxyManager, Released>>
  BY <1>12, <1>a DEF PutMsg, Released
<1>13. ASSUME NEW c \in Control, ReadClosed(c) PROVE Registry!Next \/ UNCHANGED <<pxyManager, Released>>
  BY <1>13, <1>a DEF ReadClosed, ReaderExit, Released
<1>14. ASSUME NEW c \in Control, WriteError(c) PROVE Registry!Next \/ UNCHANGED <<pxyManager, Released>>
  BY <1>14, <1>a DEF WriteError, Released
<1>15. ASSUME NEW c \in Control, WriterClosed(c) PROVE Registry!Next \/ UNCHANGED <<pxyManager, Released>>
  BY <1>15, <1>a DEF WriterClosed, Released
<1>16. ASSUME NEW c \in Control, Receive(c) PROVE Registry!Next \/ UNCHANGED <<pxyManager, Released>>
  BY <1>16, <1>a DEF Receive, Dispatch, Released
<1>17. ASSUME NEW c \in Control, ManagerClosed(c) PROVE Registry!Next \/ UNCHANGED <<pxyManager, Released>>
  BY <1>17, <1>a DEF ManagerClosed, ManagerExit, Released
<1>18. ASSUME NEW c \in Control, RejectPing(c) PROVE Registry!Next \/ UNCHANGED <<pxyManager, Released>>
  BY <1>18, <1>a DEF RejectPing, ManagerExit, Released
<1>19. ASSUME NEW c \in Control, Respond(c) PROVE Registry!Next \/ UNCHANGED <<pxyManager, Released>>
  BY <1>19, <1>a DEF Respond, Released
<1>20. ASSUME NEW c \in Control, RefuseProxy(c) PROVE Registry!Next \/ UNCHANGED <<pxyManager, Released>>
  BY <1>20, <1>a DEF RefuseProxy, RegisterFrame, Released
<1>21. ASSUME NEW c \in Control, ReservePorts(c) PROVE Registry!Next \/ UNCHANGED <<pxyManager, Released>>
  BY <1>21, <1>a DEF ReservePorts, RegisterFrame, ExceedsPorts, Released
<1>22. ASSUME NEW c \in Control, CheckExist(c) PROVE Registry!Next \/ UNCHANGED <<pxyManager, Released>>
  BY <1>22, <1>a DEF CheckExist, RegisterFrame, Rollback, Released
<1>23. ASSUME NEW c \in Control, RunProxy(c) PROVE Registry!Next \/ UNCHANGED <<pxyManager, Released>>
  BY <1>23, <1>a DEF RunProxy, RegisterFrame, Rollback, Released
<1>24. ASSUME NEW c \in Control, AddProxy(c) PROVE Registry!Next \/ UNCHANGED <<pxyManager, Released>>
  <2>1. PICK n \in Name : n = managerMsg[c].name
    BY <1>24, <1>a, NameOfMsg DEF AddProxy, MsgInHand, Registering
  <2>2. c \notin Released /\ UNCHANGED Released
    BY <1>24, <1>a DEF AddProxy, RegisterFrame, Released, PhaseOrder, SendChClosed
  <2>3. \/ UNCHANGED pxyManager
        \/ pxyManager[n] = NoControl /\ pxyManager' = [pxyManager EXCEPT ![n] = c]
    BY <1>24, <2>1 DEF AddProxy
  <2>4. CASE UNCHANGED pxyManager
    BY <2>2, <2>4
  <2>5. CASE pxyManager[n] = NoControl /\ pxyManager' = [pxyManager EXCEPT ![n] = c]
    <3>1. Registry!Claim(c, n)
      BY <2>2, <2>5 DEF Registry!Claim, Released
    <3> QED
      BY <2>1, <3>1 DEF Registry!Next
  <2> QED
    BY <2>3, <2>4, <2>5
<1>25. ASSUME NEW c \in Control, RecordProxy(c) PROVE Registry!Next \/ UNCHANGED <<pxyManager, Released>>
  BY <1>25, <1>a DEF RecordProxy, RegisterFrame, Released
<1>26. ASSUME NEW c \in Control, CloseProxy(c) PROVE Registry!Next \/ UNCHANGED <<pxyManager, Released>>
  <2>1. PICK n \in Name : n = managerMsg[c].name
    BY <1>26, <1>a, NameOfMsg DEF CloseProxy, MsgInHand, Registering
  <2>2. UNCHANGED Released
    BY <1>26 DEF CloseProxy, RegisterFrame, Released
  <2>3. stoper[c] \notin {"closing", "released"}
    BY <1>26, <1>a DEF CloseProxy, PhaseOrder, SendChClosed
  <2>4. CASE UNCHANGED pxyVars
    BY <2>2, <2>4
  <2>5. CASE n \in proxies[c] /\ pxyManager' = [pxyManager EXCEPT ![n] = NoControl]
    <3>1. pxyManager[n] = c
      BY <1>a, <2>1, <2>3, <2>5 DEF NameOwnership, Holds
    <3>2. Registry!GiveUp(n)
      BY <2>2, <2>5, <3>1 DEF Registry!GiveUp, Released
    <3> QED
      BY <3>2 DEF Registry!Next
  <2> QED
    BY <1>26, <2>1, <2>4, <2>5 DEF CloseProxy
<1>27. ASSUME NEW c \in Control, StopConn(c) PROVE Registry!Next \/ UNCHANGED <<pxyManager, Released>>
  <2>1. Released' = Released
    BY <1>27, <1>a DEF StopConn, Released, TypeOK
  <2> QED
    BY <1>27, <2>1 DEF StopConn
<1>28. ASSUME NEW c \in Control, StopReader(c) PROVE Registry!Next \/ UNCHANGED <<pxyManager, Released>>
  <2>1. Released' = Released
    BY <1>28, <1>a DEF StopReader, Released, TypeOK
  <2> QED
    BY <1>28, <2>1 DEF StopReader
<1>29. ASSUME NEW c \in Control, StopManager(c) PROVE Registry!Next \/ UNCHANGED <<pxyManager, Released>>
  <2>1. Released' = Released
    BY <1>29, <1>a DEF StopManager, Released, TypeOK
  <2> QED
    BY <1>29, <2>1 DEF StopManager
<1>30. ASSUME NEW c \in Control, StopWriter(c) PROVE Registry!Next \/ UNCHANGED <<pxyManager, Released>>
  <2>1. Released' = Released
    BY <1>30, <1>a DEF StopWriter, Released, TypeOK
  <2> QED
    BY <1>30, <2>1 DEF StopWriter
<1>31. ASSUME NEW c \in Control, StopProxy(c) PROVE Registry!Next \/ UNCHANGED <<pxyManager, Released>>
  <2>1. PICK n \in closing[c] : pxyManager' = [pxyManager EXCEPT ![n] = NoControl]
    BY <1>31 DEF StopProxy
  <2>2. n \in Name /\ pxyManager[n] = c
    BY <1>a, <2>1 DEF TypeOK, NameOwnership, Holds
  <2>3. UNCHANGED Released
    BY <1>31 DEF StopProxy, Released
  <2>4. Registry!GiveUp(n)
    BY <2>1, <2>2, <2>3 DEF Registry!GiveUp, Released
  <2> QED
    BY <2>2, <2>4 DEF Registry!Next
<1>32. ASSUME NEW c \in Control, StopDone(c) PROVE Registry!Next \/ UNCHANGED <<pxyManager, Released>>
  <2>1. \A n \in Name : pxyManager[n] # c
    BY <1>32, <1>a DEF StopDone, NameOwnership, Holds, PhaseOrder, SendChClosed
  <2>2. c \notin Released /\ Released' = Released \cup {c} /\ UNCHANGED pxyManager
    BY <1>32, <1>a DEF StopDone, Released, TypeOK
  <2>3. Registry!Close(c)
    BY <2>1, <2>2 DEF Registry!Close, Released
  <2> QED
    BY <2>3 DEF Registry!Next
<1>33. ASSUME NEW r \in RunID, CloseUser(r) PROVE Registry!Next \/ UNCHANGED <<pxyManager, Released>>
  BY <1>33, <1>a DEF CloseUser, Released
<1>34. ASSUME CloseAll PROVE Registry!Next \/ UNCHANGED <<pxyManager, Released>>
  BY <1>34, <1>a DEF CloseAll, Released
<1>35. ASSUME UNCHANGED vars PROVE Registry!Next \/ UNCHANGED <<pxyManager, Released>>
  BY <1>35, <1>a DEF vars, Released
<1> QED
  BY <1>1, <1>2, <1>3, <1>4, <1>5, <1>6, <1>7, <1>8, <1>9, <1>10, <1>11, <1>12, <1>13, <1>14, <1>15, <1>16, <1>17, <1>18, <1>19, <1>20, <1>21, <1>22, <1>23, <1>24, <1>25, <1>26, <1>27, <1>28, <1>29, <1>30, <1>31, <1>32, <1>33, <1>34, <1>35
  DEF Next, LoginStep, Environment, ReaderStep, WriterStep, ManagerStep, RegisterStep,
      StoperStep

\* A name changes hands only by being given up, and never goes to a control
\* that has reported itself closed.
THEOREM Refinement == Spec => ImplementsRegistry
<1>1. Init => Registry!Init
  BY RegistryInit
<1>2. IInv /\ [Next]_vars
        => [Registry!Next]_<<pxyManager, {c \in Control : stoper[c] = "released"}>>
  BY RegistryStep DEF Released
<1> QED
  BY Invariance, <1>1, <1>2, PTL DEF Spec, ImplementsRegistry, Registry!Spec

-----------------------------------------------------------------------------
(* A control that is not being shut down can be found under its run id.    *)

\* Only controls whose shutdown has been started are waited for, are past the
\* first step of their stoper, or are marked done.
StopOrder ==
  /\ done \subseteq stopping
  /\ \A c \in Control :
       /\ login[c] = "waitOld" => oldCtl[c] \in stopping
       /\ stoper[c] \notin {"off", "wait"} => c \in stopping
       /\ login[c] \in {"waitOld", "start", "running", "gone"} => loginID[c] \in RunID

\* No step hides a live control from its run id.
LEMMA FindableStep ==
  IInv /\ StopOrder /\ LiveControlFindable /\ [Next]_vars
    => StopOrder' /\ LiveControlFindable'
<1> SUFFICES ASSUME IInv, StopOrder, LiveControlFindable, [Next]_vars
             PROVE  StopOrder' /\ LiveControlFindable'
  OBVIOUS
<1>a. TypeOK /\ MsgInHand /\ PhaseOrder /\ StopOrder /\ LiveControlFindable
  BY DEF IInv
<1> USE ControlAssumption
<1>1. ASSUME NEW c \in Control, WaitOld(c) PROVE StopOrder' /\ LiveControlFindable'
  BY <1>1, <1>a DEF WaitOld, TypeOK, StopOrder, LiveControlFindable
<1>2. ASSUME NEW c \in Control, Start(c) PROVE StopOrder' /\ LiveControlFindable'
  BY <1>2, <1>a DEF Start, TypeOK, StopOrder, LiveControlFindable
<1>3. ASSUME NEW c \in Control, Watch(c) PROVE StopOrder' /\ LiveControlFindable'
  BY <1>3, <1>a DEF Watch, Del, TypeOK, StopOrder, LiveControlFindable
<1>4. ASSUME NEW c \in Control, RefuseLogin(c) PROVE StopOrder' /\ LiveControlFindable'
  BY <1>4, <1>a DEF RefuseLogin, TypeOK, StopOrder, LiveControlFindable
<1>5. ASSUME NEW c \in Control, \E r \in RunID : Login(c, r) PROVE StopOrder' /\ LiveControlFindable'
  BY <1>5, <1>a DEF Login, TypeOK, StopOrder, LiveControlFindable
<1>6. ASSUME NEW c \in Control, ReadMsg(c) PROVE StopOrder' /\ LiveControlFindable'
  BY <1>6, <1>a DEF ReadMsg, TypeOK, StopOrder, LiveControlFindable
<1>7. ASSUME NEW c \in Control, ReadEOF(c) PROVE StopOrder' /\ LiveControlFindable'
  BY <1>7, <1>a DEF ReadEOF, ReaderExit, TypeOK, StopOrder, LiveControlFindable
<1>8. ASSUME NEW c \in Control, ReadError(c) PROVE StopOrder' /\ LiveControlFindable'
  BY <1>8, <1>a DEF ReadError, ReaderExit, TypeOK, StopOrder, LiveControlFindable
<1>9. ASSUME NEW c \in Control, SendReqWorkConn(c) PROVE StopOrder' /\ LiveControlFindable'
  BY <1>9, <1>a DEF SendReqWorkConn, TypeOK, StopOrder, LiveControlFindable
<1>10. ASSUME NEW c \in Control, WriteMsg(c) PROVE StopOrder' /\ LiveControlFindable'
  BY <1>10, <1>a DEF WriteMsg, TypeOK, StopOrder, LiveControlFindable
<1>11. ASSUME NEW c \in Control, HeartbeatTimeout(c) PROVE StopOrder' /\ LiveControlFindable'
  BY <1>11, <1>a DEF HeartbeatTimeout, ManagerExit, TypeOK, StopOrder, LiveControlFindable
<1>12. ASSUME NEW c \in Control, PutMsg(c) PROVE StopOrder' /\ LiveControlFindable'
  BY <1>12, <1>a DEF PutMsg, TypeOK, StopOrder, LiveControlFindable
<1>13. ASSUME NEW c \in Control, ReadClosed(c) PROVE StopOrder' /\ LiveControlFindable'
  BY <1>13, <1>a DEF ReadClosed, ReaderExit, TypeOK, StopOrder, LiveControlFindable
<1>14. ASSUME NEW c \in Control, WriteError(c) PROVE StopOrder' /\ LiveControlFindable'
  BY <1>14, <1>a DEF WriteError, TypeOK, StopOrder, LiveControlFindable
<1>15. ASSUME NEW c \in Control, WriterClosed(c) PROVE StopOrder' /\ LiveControlFindable'
  BY <1>15, <1>a DEF WriterClosed, TypeOK, StopOrder, LiveControlFindable
<1>16. ASSUME NEW c \in Control, Receive(c) PROVE StopOrder' /\ LiveControlFindable'
  BY <1>16, <1>a DEF Receive, Dispatch, TypeOK, StopOrder, LiveControlFindable
<1>17. ASSUME NEW c \in Control, ManagerClosed(c) PROVE StopOrder' /\ LiveControlFindable'
  BY <1>17, <1>a DEF ManagerClosed, ManagerExit, TypeOK, StopOrder, LiveControlFindable
<1>18. ASSUME NEW c \in Control, RejectPing(c) PROVE StopOrder' /\ LiveControlFindable'
  BY <1>18, <1>a DEF RejectPing, ManagerExit, TypeOK, StopOrder, LiveControlFindable
<1>19. ASSUME NEW c \in Control, Respond(c) PROVE StopOrder' /\ LiveControlFindable'
  BY <1>19, <1>a DEF Respond, TypeOK, StopOrder, LiveControlFindable
<1>20. ASSUME NEW c \in Control, RefuseProxy(c) PROVE StopOrder' /\ LiveControlFindable'
  BY <1>20, <1>a DEF RefuseProxy, RegisterFrame, TypeOK, StopOrder, LiveControlFindable
<1>21. ASSUME NEW c \in Control, ReservePorts(c) PROVE StopOrder' /\ LiveControlFindable'
  BY <1>21, <1>a DEF ReservePorts, RegisterFrame, ExceedsPorts, TypeOK, StopOrder, LiveControlFindable
<1>22. ASSUME NEW c \in Control, CheckExist(c) PROVE StopOrder' /\ LiveControlFindable'
  BY <1>22, <1>a DEF CheckExist, RegisterFrame, Rollback, TypeOK, StopOrder, LiveControlFindable
<1>23. ASSUME NEW c \in Control, RunProxy(c) PROVE StopOrder' /\ LiveControlFindable'
  BY <1>23, <1>a DEF RunProxy, RegisterFrame, Rollback, TypeOK, StopOrder, LiveControlFindable
<1>24. ASSUME NEW c \in Control, AddProxy(c) PROVE StopOrder' /\ LiveControlFindable'
  BY <1>24, <1>a DEF AddProxy, RegisterFrame, Rollback, TypeOK, StopOrder, LiveControlFindable
<1>25. ASSUME NEW c \in Control, RecordProxy(c) PROVE StopOrder' /\ LiveControlFindable'
  BY <1>25, <1>a DEF RecordProxy, RegisterFrame, TypeOK, StopOrder, LiveControlFindable
<1>26. ASSUME NEW c \in Control, CloseProxy(c) PROVE StopOrder' /\ LiveControlFindable'
  BY <1>26, <1>a DEF CloseProxy, RegisterFrame, Rollback, TypeOK, StopOrder, LiveControlFindable
<1>27. ASSUME NEW c \in Control, StopConn(c) PROVE StopOrder' /\ LiveControlFindable'
  <2>1. /\ c \in stopping /\ UNCHANGED <<ctls, login, loginID, oldCtl, stopping, done>>
        /\ \E s : stoper' = [stoper EXCEPT ![c] = s]
    BY <1>27 DEF StopConn, StoperFrame
  <2> QED BY <2>1, <1>a DEF TypeOK, StopOrder, LiveControlFindable
<1>28. ASSUME NEW c \in Control, StopReader(c) PROVE StopOrder' /\ LiveControlFindable'
  BY <1>28, <1>a DEF StopReader, StoperFrame, TypeOK, StopOrder, LiveControlFindable
<1>29. ASSUME NEW c \in Control, StopManager(c) PROVE StopOrder' /\ LiveControlFindable'
  BY <1>29, <1>a DEF StopManager, StoperFrame, TypeOK, StopOrder, LiveControlFindable
<1>30. ASSUME NEW c \in Control, StopWriter(c) PROVE StopOrder' /\ LiveControlFindable'
  BY <1>30, <1>a DEF StopWriter, StoperFrame, TypeOK, StopOrder, LiveControlFindable
<1>31. ASSUME NEW c \in Control, StopProxy(c) PROVE StopOrder' /\ LiveControlFindable'
  BY <1>31, <1>a DEF StopProxy, StoperFrame, TypeOK, StopOrder, LiveControlFindable
<1>32. ASSUME NEW c \in Control, StopDone(c) PROVE StopOrder' /\ LiveControlFindable'
  BY <1>32, <1>a DEF StopDone, StoperFrame, TypeOK, StopOrder, LiveControlFindable
<1>33. ASSUME NEW r \in RunID, CloseUser(r) PROVE StopOrder' /\ LiveControlFindable'
  BY <1>33, <1>a DEF CloseUser, TypeOK, StopOrder, LiveControlFindable
<1>34. ASSUME CloseAll PROVE StopOrder' /\ LiveControlFindable'
  BY <1>34, <1>a DEF CloseAll, TypeOK, StopOrder, LiveControlFindable
<1>35. ASSUME UNCHANGED vars PROVE StopOrder' /\ LiveControlFindable'
  BY <1>35, <1>a DEF vars, TypeOK, StopOrder, LiveControlFindable
<1> QED
  BY <1>1, <1>2, <1>3, <1>4, <1>5, <1>6, <1>7, <1>8, <1>9, <1>10, <1>11, <1>12, <1>13, <1>14, <1>15, <1>16, <1>17, <1>18, <1>19, <1>20, <1>21, <1>22, <1>23, <1>24, <1>25, <1>26, <1>27, <1>28, <1>29, <1>30, <1>31, <1>32, <1>33, <1>34, <1>35
  DEF Next, LoginStep, Environment, ReaderStep, WriterStep, ManagerStep, RegisterStep,
      StoperStep

\* Work connections, which are looked up by run id, reach a control until its
\* shutdown is started: neither a later Add nor a late Del hides it.
THEOREM LiveControlsAreFound == Spec => []LiveControlFindable
<1>1. Init => StopOrder /\ LiveControlFindable
  BY DEF Init, StopOrder, LiveControlFindable
<1>2. Init /\ [][Next]_vars /\ []IInv => [](StopOrder /\ LiveControlFindable)
  BY <1>1, FindableStep, PTL
<1> QED
  BY Invariance, <1>2, PTL DEF Spec
-----------------------------------------------------------------------------
(* The shutdown of a control: which of its goroutines can go on.           *)

ReaderCanRun(c) ==
  \/ reader[c] = "put" /\ Len(readCh[c]) < ChanCap
  \/ reader[c] = "read" /\ c \notin open

WriterCanRun(c) ==
  writer[c] = "recv" /\ c \notin open /\ (sendCh[c] > 0 \/ SendChClosed(c))

ManagerCanRun(c) ==
  \/ manager[c] \in Registering
  \/ manager[c] = "select" /\ (readCh[c] # <<>> \/ ReadChClosed(c))
  \/ manager[c] \in {"respond", "reject"} /\ sendCh[c] < ChanCap

StoperCanRun(c) ==
  \/ stoper[c] = "wait" /\ c \in stopping
  \/ stoper[c] = "waitReader" /\ reader[c] = "done"
  \/ stoper[c] = "waitManager" /\ manager[c] = "done"
  \/ stoper[c] = "waitWriter" /\ writer[c] = "done"
  \/ stoper[c] = "closing"

\* The reader waits for room in a readCh nobody receives from any more.
ReaderStuck(c) ==
  reader[c] = "put" /\ Len(readCh[c]) = ChanCap /\ manager[c] = "done"

\* The manager waits for room in a sendCh nobody receives from any more.
ManagerStuck(c) ==
  manager[c] \in {"respond", "reject"} /\ sendCh[c] = ChanCap /\ writer[c] = "done"

\* A control that was told to stop has a goroutine that can go on until it is
\* released, or it is stuck in one of two ways, or a Close made its stoper return.
ShutdownMoves ==
  \A c \in Control :
    /\ Started(c) /\ c \in stopping
    /\ stoper[c] \notin {"released", "closeFailed", "drainFailed"}
    => \/ ReaderCanRun(c) \/ WriterCanRun(c) \/ ManagerCanRun(c) \/ StoperCanRun(c)
       \/ ReaderStuck(c) \/ ManagerStuck(c)

\* Nothing a client, another control or the service does frees one that is stuck.
StaysStuck ==
  \A c \in Control :
    /\ ReaderStuck(c) => ReaderStuck(c)'
    /\ ManagerStuck(c) => ManagerStuck(c)'

\* A control whose goroutines run has all four, the connection of one whose
\* stoper has begun is closed, and readCh is a channel of ChanCap.
RunInv ==
  \A c \in Control :
    /\ Started(c) => /\ reader[c] # "off" /\ writer[c] # "off"
                     /\ manager[c] # "off" /\ stoper[c] # "off"
    /\ stoper[c] \notin {"off", "wait"} => c \notin open
    /\ Len(readCh[c]) <= ChanCap

\* The steps of one control that move its goroutines, its connection or readCh.
LEMMA RunOfControl ==
  ASSUME IInv, RunInv, NEW c \in Control,
         LoginStep(c) \/ Environment(c) \/ ReaderStep(c) \/ WriterStep(c) \/ ManagerStep(c)
         \/ StoperStep(c)
  PROVE  RunInv'
<1>a. TypeOK /\ PhaseOrder
  BY DEF IInv
<1> USE BoundAssumption DEF RunInv, Started
<1>1. CASE WaitOld(c) \/ Watch(c) \/ RefuseLogin(c) \/ \E r \in RunID : Login(c, r)
  BY <1>1, <1>a DEF WaitOld, Watch, RefuseLogin, Login, TypeOK, PhaseOrder
<1>2. CASE Start(c)
  BY <1>2, <1>a DEF Start, TypeOK
<1>3. CASE ReadMsg(c) \/ ReadEOF(c) \/ ReadError(c) \/ ReadClosed(c)
  BY <1>3, <1>a DEF ReadMsg, ReadEOF, ReadError, ReadClosed, ReaderExit, TypeOK
<1>4. CASE PutMsg(c)
  <2>1. Len(Append(readCh[c], readerMsg[c])) = Len(readCh[c]) + 1 /\ Len(readCh[c]) \in Nat
    <3>1. readCh[c] \in Seq(Message) /\ readerMsg[c] \in Message
      BY <1>4, <1>a DEF PutMsg, TypeOK, IInv, MsgInHand
    <3> QED BY <3>1
  <2>2. Len(readCh[c]) + 1 <= ChanCap
    BY <1>4, <2>1 DEF PutMsg
  <2> QED BY <1>4, <1>a, <2>1, <2>2 DEF PutMsg, TypeOK
<1>5. CASE Receive(c)
  <2>1. Len(Tail(readCh[c])) <= Len(readCh[c]) /\ Len(readCh[c]) \in Nat /\ Len(Tail(readCh[c])) \in Nat
    <3>1. readCh[c] \in Seq(Message) /\ readCh[c] # <<>>
      BY <1>5, <1>a DEF Receive, TypeOK
    <3> QED BY <3>1
  <2>2. Dispatch(Head(readCh[c])) # "off"
    BY Zenon DEF Dispatch
  <2> QED BY <1>5, <1>a, <2>1, <2>2 DEF Receive, TypeOK
<1>6. CASE SendReqWorkConn(c) \/ WriteMsg(c) \/ WriteError(c) \/ WriterClosed(c)
  BY <1>6, <1>a DEF SendReqWorkConn, WriteMsg, WriteError, WriterClosed, TypeOK
<1>7. CASE HeartbeatTimeout(c) \/ ManagerClosed(c) \/ RejectPing(c)
  BY <1>7, <1>a DEF HeartbeatTimeout, ManagerClosed, RejectPing, ManagerExit, TypeOK
<1>8. CASE Respond(c) \/ RegisterStep(c) \/ CloseProxy(c)
  <2>1. manager' \in {[manager EXCEPT ![c] = s] : s \in {"select", "respond", "exist", "run", "add", "record"}}
    BY <1>8 DEF Respond, RegisterStep, RefuseProxy, ReservePorts, CheckExist, RunProxy, AddProxy,
       RecordProxy, CloseProxy
  <2>2. UNCHANGED <<login, reader, writer, stoper, open, readCh>>
    BY <1>8 DEF Respond, RegisterStep, RefuseProxy, ReservePorts, CheckExist, RunProxy, AddProxy,
       RecordProxy, CloseProxy, RegisterFrame
  <2> QED BY <2>1, <2>2, <1>a DEF TypeOK
<1>9. CASE StoperStep(c)
  <2>1. UNCHANGED <<login, reader, writer, manager, readCh>>
    BY <1>9 DEF StoperStep, StopConn, StopReader, StopManager, StopWriter, StopProxy, StopDone,
       StoperFrame
  <2>2. CASE StopConn(c)
    BY <2>1, <2>2, <1>a DEF StopConn, TypeOK
  <2>3. CASE StopReader(c) \/ StopManager(c) \/ StopDone(c)
    BY <2>1, <2>3, <1>a DEF StopReader, StopManager, StopDone, TypeOK
  <2>4. CASE StopWriter(c) \/ StopProxy(c)
    BY <2>1, <2>4, <1>a DEF StopWriter, StopProxy, TypeOK
  <2> QED BY <1>9, <2>2, <2>3, <2>4 DEF StoperStep
<1> QED BY <1>1, <1>2, <1>3, <1>4, <1>5, <1>6, <1>7, <1>8, <1>9
  DEF LoginStep, Environment, ReaderStep, WriterStep, ManagerStep

LEMMA RunStep == IInv /\ RunInv /\ [Next]_vars => RunInv'
<1> SUFFICES ASSUME IInv, RunInv, [Next]_vars PROVE RunInv'
  OBVIOUS
<1>1. CASE CloseAll \/ (\E r \in RunID : CloseUser(r)) \/ UNCHANGED vars
  BY <1>1 DEF CloseAll, CloseUser, vars, RunInv, Started
<1> QED BY <1>1, RunOfControl DEF Next

\* A shutdown never just stops on the way: as long as no Close failed, some goroutine of
\* the control can go on until it is released, except in two situations, the reader at a
\* full readCh after the manager has left and the manager at a full sendCh after the
\* writer has left.  It is the safety part of ReleaseCompletes, for channels of any size.
THEOREM ShutdownStallsTwoWays == Spec => []ShutdownMoves
<1>1. Init => RunInv
  BY BoundAssumption DEF Init, RunInv, Started
<1>2. Init /\ [][Next]_vars /\ []IInv => []RunInv
  BY <1>1, RunStep, PTL
<1>3. IInv /\ RunInv => ShutdownMoves
  <2> SUFFICES ASSUME IInv, RunInv, NEW c \in Control, Started(c), c \in stopping,
                      stoper[c] \notin {"released", "closeFailed", "drainFailed"}
               PROVE  \/ ReaderCanRun(c) \/ WriterCanRun(c) \/ ManagerCanRun(c) \/ StoperCanRun(c)
                      \/ ReaderStuck(c) \/ ManagerStuck(c)
    BY DEF ShutdownMoves
  <2>1. /\ reader[c] \in {"read", "put", "done"} /\ writer[c] \in {"recv", "done"}
        /\ manager[c] \in Registering \cup {"select", "respond", "reject", "done"}
        /\ stoper[c] \in {"wait", "waitReader", "waitManager", "waitWriter", "closing"}
        /\ sendCh[c] \in 0..ChanCap /\ Len(readCh[c]) <= ChanCap
        /\ stoper[c] # "wait" => c \notin open
    BY DEF IInv, TypeOK, RunInv, Registering, ManagerState, StoperState
  <2>2. Len(readCh[c]) \in Nat /\ (readCh[c] = <<>> => Len(readCh[c]) = 0)
    <3>1. readCh[c] \in Seq(Message)
      BY DEF IInv, TypeOK
    <3> QED BY <3>1
  <2>3. CASE stoper[c] \in {"wait", "closing"}
    BY <2>3 DEF StoperCanRun
  <2>4. ASSUME stoper[c] # "wait"
        PROVE  manager[c] \in {"done", "select"} \/ ManagerCanRun(c) \/ WriterCanRun(c) \/ ManagerStuck(c)
    BY <2>1, <2>4, BoundAssumption DEF ManagerCanRun, WriterCanRun, ManagerStuck
  <2>5. CASE stoper[c] = "waitReader"
    BY <2>1, <2>2, <2>4, <2>5, BoundAssumption DEF StoperCanRun, ReaderCanRun, ReaderStuck, ManagerCanRun
  <2>6. CASE stoper[c] = "waitManager"
    BY <2>4, <2>6 DEF StoperCanRun, ManagerCanRun, ReadChClosed
  <2>7. CASE stoper[c] = "waitWriter"
    BY <2>1, <2>7 DEF StoperCanRun, WriterCanRun, SendChClosed
  <2> QED BY <2>1, <2>3, <2>5, <2>6, <2>7
<1> QED
  BY Invariance, <1>2, <1>3, PTL DEF Spec

\* No step of a control takes it out of one of the two situations.
LEMMA StuckStep ==
  ASSUME IInv, [Next]_vars, NEW c \in Control
  PROVE  (ReaderStuck(c) => ReaderStuck(c)') /\ (ManagerStuck(c) => ManagerStuck(c)')
<1>a. TypeOK /\ PhaseOrder
  BY DEF IInv
<1> USE BoundAssumption DEF ReaderStuck, ManagerStuck
<1>1. ASSUME NEW d \in Control, LoginStep(d)
      PROVE  (ReaderStuck(c) => ReaderStuck(c)') /\ (ManagerStuck(c) => ManagerStuck(c)')
  BY <1>1, <1>a DEF LoginStep, WaitOld, Start, Watch, TypeOK, PhaseOrder, Started
<1>2. ASSUME NEW d \in Control, Environment(d)
      PROVE  (ReaderStuck(c) => ReaderStuck(c)') /\ (ManagerStuck(c) => ManagerStuck(c)')
  BY <1>2, <1>a DEF Environment, RefuseLogin, Login, ReadMsg, ReadEOF, ReadError, ReaderExit,
     SendReqWorkConn, WriteMsg, HeartbeatTimeout, ManagerExit, TypeOK
<1>3. ASSUME NEW d \in Control, ReaderStep(d) \/ WriterStep(d)
      PROVE  (ReaderStuck(c) => ReaderStuck(c)') /\ (ManagerStuck(c) => ManagerStuck(c)')
  BY <1>3, <1>a DEF ReaderStep, WriterStep, PutMsg, ReadClosed, ReaderExit, WriteError,
     WriterClosed, TypeOK
<1>4. ASSUME NEW d \in Control, ManagerStep(d)
      PROVE  (ReaderStuck(c) => ReaderStuck(c)') /\ (ManagerStuck(c) => ManagerStuck(c)')
  <2>1. d = c => ~ReaderStuck(c) /\ ~ManagerStuck(c)
    BY <1>4, <1>a DEF ManagerStep, Receive, ManagerClosed, RejectPing, Respond, RegisterStep,
       RefuseProxy, ReservePorts, CheckExist, RunProxy, AddProxy, RecordProxy, CloseProxy, TypeOK
  <2>2. /\ \E s : manager' = [manager EXCEPT ![d] = s]
        /\ UNCHANGED <<reader, writer>>
        /\ readCh' = readCh \/ readCh' = [readCh EXCEPT ![d] = Tail(@)]
        /\ sendCh' = sendCh \/ sendCh' = [sendCh EXCEPT ![d] = @ + 1]
    BY <1>4 DEF ManagerStep, Receive, ManagerClosed, RejectPing, Respond, RegisterStep,
       RefuseProxy, ReservePorts, CheckExist, RunProxy, AddProxy, RecordProxy, CloseProxy,
       ManagerExit, RegisterFrame
  <2> QED BY <2>1, <2>2, <1>a DEF TypeOK
<1>5. CASE (\E d \in Control : StoperStep(d)) \/ CloseAll \/ (\E r \in RunID : CloseUser(r)) \/ UNCHANGED vars
  <2>1. UNCHANGED <<reader, writer, manager, readCh, sendCh>>
    BY <1>5 DEF CloseAll, CloseUser, vars, StoperStep, StopConn, StopReader, StopManager, StopWriter,
       StopProxy, StopDone, StoperFrame
  <2> QED BY <2>1
<1> QED BY <1>1, <1>2, <1>3, <1>4, <1>5 DEF Next

\* The two situations are deadlocks of the control: once in one of them, its reader or
\* its manager stays in it for ever, and with it the stoper that waits for them.
THEOREM StuckStaysStuck == Spec => [][StaysStuck]_vars
<1>1. IInv /\ [Next]_vars => [StaysStuck]_vars
  BY StuckStep DEF StaysStuck
<1> QED BY Invariance, <1>1, PTL DEF Spec
=============================================================================
