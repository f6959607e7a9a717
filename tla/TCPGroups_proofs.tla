-------------------------- MODULE TCPGroups_proofs --------------------------
(***************************************************************************)
(* Proofs about the tcp proxies and their groups, for any number of        *)
(* proxies, configurations, ports and groups.                              *)
(***************************************************************************)
EXTENDS TCPGroups, TLAPS

Grouped(p) == cfg[p].group # NoGroup

\* What each stage of a proxy implies of its own fields.
StageFields ==
  \A p \in Proxy :
    /\ stage[p] # "new" => cfg[p] \in Config
    /\ stage[p] \in {"listen", "release"} => ~Grouped(p)
    /\ stage[p] \in {"join", "groupListen", "leave"} => Grouped(p)
    /\ stage[p] # "new" /\ Grouped(p) => joined[p] \in TCPGroup
    /\ stage[p] \in {"listen", "groupListen", "up", "running", "closing", "release",
                     "leave"}
         => realPort[p] \in AllowPort
    /\ stage[p] = "groupListen" => cfg[p].port \in {realPort[p], NoPort}

\* The mutex of a group: one proxy at a time sets up the first listener.
LockHolder ==
  /\ \A p \in Proxy : stage[p] = "groupListen" => lns[joined[p]] = {}
  /\ \A p, q \in Proxy :
       stage[p] = "groupListen" /\ stage[q] = "groupListen" /\ joined[p] = joined[q]
         => p = q

InGroup(p) == stage[p] \in {"up", "running", "closing", "leave"} /\ Grouped(p)

\* The listeners of a group are those of the proxies in it.
Membership ==
  /\ \A t \in TCPGroup : \A p \in lns[t] : InGroup(p) /\ joined[p] = t
  /\ \A p \in Proxy : InGroup(p) => p \in lns[joined[p]]

IInv ==
  TypeOK /\ PortTables /\ StageFields /\ LockHolder /\ Membership /\ GroupMembersAgree

USE DEF pxyVars, groupVars, portVars

\* The initial state satisfies the inductive invariant.
LEMMA InitIInv == Init => IInv
  BY ConfigAssumption, GroupAssumption, PortAssumption
  DEF Init, PortsInit, IInv, TypeOK, PortsTypeOK, PortTables, StageFields, LockHolder,
      InGroup, Membership, GroupMembersAgree, TCPGroup, NoTCPGroup, NoParams, Params,
      NoConfig, Grouped

-----------------------------------------------------------------------------
(* The port tables.                                                        *)

PortsOK == PortsTypeOK /\ PortTables

\* Acquire keeps the tables a partition, also where it hands out a reserved
\* port that is not on the free list.
LEMMA AcquireKeeps ==
  ASSUME PortsOK, NEW n \in ProxyName, NEW port, NEW r, NEW unbound,
         Acquire(n, port, r, unbound)
  PROVE  PortsOK' /\ r \in AllowPort /\ port \in {r, NoPort}
  BY PortAssumption DEF PortsOK, PortsTypeOK, PortTables, Acquire, Take

\* Release keeps the tables a partition, also for a port that is not in use.
LEMMA ReleaseKeeps ==
  ASSUME PortsOK, NEW r, Release(r)
  PROVE  PortsOK'
<1>1. CASE r \in AllowPort /\ usedPorts[r] # NoName
  <2>1. /\ freePorts' = freePorts \cup {r}
        /\ usedPorts' = [usedPorts EXCEPT ![r] = NoName]
        /\ closedCtx' \subseteq closedCtx \cup {usedPorts[r]}
        /\ reservedPorts' = reservedPorts
    BY <1>1 DEF Release
  <2> QED
    BY <1>1, <2>1, PortAssumption DEF PortsOK, PortsTypeOK, PortTables
<1>2. CASE ~(r \in AllowPort /\ usedPorts[r] # NoName)
  BY <1>2 DEF Release, PortsOK, PortsTypeOK, PortTables
<1> QED
  BY <1>1, <1>2

\* So do the cleaning of a reservation and a step that leaves them alone.
LEMMA OtherPortSteps ==
  ASSUME PortsOK, (\E n \in ProxyName : CleanReserved(n)) \/ UNCHANGED portVars
  PROVE  PortsOK'
  BY PortAssumption DEF PortsOK, PortsTypeOK, PortTables, CleanReserved

\* Every step keeps the port tables.
LEMMA PortsStep == IInv /\ [Next]_vars => PortsOK'
<1> SUFFICES ASSUME IInv, [Next]_vars PROVE PortsOK'
  OBVIOUS
<1>0. PortsOK
  BY DEF IInv, TypeOK, PortsOK
<1>1. ASSUME NEW p \in Proxy, NEW c \in Config, Run(p, c) PROVE PortsOK'
  <2>1. c.name \in ProxyName
    BY ConfigAssumption
  <2> QED
    BY <1>0, <1>1, <2>1, AcquireKeeps, OtherPortSteps DEF Run
<1>2. ASSUME NEW p \in Proxy, JoinFirst(p) PROVE PortsOK'
  <2>1. cfg[p].name \in ProxyName
    BY <1>2, ConfigAssumption DEF IInv, StageFields, JoinFirst
  <2> QED
    BY <1>0, <1>2, <2>1, AcquireKeeps, OtherPortSteps DEF JoinFirst
<1>3. ASSUME NEW p \in Proxy, Listen(p) \/ ReleasePort(p) \/ CloseListener(p)
      PROVE  PortsOK'
  BY <1>0, <1>3, ReleaseKeeps, OtherPortSteps DEF Listen, ReleasePort, CloseListener
<1>4. ASSUME NEW p \in Proxy,
             \/ AddProxy(p) \/ CloseSocket(p) \/ GroupListen(p) \/ JoinNext(p)
             \/ CloseCh(p) \/ CloseProxy(p) \/ \E c \in Config : Lookup(p, c)
      PROVE  PortsOK'
  BY <1>0, <1>4, OtherPortSteps
  DEF AddProxy, CloseSocket, GroupListen, JoinNext, CloseCh, CloseProxy, Lookup
<1>5. ASSUME NEW t \in TCPGroup,
             WorkerAccept(t) \/ WorkerExit(t) \/ \E p \in Proxy : Accept(t, p)
      PROVE  PortsOK'
  BY <1>0, <1>5, OtherPortSteps DEF WorkerAccept, WorkerExit, Accept, WorkerFrame
<1>6. ASSUME NEW n \in ProxyName, CleanReserved(n) PROVE PortsOK'
  BY <1>0, <1>6, OtherPortSteps
<1>7. CASE UNCHANGED vars
  BY <1>0, <1>7, OtherPortSteps DEF vars
<1> QED
  BY <1>1, <1>2, <1>3, <1>4, <1>5, <1>6, <1>7 DEF Next, ProxyStep

\* Every step keeps the types.
LEMMA TypeStep == IInv /\ [Next]_vars => TypeOK'
<1> SUFFICES ASSUME IInv, [Next]_vars PROVE TypeOK'
  OBVIOUS
<1> USE DEF IInv
<1>0. PortsTypeOK'
  BY PortsStep DEF PortsOK
<1>1. ASSUME NEW p \in Proxy, Listen(p) PROVE TypeOK'
  BY <1>0, <1>1 DEF Listen, TypeOK
<1>2. ASSUME NEW p \in Proxy, AddProxy(p) PROVE TypeOK'
  BY <1>0, <1>2 DEF AddProxy, TypeOK
<1>3. ASSUME NEW p \in Proxy, CloseSocket(p) PROVE TypeOK'
  BY <1>0, <1>3 DEF CloseSocket, Unbind, TypeOK
<1>4. ASSUME NEW p \in Proxy, ReleasePort(p) PROVE TypeOK'
  BY <1>0, <1>4 DEF ReleasePort, TypeOK
<1>5. ASSUME NEW p \in Proxy, JoinFirst(p) PROVE TypeOK'
  BY <1>0, <1>5 DEF JoinFirst, TypeOK
<1>6. ASSUME NEW p \in Proxy, GroupListen(p) PROVE TypeOK'
  <2>1. /\ joined[p] \in TCPGroup /\ cfg[p] \in Config
        /\ realPort[p] \in AllowPort
    BY <1>6 DEF GroupListen, StageFields
  <2>2. [group |-> cfg[p].group, key |-> cfg[p].key,
         port |-> cfg[p].port, real |-> realPort[p]] \in Params
    BY <2>1, ConfigAssumption DEF Params
  <2>3. params' \in [TCPGroup -> Params]
    BY <1>6, <2>1, <2>2 DEF GroupListen, TypeOK
  <2>4. /\ bound' \in [SysPort -> Proxy \cup TCPGroup \cup {Nobody}]
        /\ lns' \in [TCPGroup -> SUBSET Proxy]
    BY <1>6, <2>1 DEF GroupListen, Unbound, TypeOK
  <2> QED
    BY <1>0, <1>6, <2>3, <2>4 DEF GroupListen, TypeOK
<1>7. ASSUME NEW p \in Proxy, JoinNext(p) PROVE TypeOK'
  <2>1. joined[p] \in TCPGroup
    BY <1>7 DEF JoinNext, StageFields
  <2>2. params[joined[p]].real \in AllowPort \cup {NoPort}
    BY <2>1 DEF TypeOK, Params
  <2>3. realPort' \in [Proxy -> AllowPort \cup {NoPort}]
    BY <1>7, <2>2 DEF JoinNext, TypeOK
  <2>4. lns' \in [TCPGroup -> SUBSET Proxy]
    BY <1>7, <2>1 DEF JoinNext, TypeOK
  <2> QED
    BY <1>0, <1>7, <2>3, <2>4 DEF JoinNext, TypeOK
<1>8. ASSUME NEW p \in Proxy, CloseCh(p) PROVE TypeOK'
  BY <1>0, <1>8 DEF CloseCh, TypeOK
<1>9. ASSUME NEW p \in Proxy, CloseListener(p) PROVE TypeOK'
  BY <1>0, <1>9 DEF CloseListener, Unbind, StageFields, TypeOK
<1>10. ASSUME NEW p \in Proxy, CloseProxy(p) PROVE TypeOK'
  BY <1>0, <1>10 DEF CloseProxy, TypeOK
<1>11. ASSUME NEW p \in Proxy, NEW c \in Config, Run(p, c) PROVE TypeOK'
  BY <1>0, <1>11 DEF Run, TypeOK
<1>12. ASSUME NEW p \in Proxy, NEW c \in Config, Lookup(p, c) PROVE TypeOK'
  <2>1. c.group \in Group
    BY <1>12, ConfigAssumption DEF Lookup
  <2>2. /\ groups' \in [Group -> TCPGroup \cup {NoTCPGroup}]
        /\ created' \in 0..MaxGroups
    <3>1. CASE UNCHANGED <<groups, created>>
      BY <3>1 DEF TypeOK
    <3>2. CASE /\ created < MaxGroups /\ created' = created + 1
               /\ groups' = [groups EXCEPT ![c.group] = created + 1]
      <4>1. created + 1 \in TCPGroup /\ created + 1 \in 0..MaxGroups
        BY <3>2, GroupAssumption DEF TypeOK, TCPGroup
      <4> QED
        BY <2>1, <3>2, <4>1 DEF TypeOK
    <3> QED
      BY <1>12, <3>1, <3>2 DEF Lookup
  <2>3. joined' \in [Proxy -> TCPGroup \cup {NoTCPGroup}]
    <3>1. groups'[c.group] \in TCPGroup \cup {NoTCPGroup}
      BY <2>1, <2>2
    <3>2. joined' = [joined EXCEPT ![p] = groups'[c.group]]
      BY <1>12 DEF Lookup
    <3> QED
      BY <3>1, <3>2 DEF TypeOK
  <2>4. cfg' \in [Proxy -> Config \cup {NoConfig}]
    BY <1>12 DEF Lookup, TypeOK
  <2> QED
    BY <1>0, <1>12, <2>2, <2>3, <2>4 DEF Lookup, TypeOK
<1>13. ASSUME NEW t \in TCPGroup, WorkerAccept(t) PROVE TypeOK'
  BY <1>0, <1>13, GroupAssumption DEF WorkerAccept, WorkerFrame, TypeOK
<1>14. ASSUME NEW t \in TCPGroup, WorkerExit(t) PROVE TypeOK'
  BY <1>0, <1>14 DEF WorkerExit, WorkerFrame, TypeOK
<1>15. ASSUME NEW t \in TCPGroup, NEW p \in Proxy, Accept(t, p) PROVE TypeOK'
  BY <1>0, <1>15 DEF Accept, WorkerFrame, TypeOK
<1>16. ASSUME NEW n \in ProxyName, CleanReserved(n),
              UNCHANGED <<pxyVars, bound, groupVars>>
       PROVE  TypeOK'
  BY <1>0, <1>16 DEF TypeOK
<1>17. CASE UNCHANGED vars
  BY <1>0, <1>17 DEF vars, TypeOK
<1> QED
  BY <1>1, <1>2, <1>3, <1>4, <1>5, <1>6, <1>7, <1>8, <1>9,
     <1>10, <1>11, <1>12, <1>13, <1>14, <1>15, <1>16, <1>17
  DEF Next, ProxyStep

\* Every step keeps a proxy's fields in line with its stage.
LEMMA StageStep == IInv /\ [Next]_vars => StageFields'
<1> SUFFICES ASSUME IInv, [Next]_vars PROVE StageFields'
  OBVIOUS
<1> USE DEF IInv
<1>1. ASSUME NEW p \in Proxy, Listen(p) PROVE StageFields'
  BY <1>1 DEF Listen, TypeOK, StageFields, Grouped
<1>2. ASSUME NEW p \in Proxy, AddProxy(p) PROVE StageFields'
  BY <1>2 DEF AddProxy, TypeOK, StageFields, Grouped
<1>3. ASSUME NEW p \in Proxy, CloseSocket(p) PROVE StageFields'
  BY <1>3 DEF CloseSocket, StageFields, Grouped
<1>4. ASSUME NEW p \in Proxy, ReleasePort(p) PROVE StageFields'
  BY <1>4 DEF ReleasePort, StageFields, Grouped
<1>5. ASSUME NEW p \in Proxy, JoinFirst(p) PROVE StageFields'
  BY <1>5 DEF JoinFirst, Acquire, TypeOK, StageFields, Grouped
<1>6. ASSUME NEW p \in Proxy, GroupListen(p) PROVE StageFields'
  BY <1>6 DEF GroupListen, TypeOK, StageFields, Grouped
<1>7. ASSUME NEW p \in Proxy, JoinNext(p) PROVE StageFields'
  <2>1. joined[p] \in TCPGroup
    BY <1>7 DEF JoinNext, StageFields
  <2>2. PICK q \in lns[joined[p]] : TRUE
    BY <1>7 DEF JoinNext
  <2>3. q \in Proxy /\ params[joined[p]].real = realPort[q]
    BY <2>1, <2>2 DEF TypeOK, GroupMembersAgree
  <2>4. params[joined[p]].real \in AllowPort
    BY <2>1, <2>2, <2>3 DEF Membership, InGroup, StageFields
  <2> QED
    BY <1>7, <2>1, <2>3, <2>4 DEF JoinNext, TypeOK, StageFields, Grouped
<1>8. ASSUME NEW p \in Proxy, CloseCh(p) PROVE StageFields'
  BY <1>8 DEF CloseCh, StageFields, Grouped
<1>9. ASSUME NEW p \in Proxy, CloseListener(p) PROVE StageFields'
  BY <1>9 DEF CloseListener, TypeOK, StageFields, Grouped
<1>10. ASSUME NEW p \in Proxy, CloseProxy(p) PROVE StageFields'
  BY <1>10 DEF CloseProxy, StageFields, Grouped
<1>11. ASSUME NEW p \in Proxy, NEW c \in Config, Run(p, c) PROVE StageFields'
  BY <1>11 DEF Run, TypeOK, StageFields, Grouped
<1>12. ASSUME NEW p \in Proxy, NEW c \in Config, Lookup(p, c) PROVE StageFields'
  BY <1>12, ConfigAssumption, GroupAssumption
  DEF Lookup, TypeOK, StageFields, Grouped, TCPGroup
<1>13. ASSUME NEW t \in TCPGroup, WorkerAccept(t) PROVE StageFields'
  BY <1>13 DEF WorkerAccept, WorkerFrame, StageFields, Grouped
<1>14. ASSUME NEW t \in TCPGroup, WorkerExit(t) PROVE StageFields'
  BY <1>14 DEF WorkerExit, WorkerFrame, StageFields, Grouped
<1>15. ASSUME NEW t \in TCPGroup, NEW p \in Proxy, Accept(t, p) PROVE StageFields'
  BY <1>15 DEF Accept, WorkerFrame, StageFields, Grouped
<1>16. ASSUME NEW n \in ProxyName, CleanReserved(n),
              UNCHANGED <<pxyVars, bound, groupVars>>
       PROVE  StageFields'
  BY <1>16 DEF StageFields, Grouped
<1>17. CASE UNCHANGED vars
  BY <1>17 DEF vars, StageFields, Grouped
<1> QED
  BY <1>1, <1>2, <1>3, <1>4, <1>5, <1>6, <1>7, <1>8, <1>9,
     <1>10, <1>11, <1>12, <1>13, <1>14, <1>15, <1>16, <1>17
  DEF Next, ProxyStep

\* No step lets a second proxy into a locked group.
LEMMA LockStep == IInv /\ [Next]_vars => LockHolder'
<1> SUFFICES ASSUME IInv, [Next]_vars PROVE LockHolder'
  OBVIOUS
<1> USE DEF IInv
<1>1. ASSUME NEW p \in Proxy, Listen(p) PROVE LockHolder'
  <2>1. /\ lns' = lns /\ joined' = joined
        /\ \A q \in Proxy : stage'[q] = "groupListen" => stage[q] = "groupListen"
    BY <1>1 DEF Listen, TypeOK
  <2> QED
    BY <2>1 DEF LockHolder
<1>2. ASSUME NEW p \in Proxy, AddProxy(p) PROVE LockHolder'
  BY <1>2 DEF AddProxy, TypeOK, LockHolder
<1>3. ASSUME NEW p \in Proxy, CloseSocket(p) PROVE LockHolder'
  BY <1>3 DEF CloseSocket, LockHolder
<1>4. ASSUME NEW p \in Proxy, ReleasePort(p) PROVE LockHolder'
  BY <1>4 DEF ReleasePort, LockHolder
<1>5. ASSUME NEW p \in Proxy, JoinFirst(p) PROVE LockHolder'
  BY <1>5 DEF JoinFirst, Locked, TypeOK, LockHolder
<1>6. ASSUME NEW p \in Proxy, GroupListen(p) PROVE LockHolder'
  BY <1>6 DEF GroupListen, TypeOK, StageFields, LockHolder
<1>7. ASSUME NEW p \in Proxy, JoinNext(p) PROVE LockHolder'
  BY <1>7 DEF JoinNext, TypeOK, StageFields, LockHolder
<1>8. ASSUME NEW p \in Proxy, CloseCh(p) PROVE LockHolder'
  BY <1>8 DEF CloseCh, LockHolder
<1>9. ASSUME NEW p \in Proxy, CloseListener(p) PROVE LockHolder'
  BY <1>9 DEF CloseListener, TypeOK, LockHolder
<1>10. ASSUME NEW p \in Proxy, CloseProxy(p) PROVE LockHolder'
  BY <1>10 DEF CloseProxy, LockHolder
<1>11. ASSUME NEW p \in Proxy, NEW c \in Config, Run(p, c) PROVE LockHolder'
  <2>1. /\ lns' = lns /\ joined' = joined
        /\ \A q \in Proxy : stage'[q] = "groupListen" => stage[q] = "groupListen"
    BY <1>11 DEF Run, TypeOK
  <2> QED
    BY <2>1 DEF LockHolder
<1>12. ASSUME NEW p \in Proxy, NEW c \in Config, Lookup(p, c) PROVE LockHolder'
  BY <1>12 DEF Lookup, LockHolder
<1>13. ASSUME NEW t \in TCPGroup, WorkerAccept(t) PROVE LockHolder'
  BY <1>13 DEF WorkerAccept, WorkerFrame, LockHolder
<1>14. ASSUME NEW t \in TCPGroup, WorkerExit(t) PROVE LockHolder'
  BY <1>14 DEF WorkerExit, WorkerFrame, LockHolder
<1>15. ASSUME NEW t \in TCPGroup, NEW p \in Proxy, Accept(t, p) PROVE LockHolder'
  BY <1>15 DEF Accept, WorkerFrame, LockHolder
<1>16. ASSUME NEW n \in ProxyName, CleanReserved(n),
              UNCHANGED <<pxyVars, bound, groupVars>>
       PROVE  LockHolder'
  BY <1>16 DEF LockHolder
<1>17. CASE UNCHANGED vars
  BY <1>17 DEF vars, LockHolder
<1> QED
  BY <1>1, <1>2, <1>3, <1>4, <1>5, <1>6, <1>7, <1>8, <1>9,
     <1>10, <1>11, <1>12, <1>13, <1>14, <1>15, <1>16, <1>17
  DEF Next, ProxyStep

\* Every step keeps the listeners of a group and the stages in line.
LEMMA MembershipStep == IInv /\ [Next]_vars => Membership'
<1> SUFFICES ASSUME IInv, [Next]_vars PROVE Membership'
  OBVIOUS
<1> USE DEF IInv
<1>1. ASSUME NEW p \in Proxy, Listen(p) PROVE Membership'
  BY <1>1 DEF Listen, TypeOK, StageFields, Membership, InGroup, Grouped
<1>2. ASSUME NEW p \in Proxy, AddProxy(p) PROVE Membership'
  BY <1>2 DEF AddProxy, TypeOK, Membership, InGroup, Grouped
<1>3. ASSUME NEW p \in Proxy, CloseSocket(p) PROVE Membership'
  BY <1>3 DEF CloseSocket, Membership, InGroup, Grouped
<1>4. ASSUME NEW p \in Proxy, ReleasePort(p) PROVE Membership'
  BY <1>4 DEF ReleasePort, Membership, InGroup, Grouped
<1>5. ASSUME NEW p \in Proxy, JoinFirst(p) PROVE Membership'
  BY <1>5 DEF JoinFirst, TypeOK, Membership, InGroup, Grouped
<1>6. ASSUME NEW p \in Proxy, GroupListen(p) PROVE Membership'
  <2>1. joined[p] \in TCPGroup /\ Grouped(p) /\ ~InGroup(p) /\ lns[joined[p]] = {}
    BY <1>6 DEF GroupListen, StageFields, LockHolder, InGroup
  <2>2. UNCHANGED <<cfg, joined>> /\ \A q \in Proxy \ {p} : InGroup(q)' <=> InGroup(q)
    BY <1>6 DEF GroupListen, TypeOK, InGroup, Grouped
  <2>3. CASE lns' = [lns EXCEPT ![joined[p]] = {p}] /\ stage' = [stage EXCEPT ![p] = "up"]
    <3>1. InGroup(p)'
      BY <2>1, <2>2, <2>3 DEF TypeOK, InGroup, Grouped
    <3> QED
      BY <2>1, <2>2, <2>3, <3>1 DEF TypeOK, Membership
  <2>4. CASE lns' = lns /\ stage' = [stage EXCEPT ![p] = "ended"]
    <3>1. ~InGroup(p)'
      BY <2>4 DEF TypeOK, InGroup
    <3> QED
      BY <2>1, <2>2, <2>4, <3>1 DEF TypeOK, Membership
  <2> QED
    BY <1>6, <2>3, <2>4 DEF GroupListen
<1>7. ASSUME NEW p \in Proxy, JoinNext(p) PROVE Membership'
  <2>1. joined[p] \in TCPGroup /\ Grouped(p) /\ ~InGroup(p)
    BY <1>7 DEF JoinNext, StageFields, InGroup
  <2>2. UNCHANGED <<cfg, joined>> /\ \A q \in Proxy \ {p} : InGroup(q)' <=> InGroup(q)
    BY <1>7 DEF JoinNext, TypeOK, InGroup, Grouped
  <2>3. CASE Matches(p, joined[p])
    <3>1. lns' = [lns EXCEPT ![joined[p]] = lns[joined[p]] \cup {p}] /\ InGroup(p)'
      BY <1>7, <2>1, <2>3 DEF JoinNext, TypeOK, InGroup, Grouped
    <3> QED
      BY <2>1, <2>2, <3>1 DEF TypeOK, Membership
  <2>4. CASE ~Matches(p, joined[p])
    <3>1. lns' = lns /\ ~InGroup(p)'
      BY <1>7, <2>4 DEF JoinNext, TypeOK, InGroup
    <3> QED
      BY <2>1, <2>2, <3>1 DEF TypeOK, Membership
  <2> QED
    BY <2>3, <2>4
<1>8. ASSUME NEW p \in Proxy, CloseCh(p) PROVE Membership'
  BY <1>8 DEF CloseCh, Membership, InGroup, Grouped
<1>9. ASSUME NEW p \in Proxy, CloseListener(p) PROVE Membership'
  <2>1. joined[p] \in TCPGroup /\ InGroup(p)
    BY <1>9 DEF CloseListener, StageFields, InGroup
  <2>2. UNCHANGED <<cfg, joined>> /\ \A q \in Proxy \ {p} : InGroup(q)' <=> InGroup(q)
    BY <1>9 DEF CloseListener, TypeOK, InGroup, Grouped
  <2>3. lns' = [lns EXCEPT ![joined[p]] = lns[joined[p]] \ {p}] /\ ~InGroup(p)'
    BY <1>9 DEF CloseListener, TypeOK, InGroup
  <2> QED
    BY <2>1, <2>2, <2>3 DEF TypeOK, Membership
<1>10. ASSUME NEW p \in Proxy, CloseProxy(p) PROVE Membership'
  BY <1>10 DEF CloseProxy, Membership, InGroup, Grouped
<1>11. ASSUME NEW p \in Proxy, NEW c \in Config, Run(p, c) PROVE Membership'
  BY <1>11 DEF Run, TypeOK, Membership, InGroup, Grouped
<1>12. ASSUME NEW p \in Proxy, NEW c \in Config, Lookup(p, c) PROVE Membership'
  BY <1>12 DEF Lookup, Membership, InGroup, Grouped
<1>13. ASSUME NEW t \in TCPGroup, WorkerAccept(t) PROVE Membership'
  BY <1>13 DEF WorkerAccept, WorkerFrame, Membership, InGroup, Grouped
<1>14. ASSUME NEW t \in TCPGroup, WorkerExit(t) PROVE Membership'
  BY <1>14 DEF WorkerExit, WorkerFrame, Membership, InGroup, Grouped
<1>15. ASSUME NEW t \in TCPGroup, NEW p \in Proxy, Accept(t, p) PROVE Membership'
  BY <1>15 DEF Accept, WorkerFrame, Membership, InGroup, Grouped
<1>16. ASSUME NEW n \in ProxyName, CleanReserved(n),
              UNCHANGED <<pxyVars, bound, groupVars>>
       PROVE  Membership'
  BY <1>16 DEF Membership, InGroup, Grouped
<1>17. CASE UNCHANGED vars
  BY <1>17 DEF vars, Membership, InGroup, Grouped
<1> QED
  BY <1>1, <1>2, <1>3, <1>4, <1>5, <1>6, <1>7, <1>8, <1>9,
     <1>10, <1>11, <1>12, <1>13, <1>14, <1>15, <1>16, <1>17
  DEF Next, ProxyStep

\* No step lets a listener into a group it does not agree with.
LEMMA AgreeStep == IInv /\ [Next]_vars => GroupMembersAgree'
<1> SUFFICES ASSUME IInv, [Next]_vars PROVE GroupMembersAgree'
  OBVIOUS
<1> USE DEF IInv
<1>1. ASSUME NEW p \in Proxy, Listen(p) PROVE GroupMembersAgree'
  BY <1>1 DEF Listen, GroupMembersAgree
<1>2. ASSUME NEW p \in Proxy, AddProxy(p) PROVE GroupMembersAgree'
  BY <1>2 DEF AddProxy, GroupMembersAgree
<1>3. ASSUME NEW p \in Proxy, CloseSocket(p) PROVE GroupMembersAgree'
  BY <1>3 DEF CloseSocket, GroupMembersAgree
<1>4. ASSUME NEW p \in Proxy, ReleasePort(p) PROVE GroupMembersAgree'
  BY <1>4 DEF ReleasePort, GroupMembersAgree
<1>5. ASSUME NEW p \in Proxy, JoinFirst(p) PROVE GroupMembersAgree'
  BY <1>5 DEF JoinFirst, TypeOK, Membership, GroupMembersAgree
<1>6. ASSUME NEW p \in Proxy, GroupListen(p) PROVE GroupMembersAgree'
  BY <1>6 DEF GroupListen, TypeOK, GroupMembersAgree
<1>7. ASSUME NEW p \in Proxy, JoinNext(p) PROVE GroupMembersAgree'
  <2>1. joined[p] \in TCPGroup /\ \A t \in TCPGroup : p \notin lns[t]
    BY <1>7 DEF JoinNext, StageFields, Membership, InGroup
  <2>2. UNCHANGED <<cfg, params>>
        /\ \A q \in Proxy \ {p} : realPort'[q] = realPort[q]
    BY <1>7 DEF JoinNext, TypeOK
  <2>3. CASE Matches(p, joined[p])
    <3>1. /\ lns' = [lns EXCEPT ![joined[p]] = lns[joined[p]] \cup {p}]
          /\ realPort'[p] = params[joined[p]].real
      BY <1>7, <2>3 DEF JoinNext, TypeOK
    <3>2. params[joined[p]] = [group |-> cfg[p].group, key |-> cfg[p].key,
                               port |-> cfg[p].port, real |-> realPort'[p]]
      <4>1. params[joined[p]] \in Params
        BY <2>1 DEF TypeOK
      <4> QED
        BY <2>3, <3>1, <4>1 DEF Matches, Params
    <3>3. ASSUME NEW t \in TCPGroup, NEW q \in lns'[t]
          PROVE  params'[t] = [group |-> cfg'[q].group, key |-> cfg'[q].key,
                               port |-> cfg'[q].port, real |-> realPort'[q]]
      <4>1. CASE q = p
        BY <2>1, <2>2, <3>1, <3>2, <3>3, <4>1 DEF TypeOK
      <4>2. CASE q # p
        <5>1. q \in lns[t] /\ q \in Proxy
          BY <2>1, <3>1, <3>3, <4>2 DEF TypeOK
        <5> QED
          BY <2>2, <4>2, <5>1 DEF GroupMembersAgree
      <4> QED
        BY <4>1, <4>2
    <3> QED
      BY <3>3 DEF GroupMembersAgree
  <2>4. CASE ~Matches(p, joined[p])
    BY <1>7, <2>1, <2>2, <2>4 DEF JoinNext, TypeOK, GroupMembersAgree
  <2> QED
    BY <2>3, <2>4
<1>8. ASSUME NEW p \in Proxy, CloseCh(p) PROVE GroupMembersAgree'
  BY <1>8 DEF CloseCh, GroupMembersAgree
<1>9. ASSUME NEW p \in Proxy, CloseListener(p) PROVE GroupMembersAgree'
  BY <1>9 DEF CloseListener, GroupMembersAgree
<1>10. ASSUME NEW p \in Proxy, CloseProxy(p) PROVE GroupMembersAgree'
  BY <1>10 DEF CloseProxy, GroupMembersAgree
<1>11. ASSUME NEW p \in Proxy, NEW c \in Config, Run(p, c) PROVE GroupMembersAgree'
  BY <1>11 DEF Run, TypeOK, Membership, InGroup, GroupMembersAgree
<1>12. ASSUME NEW p \in Proxy, NEW c \in Config, Lookup(p, c) PROVE GroupMembersAgree'
  BY <1>12 DEF Lookup, Membership, InGroup, GroupMembersAgree
<1>13. ASSUME NEW t \in TCPGroup, WorkerAccept(t) PROVE GroupMembersAgree'
  BY <1>13 DEF WorkerAccept, WorkerFrame, GroupMembersAgree
<1>14. ASSUME NEW t \in TCPGroup, WorkerExit(t) PROVE GroupMembersAgree'
  BY <1>14 DEF WorkerExit, WorkerFrame, GroupMembersAgree
<1>15. ASSUME NEW t \in TCPGroup, NEW p \in Proxy, Accept(t, p) PROVE GroupMembersAgree'
  BY <1>15 DEF Accept, WorkerFrame, GroupMembersAgree
<1>16. ASSUME NEW n \in ProxyName, CleanReserved(n),
              UNCHANGED <<pxyVars, bound, groupVars>>
       PROVE  GroupMembersAgree'
  BY <1>16 DEF GroupMembersAgree
<1>17. CASE UNCHANGED vars
  BY <1>17 DEF vars, GroupMembersAgree
<1> QED
  BY <1>1, <1>2, <1>3, <1>4, <1>5, <1>6, <1>7, <1>8, <1>9,
     <1>10, <1>11, <1>12, <1>13, <1>14, <1>15, <1>16, <1>17
  DEF Next, ProxyStep

-----------------------------------------------------------------------------
(* Theorems.                                                               *)

\* The inductive invariant holds in every reachable state.
THEOREM Invariance == Spec => []IInv
<1>1. IInv /\ [Next]_vars => IInv'
  BY PortsStep, TypeStep, StageStep, LockStep, MembershipStep, AgreeStep DEF IInv, PortsOK
<1> QED
  BY InitIInv, <1>1, PTL DEF Spec

\* Every variable keeps its type (tcp.go of proxy and group, ports.go).
THEOREM TypeCorrect == Spec => []TypeOK
<1>1. IInv => TypeOK
  BY DEF IInv
<1> QED
  BY Invariance, <1>1, PTL

\* Acquire and Release of any number of proxies and groups keep every allowed
\* port either free or in use.
THEOREM PortsArePartitioned == Spec => []PortTables
<1>1. IInv => PortTables
  BY DEF IInv
<1> QED
  BY Invariance, <1>1, PTL

\* Whoever joined and left a group before, its listeners have its key and port.
THEOREM MembersAgree == Spec => []GroupMembersAgree
<1>1. IInv => GroupMembersAgree
  BY DEF IInv
<1> QED
  BY Invariance, <1>1, PTL

-----------------------------------------------------------------------------
(* The announced port.                                                     *)

\* No group leaves its port to frps.
FixedGroupPorts == \A c \in Config : c.group # NoGroup => c.port # NoPort

\* A proxy without a group listens until its listener is closed, and a group
\* as long as it has a listener.
Bound ==
  /\ \A p \in Proxy :
       stage[p] \in {"up", "running", "closing"} /\ ~Grouped(p) => bound[realPort[p]] = p
  /\ \A t \in TCPGroup : lns[t] # {} => bound[params[t].real] = t

\* The port of a group that has a listener is a port of the machine.
LEMMA MembersPort ==
  ASSUME IInv, NEW t \in TCPGroup, lns[t] # {}
  PROVE  params[t].real \in SysPort
<1>1. PICK q \in lns[t] : TRUE
  OBVIOUS
<1>2. q \in Proxy /\ params[t].real = realPort[q]
  BY <1>1 DEF IInv, TypeOK, GroupMembersAgree
<1>3. realPort[q] \in AllowPort
  BY <1>1, <1>2 DEF IInv, Membership, InGroup, StageFields
<1> QED
  BY <1>2, <1>3, GroupAssumption

\* With fixed group ports every step keeps the listeners where they were
\* announced.
LEMMA BoundStep == FixedGroupPorts /\ IInv /\ Bound /\ [Next]_vars => Bound'
<1> SUFFICES ASSUME FixedGroupPorts, IInv, Bound, [Next]_vars PROVE Bound'
  OBVIOUS
<1> USE DEF IInv
<1>0. /\ \A p \in Proxy : \A t \in TCPGroup : p # t
      /\ AllowPort \subseteq SysPort
  BY GroupAssumption DEF TCPGroup
<1>1. ASSUME NEW p \in Proxy, Listen(p) PROVE Bound'
  <2>1. realPort[p] \in SysPort
    BY <1>0, <1>1 DEF Listen, StageFields
  <2>2. CASE realPort[p] \in Unbound /\ bound' = [bound EXCEPT ![realPort[p]] = p]
    <3>1. \A r \in SysPort : bound[r] # Nobody => bound'[r] = bound[r]
      BY <2>1, <2>2 DEF Unbound, TypeOK
    <3>2. \A q \in Proxy \ {p} :
            stage'[q] = stage[q] /\ (stage[q] \in {"up", "running", "closing"} => realPort[q] \in SysPort)
      BY <1>0, <1>1 DEF Listen, TypeOK, StageFields
    <3>3. bound'[realPort[p]] = p
      BY <2>1, <2>2 DEF TypeOK
    <3>4. \A t \in TCPGroup : lns[t] # {} => params[t].real \in SysPort
      BY MembersPort
    <3>5. UNCHANGED <<cfg, realPort, lns, params>> /\ Nobody \notin Proxy /\ Nobody \notin TCPGroup
      BY <1>1, GroupAssumption DEF Listen, TCPGroup
    <3> QED
      BY <3>1, <3>2, <3>3, <3>4, <3>5 DEF Bound, Grouped
  <2>3. CASE bound' = bound /\ stage' = [stage EXCEPT ![p] = "ended"]
    BY <1>1, <2>3 DEF Listen, TypeOK, Bound, Grouped
  <2> QED
    BY <1>1, <2>2, <2>3 DEF Listen
<1>2. ASSUME NEW p \in Proxy, CloseSocket(p) PROVE Bound'
  <2>1. /\ \A q \in Proxy : stage[q] \in {"up", "running", "closing"} => realPort[q] \in SysPort
        /\ \A t \in TCPGroup : lns[t] # {} => params[t].real \in SysPort
    BY <1>0, MembersPort DEF StageFields
  <2>2. \A r \in SysPort : bound[r] # p => bound'[r] = bound[r]
    BY <1>2 DEF CloseSocket, Unbind, TypeOK
  <2>3. /\ UNCHANGED <<cfg, realPort, lns, params>>
        /\ stage'[p] = "release" /\ \A q \in Proxy \ {p} : stage'[q] = stage[q]
    BY <1>2 DEF CloseSocket, TypeOK
  <2> QED
    BY <1>0, <2>1, <2>2, <2>3 DEF Bound, Grouped
<1>3. ASSUME NEW p \in Proxy, GroupListen(p) PROVE Bound'
  <2> DEFINE t == joined[p]
  <2>1. /\ t \in TCPGroup /\ Grouped(p) /\ cfg[p].port = realPort[p]
        /\ realPort[p] \in SysPort
    BY <1>0, <1>3 DEF GroupListen, StageFields, FixedGroupPorts, Grouped
  <2>2. CASE stage' = [stage EXCEPT ![p] = "ended"] /\ UNCHANGED <<bound, lns, params, worker>>
    BY <1>3, <2>2 DEF GroupListen, TypeOK, Bound, Grouped
  <2>3. CASE /\ \E r \in Unbound : cfg[p].port \in {r, NoPort} /\ bound' = [bound EXCEPT ![r] = t]
             /\ lns' = [lns EXCEPT ![t] = {p}]
             /\ params' = [params EXCEPT ![t] =
                             [group |-> cfg[p].group, key |-> cfg[p].key,
                              port |-> cfg[p].port, real |-> realPort[p]]]
             /\ stage' = [stage EXCEPT ![p] = "up"]
    <3>1. realPort[p] \in Unbound /\ bound' = [bound EXCEPT ![realPort[p]] = t]
      BY <2>1, <2>3, GroupAssumption, PortAssumption DEF Unbound, StageFields, FixedGroupPorts
    <3>2. /\ \A r \in SysPort : bound[r] # Nobody => bound'[r] = bound[r]
          /\ bound'[realPort[p]] = t
      BY <2>1, <3>1 DEF Unbound, TypeOK
    <3>3. /\ \A q \in Proxy : stage[q] \in {"up", "running", "closing"} => realPort[q] \in SysPort
          /\ \A u \in TCPGroup : lns[u] # {} => params[u].real \in SysPort
          /\ Nobody \notin Proxy /\ Nobody \notin TCPGroup
      BY <1>0, MembersPort, GroupAssumption DEF StageFields, TCPGroup
    <3>4. /\ \A u \in TCPGroup \ {t} : lns'[u] = lns[u] /\ params'[u] = params[u]
          /\ params'[t].real = realPort[p]
          /\ \A q \in Proxy \ {p} : stage'[q] = stage[q]
          /\ UNCHANGED <<cfg, realPort>>
      BY <1>3, <2>1, <2>3 DEF GroupListen, TypeOK
    <3>5. \A q \in Proxy : stage'[q] \in {"up", "running", "closing"} /\ ~Grouped(q)'
                              => bound'[realPort'[q]] = q
      BY <2>1, <3>2, <3>3, <3>4 DEF Bound, Grouped
    <3>6. \A u \in TCPGroup : lns'[u] # {} => bound'[params'[u].real] = u
      BY <2>1, <3>2, <3>3, <3>4 DEF Bound
    <3> QED
      BY <3>5, <3>6 DEF Bound
  <2> QED
    BY <1>3, <2>2, <2>3 DEF GroupListen
<1>4. ASSUME NEW p \in Proxy, CloseListener(p) PROVE Bound'
  <2> DEFINE t == joined[p]
  <2>1. /\ t \in TCPGroup /\ Grouped(p)
        /\ \A q \in Proxy : stage[q] \in {"up", "running", "closing"} => realPort[q] \in SysPort
        /\ \A u \in TCPGroup : lns[u] # {} => params[u].real \in SysPort
    BY <1>0, <1>4, MembersPort DEF CloseListener, StageFields
  <2>2. /\ UNCHANGED <<cfg, realPort, params>>
        /\ stage'[p] \in {"ended", "panicked"} /\ \A q \in Proxy \ {p} : stage'[q] = stage[q]
        /\ lns'[t] = lns[t] \ {p} /\ \A u \in TCPGroup \ {t} : lns'[u] = lns[u]
    BY <1>4, <2>1 DEF CloseListener, TypeOK
  <2>3. CASE bound' = bound
    BY <2>1, <2>2, <2>3 DEF Bound, Grouped
  <2>4. CASE lns[t] = {p} /\ Unbind(t)
    <3>1. \A r \in SysPort : bound[r] # t => bound'[r] = bound[r]
      BY <2>4 DEF Unbind, TypeOK
    <3>2. lns'[t] = {}
      BY <2>2, <2>4
    <3> QED
      BY <1>0, <2>1, <2>2, <3>1, <3>2 DEF Bound, Grouped
  <2> QED
    BY <1>4, <2>3, <2>4 DEF CloseListener
<1>5. ASSUME NEW p \in Proxy, JoinNext(p) PROVE Bound'
  <2>1. joined[p] \in TCPGroup /\ Grouped(p) /\ lns[joined[p]] # {}
    BY <1>5 DEF JoinNext, StageFields
  <2>2. /\ UNCHANGED <<cfg, params, bound>>
        /\ \A q \in Proxy \ {p} : stage'[q] = stage[q] /\ realPort'[q] = realPort[q]
        /\ \A u \in TCPGroup : lns'[u] # {} => lns[u] # {}
    BY <1>5, <2>1 DEF JoinNext, TypeOK
  <2> QED
    BY <2>1, <2>2 DEF Bound, Grouped
<1>6. ASSUME NEW p \in Proxy,
             \/ AddProxy(p) \/ CloseProxy(p) \/ CloseCh(p) \/ ReleasePort(p)
      PROVE  Bound'
  <2>1. /\ UNCHANGED <<cfg, realPort, bound, lns, params>>
        /\ \A q \in Proxy : stage'[q] \in {"up", "running", "closing"} =>
                              stage[q] \in {"up", "running", "closing"}
    BY <1>6 DEF AddProxy, CloseProxy, CloseCh, ReleasePort, TypeOK
  <2> QED
    BY <2>1 DEF Bound, Grouped
<1>7. ASSUME NEW p \in Proxy, JoinFirst(p) \/ \E c \in Config : Run(p, c) \/ Lookup(p, c)
      PROVE  Bound'
  <2>1. /\ UNCHANGED <<bound, lns, params>>
        /\ stage'[p] \notin {"up", "running", "closing"}
        /\ \A q \in Proxy \ {p} : /\ stage'[q] = stage[q] /\ cfg'[q] = cfg[q]
                                    /\ realPort'[q] = realPort[q]
    BY <1>7 DEF JoinFirst, Run, Lookup, TypeOK
  <2> QED
    BY <2>1 DEF Bound, Grouped
<1>8. CASE UNCHANGED <<stage, cfg, realPort, bound, lns, params>>
  BY <1>8 DEF Bound, Grouped
<1>9. ASSUME NEW t \in TCPGroup,
             WorkerAccept(t) \/ WorkerExit(t) \/ \E p \in Proxy : Accept(t, p)
      PROVE  Bound'
  BY <1>8, <1>9 DEF WorkerAccept, WorkerExit, Accept, WorkerFrame
<1> QED
  BY <1>1, <1>2, <1>3, <1>4, <1>5, <1>6, <1>7, <1>8, <1>9 DEF Next, ProxyStep, vars

\* Unless a group leaves its port to frps (the run group_any_port), the port a
\* client is told (TCPProxy.Run) is the one that is listened on, for any number
\* of proxies that share and give up ports.
THEOREM PortsAreAnnounced == FixedGroupPorts /\ Spec => []AnnouncedPort
<1>1. Init => Bound
  BY DEF Init, Bound
<1>2. IInv /\ Bound => AnnouncedPort
  <2> SUFFICES ASSUME IInv, Bound, NEW p \in Proxy, stage[p] \in {"up", "running"}
               PROVE  bound[realPort[p]] = IF cfg[p].group = NoGroup THEN p ELSE joined[p]
    BY DEF AnnouncedPort
  <2>1. CASE ~Grouped(p)
    BY <2>1 DEF Bound, Grouped
  <2>2. CASE Grouped(p)
    <3>1. joined[p] \in TCPGroup /\ p \in lns[joined[p]]
      BY <2>2 DEF IInv, StageFields, Membership, InGroup
    <3>2. params[joined[p]].real = realPort[p]
      <4>1. params[joined[p]] = [group |-> cfg[p].group, key |-> cfg[p].key,
                                 port |-> cfg[p].port, real |-> realPort[p]]
        BY <3>1, Zenon DEF IInv, GroupMembersAgree
      <4> QED
        BY <4>1
    <3> QED
      BY <2>2, <3>1, <3>2 DEF Bound, Grouped
  <2> QED
    BY <2>1, <2>2
<1>3. FixedGroupPorts => FixedGroupPorts'
  BY DEF FixedGroupPorts
<1> QED
  BY <1>1, <1>2, <1>3, BoundStep, Invariance, PTL DEF Spec

-----------------------------------------------------------------------------
(* The ports that come back.                                               *)

HasPort == {"listen", "up", "running", "closing", "release"}
HoldsFor(p, r) ==
  /\ stage[p] # "new" /\ cfg[p].name = usedPorts[r]
  /\ Grouped(p) \/ (realPort[p] = r /\ stage[p] \in HasPort)

\* A port in use has a proxy it is in use for.
Holders == \A r \in AllowPort : usedPorts[r] # NoName => \E p \in Proxy : HoldsFor(p, r)

\* A step of p takes the port from nobody else, nor from p if p is in a group
\* or goes on with its port.
LEMMA HolderKept ==
  ASSUME Holders, NEW p \in Proxy, NEW r \in AllowPort,
         usedPorts[r] # NoName, usedPorts'[r] = usedPorts[r],
         \A q \in Proxy \ {p} : /\ stage'[q] = stage[q] /\ cfg'[q] = cfg[q]
                                /\ realPort'[q] = realPort[q],
         stage[p] # "new" =>
           /\ cfg'[p] = cfg[p] /\ stage'[p] # "new"
           /\ \/ Grouped(p)
              \/ realPort[p] = r /\ stage[p] \in HasPort =>
                   realPort'[p] = r /\ stage'[p] \in HasPort
  PROVE  \E q \in Proxy : HoldsFor(q, r)'
<1>1. PICK q \in Proxy : HoldsFor(q, r)
  BY DEF Holders
<1>2. CASE q = p
  BY <1>1, <1>2 DEF HoldsFor, Grouped
<1>3. CASE q # p
  BY <1>1, <1>3 DEF HoldsFor, Grouped
<1> QED BY <1>2, <1>3

\* After Release a port is not in use, and every other one is as before.
LEMMA ReleaseEffect ==
  ASSUME PortsOK, NEW r, Release(r)
  PROVE  /\ r \in AllowPort => usedPorts'[r] = NoName
         /\ \A x \in AllowPort : usedPorts'[x] # NoName => usedPorts'[x] = usedPorts[x]
  BY DEF Release, PortsOK, PortsTypeOK

\* Acquire puts the port in use for the name, and leaves the others alone.
LEMMA AcquireEffect ==
  ASSUME PortsOK, NEW n \in ProxyName, NEW port, NEW r, NEW unbound,
         Acquire(n, port, r, unbound)
  PROVE  /\ usedPorts'[r] = n
         /\ \A x \in AllowPort \ {r} : usedPorts'[x] = usedPorts[x]
  BY DEF Acquire, Take, PortsOK, PortsTypeOK

LEMMA HoldersStep == IInv /\ Holders /\ [Next]_vars => Holders'
<1> SUFFICES ASSUME IInv, Holders, [Next]_vars,
                    NEW r \in AllowPort, usedPorts'[r] # NoName
             PROVE  \E q \in Proxy : HoldsFor(q, r)'
  BY DEF Holders
<1> USE DEF IInv
<1>0. PortsOK
  BY DEF TypeOK, PortsOK
<1>1. ASSUME NEW p \in Proxy, NEW c \in Config, Run(p, c)
      PROVE  \E q \in Proxy : HoldsFor(q, r)'
  <2> USE <1>1 DEF Run
  <2>0. c.name \in ProxyName /\ stage'[p] # "new" /\ cfg'[p] = c
    BY ConfigAssumption DEF TypeOK
  <2>1. CASE usedPorts'[r] = usedPorts[r]
    BY <2>1, HolderKept DEF TypeOK
  <2>2. CASE usedPorts'[r] # usedPorts[r]
    <3>1. PICK x \in AllowPort : /\ Acquire(c.name, c.port, x, Unbound)
                                 /\ realPort' = [realPort EXCEPT ![p] = x]
                                 /\ stage' = [stage EXCEPT ![p] = "listen"]
      BY <2>2
    <3>2. x = r /\ usedPorts'[r] = c.name
      BY <1>0, <2>0, <2>2, <3>1, AcquireEffect
    <3>3. realPort'[p] = r /\ stage'[p] = "listen"
      BY <3>1, <3>2 DEF TypeOK
    <3> QED BY <2>0, <3>2, <3>3 DEF HoldsFor, HasPort
  <2> QED BY <2>1, <2>2
<1>2. ASSUME NEW p \in Proxy, JoinFirst(p)
      PROVE  \E q \in Proxy : HoldsFor(q, r)'
  <2> USE <1>2 DEF JoinFirst
  <2>0. cfg[p].name \in ProxyName /\ Grouped(p) /\ stage'[p] # "new" /\ cfg' = cfg
    BY ConfigAssumption DEF TypeOK, StageFields
  <2>1. CASE usedPorts'[r] = usedPorts[r]
    BY <2>0, <2>1, HolderKept DEF TypeOK
  <2>2. CASE usedPorts'[r] # usedPorts[r]
    <3>1. PICK x \in AllowPort : Acquire(cfg[p].name, cfg[p].port, x, Unbound)
      BY <2>2
    <3>2. usedPorts'[r] = cfg[p].name
      BY <1>0, <2>0, <2>2, <3>1, AcquireEffect
    <3> QED BY <2>0, <3>2 DEF HoldsFor, Grouped
  <2> QED BY <2>1, <2>2
<1>3. ASSUME NEW p \in Proxy, Listen(p) \/ ReleasePort(p)
      PROVE  \E q \in Proxy : HoldsFor(q, r)'
  <2> USE DEF Listen, ReleasePort
  <2>1. CASE Release(realPort[p])
    <3>1. realPort[p] # r /\ usedPorts'[r] = usedPorts[r]
      BY <1>0, <2>1, ReleaseEffect
    <3> QED BY <1>3, <3>1, HolderKept DEF TypeOK
  <2>2. CASE UNCHANGED portVars /\ stage[p] = "listen" /\ stage'[p] = "up"
    BY <1>3, <2>2, HolderKept DEF TypeOK, HasPort
  <2> QED BY <1>3, <2>1, <2>2 DEF TypeOK
<1>4. ASSUME NEW p \in Proxy, CloseListener(p)
      PROVE  \E q \in Proxy : HoldsFor(q, r)'
  <2> USE <1>4 DEF CloseListener
  <2>1. Grouped(p) /\ stage'[p] # "new" /\ cfg' = cfg /\ realPort' = realPort
    BY DEF StageFields, TypeOK
  <2>2. usedPorts'[r] = usedPorts[r]
    BY <1>0, ReleaseEffect
  <2>3. \A q \in Proxy \ {p} : stage'[q] = stage[q]
    BY DEF TypeOK
  <2> QED BY <2>1, <2>2, <2>3, HolderKept
<1>5. ASSUME NEW p \in Proxy,
             AddProxy(p) \/ CloseProxy(p) \/ CloseSocket(p)
      PROVE  \E q \in Proxy : HoldsFor(q, r)'
  <2>1. /\ UNCHANGED <<portVars, cfg, realPort>> /\ stage[p] # "new"
        /\ \E x \in HasPort : stage' = [stage EXCEPT ![p] = x]
    BY <1>5 DEF AddProxy, CloseProxy, CloseSocket, HasPort
  <2>2. stage'[p] \in HasPort /\ \A q \in Proxy \ {p} : stage'[q] = stage[q]
    BY <2>1 DEF TypeOK
  <2> QED BY <2>1, <2>2, HolderKept DEF HasPort
<1>6. ASSUME NEW p \in Proxy, GroupListen(p) \/ JoinNext(p) \/ CloseCh(p)
      PROVE  \E q \in Proxy : HoldsFor(q, r)'
  <2>1. Grouped(p) /\ stage'[p] # "new" /\ UNCHANGED <<portVars, cfg>>
    BY <1>6 DEF GroupListen, JoinNext, CloseCh, StageFields, TypeOK, Grouped
  <2>2. \A q \in Proxy \ {p} : stage'[q] = stage[q] /\ realPort'[q] = realPort[q]
    BY <1>6 DEF GroupListen, JoinNext, CloseCh, TypeOK
  <2> QED BY <2>1, <2>2, HolderKept
<1>7. ASSUME NEW p \in Proxy, NEW c \in Config, Lookup(p, c)
      PROVE  \E q \in Proxy : HoldsFor(q, r)'
  BY <1>7, HolderKept DEF Lookup, TypeOK
<1>8. ASSUME UNCHANGED <<usedPorts, stage, cfg, realPort>>
      PROVE  \E q \in Proxy : HoldsFor(q, r)'
  BY <1>8 DEF Holders, HoldsFor, Grouped
<1>9. ASSUME NEW t \in TCPGroup,
             WorkerAccept(t) \/ WorkerExit(t) \/ \E p \in Proxy : Accept(t, p)
      PROVE  \E q \in Proxy : HoldsFor(q, r)'
  BY <1>8, <1>9 DEF WorkerAccept, WorkerExit, Accept, WorkerFrame
<1>10. ASSUME NEW n \in ProxyName, CleanReserved(n) /\ UNCHANGED <<pxyVars, bound, groupVars>>
       PROVE  \E q \in Proxy : HoldsFor(q, r)'
  BY <1>8, <1>10 DEF CleanReserved
<1> QED
  BY <1>1, <1>2, <1>3, <1>4, <1>5, <1>6, <1>7, <1>8, <1>9, <1>10 DEF Next, ProxyStep, vars

\* A port in use was acquired for a proxy that has it still or runs in a group:
\* on every path of TCPProxy.Run, RegisterProxy and Close the port of a proxy
\* without a group is released, whoever else acquired it in between.
THEOREM PortsAreGivenBack == Spec => []PortsComeBack
<1>1. Init => Holders
  BY DEF Init, PortsInit, Holders
<1>2. IInv /\ Holders => PortsComeBack
  <2>1. NoConfig \notin Config
    BY ConfigAssumption DEF NoConfig
  <2> QED BY <2>1 DEF IInv, StageFields, Holders, HoldsFor, HasPort, PortsComeBack, Grouped
<1> QED
  BY <1>1, <1>2, HoldersStep, Invariance, PTL DEF Spec

-----------------------------------------------------------------------------
(* The ports that are listened on.                                         *)

\* No proxy that left its port to frps has got r: only then does nobody get r
\* while another one is about to listen on it.
Fixed(r) == \A q \in Proxy : realPort[q] = r => cfg[q].port # NoPort

\* The stages in which a proxy, or its group, answers for its port, and those
\* of them in which nobody listens on it.
HolderStage == {"listen", "groupListen", "up", "running", "closing", "release", "leave"}
SilentStage == {"listen", "groupListen", "release"}
Holder(p, r) == realPort[p] = r /\ stage[p] \in HolderStage
Owner(p) == IF Grouped(p) THEN joined[p] ELSE p

\* A fixed port has one owner, is in use as long as it has one or is listened
\* on, and nobody else listens on it.
OneOwner(r) == \A p, q \in Proxy : Holder(p, r) /\ Holder(q, r) => Owner(p) = Owner(q)
OwnedIsUsed(r) == (\E p \in Proxy : Holder(p, r)) \/ bound[r] # Nobody => usedPorts[r] # NoName
OwnerListens(r) ==
  \A p \in Proxy : Holder(p, r) =>
    /\ bound[r] \in {Nobody, Owner(p)}
    /\ stage[p] \in SilentStage => bound[r] = Nobody
Owned(r) == OneOwner(r) /\ OwnedIsUsed(r) /\ OwnerListens(r)

\* A proxy that was not given a port yet has none.
NoPortYet == \A p \in Proxy : stage[p] \in {"new", "join"} => realPort[p] = NoPort

OwnedPorts == NoPortYet /\ \A r \in AllowPort : Fixed(r) => Owned(r)

\* A proxy that has a port keeps it, and its configuration.
LEMMA PortKept ==
  IInv /\ NoPortYet /\ [Next]_vars =>
    /\ NoPortYet'
    /\ \A q \in Proxy : realPort[q] \in AllowPort =>
         realPort'[q] = realPort[q] /\ cfg'[q] = cfg[q]
<1> SUFFICES ASSUME IInv, NoPortYet, [Next]_vars
             PROVE  /\ NoPortYet'
                    /\ \A q \in Proxy : realPort[q] \in AllowPort =>
                         realPort'[q] = realPort[q] /\ cfg'[q] = cfg[q]
  OBVIOUS
<1> USE GroupAssumption DEF IInv, TypeOK, NoPortYet
<1>1. ASSUME NEW p \in Proxy, NEW c \in Config, Run(p, c) \/ Lookup(p, c)
      PROVE  /\ NoPortYet'
             /\ \A q \in Proxy : realPort[q] \in AllowPort =>
                  realPort'[q] = realPort[q] /\ cfg'[q] = cfg[q]
  BY <1>1 DEF Run, Lookup
<1>2. ASSUME NEW p \in Proxy, JoinFirst(p) \/ JoinNext(p)
      PROVE  /\ NoPortYet'
             /\ \A q \in Proxy : realPort[q] \in AllowPort =>
                  realPort'[q] = realPort[q] /\ cfg'[q] = cfg[q]
  BY <1>2 DEF JoinFirst, JoinNext
<1>3. ASSUME NEW p \in Proxy,
             \/ Listen(p) \/ AddProxy(p) \/ CloseProxy(p) \/ CloseSocket(p) \/ ReleasePort(p)
             \/ GroupListen(p) \/ CloseCh(p) \/ CloseListener(p)
      PROVE  NoPortYet' /\ realPort' = realPort /\ cfg' = cfg
  BY <1>3 DEF Listen, AddProxy, CloseProxy, CloseSocket, ReleasePort, GroupListen, CloseCh,
     CloseListener
<1>4. ASSUME UNCHANGED pxyVars
      PROVE  NoPortYet' /\ realPort' = realPort /\ cfg' = cfg
  BY <1>4
<1>5. ASSUME NEW t \in TCPGroup,
             WorkerAccept(t) \/ WorkerExit(t) \/ \E p \in Proxy : Accept(t, p)
      PROVE  UNCHANGED pxyVars
  BY <1>5 DEF WorkerAccept, WorkerExit, Accept, WorkerFrame
<1> HIDE DEF IInv, TypeOK, NoPortYet
<1> QED
  BY <1>1, <1>2, <1>3, <1>4, <1>5 DEF Next, ProxyStep, vars

\* A step of p that neither acquires r nor joins its owner nor binds it.
LEMMA OwnedKept ==
  ASSUME NEW p \in Proxy, NEW r \in AllowPort, Owned(r),
         \A q \in Proxy \ {p} : /\ stage'[q] = stage[q] /\ cfg'[q] = cfg[q]
                                /\ realPort'[q] = realPort[q] /\ joined'[q] = joined[q],
         Holder(p, r)' => /\ Holder(p, r) /\ Owner(p)' = Owner(p)
                          /\ stage'[p] \in SilentStage => bound'[r] = Nobody,
         usedPorts'[r] = usedPorts[r], bound'[r] \in {bound[r], Nobody}
  PROVE  Owned(r)'
<1>1. \A q \in Proxy : Holder(q, r)' =>
        /\ Holder(q, r) /\ Owner(q)' = Owner(q)
        /\ stage'[q] \in SilentStage => stage[q] \in SilentStage \/ bound'[r] = Nobody
  BY DEF Holder, Owner, Grouped
<1>2. OneOwner(r)'
  BY <1>1 DEF Owned, OneOwner
<1>3. OwnedIsUsed(r)'
  BY <1>1 DEF Owned, OwnedIsUsed
<1>4. OwnerListens(r)'
  BY <1>1 DEF Owned, OwnerListens
<1> QED BY <1>2, <1>3, <1>4 DEF Owned

\* r has no owner after the step.
LEMMA OwnerlessOwned ==
  ASSUME NEW r \in AllowPort, \A q \in Proxy : ~Holder(q, r)', bound'[r] = Nobody
  PROVE  Owned(r)'
  BY DEF Owned, OneOwner, OwnedIsUsed, OwnerListens

\* p acquires r, which was not in use.
LEMMA AcquiredOwned ==
  ASSUME NEW p \in Proxy, NEW r \in AllowPort, Owned(r), usedPorts[r] = NoName,
         \A q \in Proxy \ {p} : stage'[q] = stage[q] /\ realPort'[q] = realPort[q],
         bound' = bound, usedPorts'[r] # NoName
  PROVE  Owned(r)'
<1>1. bound'[r] = Nobody /\ \A q \in Proxy \ {p} : ~Holder(q, r)'
  BY DEF Owned, OwnedIsUsed, Holder
<1> QED BY <1>1 DEF Owned, OneOwner, OwnedIsUsed, OwnerListens

\* p starts to listen on its port r, for itself or for its group.
LEMMA ListenedOwned ==
  ASSUME NEW p \in Proxy, NEW r \in AllowPort, Owned(r), Holder(p, r),
         \A q \in Proxy \ {p} : Holder(q, r) => stage[q] \notin SilentStage,
         \A q \in Proxy \ {p} : stage'[q] = stage[q],
         UNCHANGED <<cfg, realPort, joined, usedPorts>>,
         stage'[p] = "up", bound'[r] = Owner(p)
  PROVE  Owned(r)'
<1>1. \A q \in Proxy : Owner(q)' = Owner(q) /\ (Holder(q, r)' => Holder(q, r))
  BY DEF Owner, Grouped, Holder
<1>2. OneOwner(r)'
  BY <1>1 DEF Owned, OneOwner
<1>3. OwnedIsUsed(r)'
  BY DEF Owned, OwnedIsUsed
<1>4. OwnerListens(r)'
  <2> SUFFICES ASSUME NEW q \in Proxy, Holder(q, r)'
               PROVE  bound'[r] = Owner(q)' /\ stage'[q] \notin SilentStage
    BY DEF OwnerListens
  <2>1. Owner(q) = Owner(p)
    BY <1>1 DEF Owned, OneOwner
  <2>2. stage'[q] \notin SilentStage
    BY <1>1 DEF SilentStage
  <2> QED BY <1>1, <2>1, <2>2
<1> QED BY <1>2, <1>3, <1>4 DEF Owned

\* A listener of a group has the group's port.
LEMMA MemberPort ==
  ASSUME IInv, NEW t \in TCPGroup, NEW p \in lns[t]
  PROVE  params[t].real = realPort[p]
<1>1. params[t] = [group |-> cfg[p].group, key |-> cfg[p].key,
                   port |-> cfg[p].port, real |-> realPort[p]]
  BY Zenon DEF IInv, GroupMembersAgree
<1> QED BY <1>1

\* Every step keeps the fixed ports owned.
LEMMA OwnedStep == FixedGroupPorts /\ IInv /\ OwnedPorts /\ [Next]_vars => OwnedPorts'
<1> SUFFICES ASSUME FixedGroupPorts, IInv, OwnedPorts, [Next]_vars,
                    NEW r \in AllowPort, Fixed(r)'
             PROVE  Owned(r)'
  BY PortKept DEF OwnedPorts
<1>0. PortsOK
  BY DEF IInv, TypeOK, PortsOK
<1>a. Owned(r)
  BY PortKept DEF OwnedPorts, Fixed
<1>b. \A p \in Proxy : \A t \in TCPGroup : p # t
  BY GroupAssumption DEF TCPGroup
<1>1. ASSUME NEW p \in Proxy, NEW c \in Config, Run(p, c)
      PROVE  Owned(r)'
  <2>1. CASE \E x \in AllowPort : /\ Acquire(c.name, c.port, x, Unbound)
                                  /\ realPort' = [realPort EXCEPT ![p] = x]
                                  /\ stage' = [stage EXCEPT ![p] = "listen"]
    <3>1. PICK x \in AllowPort : /\ Acquire(c.name, c.port, x, Unbound)
                                 /\ realPort' = [realPort EXCEPT ![p] = x]
                                 /\ stage' = [stage EXCEPT ![p] = "listen"]
      BY <2>1
    <3>2. /\ \A q \in Proxy \ {p} : /\ stage'[q] = stage[q] /\ realPort'[q] = realPort[q]
                                    /\ cfg'[q] = cfg[q] /\ joined'[q] = joined[q]
          /\ realPort'[p] = x /\ cfg'[p] = c /\ bound' = bound
      BY <1>1, <3>1 DEF Run, IInv, TypeOK
    <3>3. usedPorts'[x] = c.name /\ c.name \in ProxyName
          /\ \A y \in AllowPort \ {x} : usedPorts'[y] = usedPorts[y]
      BY <1>0, <3>1, ConfigAssumption, AcquireEffect
    <3>4. CASE x = r
      <4>1. c.port # NoPort
        BY <3>2, <3>4 DEF Fixed
      <4>2. usedPorts[r] = NoName
        BY <1>0, <3>1, <3>4, <4>1 DEF Acquire, PortsOK, PortTables
      <4> QED BY <1>a, <3>2, <3>3, <3>4, <4>2, AcquiredOwned, PortAssumption
    <3>5. CASE x # r
      BY <1>a, <3>2, <3>3, <3>5, OwnedKept DEF Holder
    <3> QED BY <3>4, <3>5
  <2>2. CASE stage' = [stage EXCEPT ![p] = "ended"] /\ UNCHANGED <<portVars, realPort>>
    <3>1. /\ \A q \in Proxy \ {p} : /\ stage'[q] = stage[q] /\ realPort'[q] = realPort[q]
                                    /\ cfg'[q] = cfg[q] /\ joined'[q] = joined[q]
          /\ stage'[p] = "ended" /\ bound' = bound /\ usedPorts' = usedPorts
      BY <1>1, <2>2 DEF Run, IInv, TypeOK
    <3> QED BY <1>a, <3>1, OwnedKept DEF Holder, HolderStage
  <2> QED BY <1>1, <2>1, <2>2 DEF Run
<1>2. ASSUME NEW p \in Proxy, JoinFirst(p)
      PROVE  Owned(r)'
  <2>0. UNCHANGED <<cfg, joined, bound>> /\ cfg[p] \in Config /\ cfg[p].port # NoPort
    BY <1>2 DEF JoinFirst, IInv, StageFields, FixedGroupPorts, Grouped
  <2>1. CASE \E x \in AllowPort : /\ Acquire(cfg[p].name, cfg[p].port, x, Unbound)
                                  /\ realPort' = [realPort EXCEPT ![p] = x]
                                  /\ stage' = [stage EXCEPT ![p] = "groupListen"]
    <3>1. PICK x \in AllowPort : /\ Acquire(cfg[p].name, cfg[p].port, x, Unbound)
                                 /\ realPort' = [realPort EXCEPT ![p] = x]
                                 /\ stage' = [stage EXCEPT ![p] = "groupListen"]
      BY <2>1
    <3>2. /\ \A q \in Proxy \ {p} : stage'[q] = stage[q] /\ realPort'[q] = realPort[q]
          /\ realPort'[p] = x
      BY <3>1 DEF IInv, TypeOK
    <3>3. usedPorts'[x] = cfg[p].name /\ cfg[p].name \in ProxyName
          /\ \A y \in AllowPort \ {x} : usedPorts'[y] = usedPorts[y]
      BY <1>0, <2>0, <3>1, ConfigAssumption, AcquireEffect
    <3>4. CASE x = r
      <4>1. usedPorts[r] = NoName
        BY <1>0, <2>0, <3>1, <3>4 DEF Acquire, PortsOK, PortTables
      <4> QED BY <1>a, <2>0, <3>2, <3>3, <3>4, <4>1, AcquiredOwned, PortAssumption
    <3>5. CASE x # r
      BY <1>a, <2>0, <3>2, <3>3, <3>5, OwnedKept DEF Holder
    <3> QED BY <3>4, <3>5
  <2>2. CASE stage' = [stage EXCEPT ![p] = "ended"] /\ UNCHANGED <<portVars, realPort>>
    <3>1. stage'[p] = "ended" /\ \A q \in Proxy \ {p} : stage'[q] = stage[q]
      BY <2>2 DEF IInv, TypeOK
    <3> QED BY <1>a, <2>0, <2>2, <3>1, OwnedKept DEF Holder, HolderStage
  <2> QED BY <1>2, <2>1, <2>2 DEF JoinFirst
<1>3. ASSUME NEW p \in Proxy, Listen(p) PROVE Owned(r)'
  <2>0. /\ UNCHANGED <<cfg, realPort, joined>> /\ \A q \in Proxy \ {p} : stage'[q] = stage[q]
        /\ stage[p] = "listen" /\ Owner(p) = p /\ realPort[p] \in AllowPort \cap SysPort
    BY <1>3, GroupAssumption DEF Listen, IInv, TypeOK, StageFields, Owner
  <2>1. ASSUME NEW q \in Proxy \ {p}, Holder(p, r), Holder(q, r) PROVE FALSE
    <3>1. Owner(q) = p
      BY <1>a, <2>0, <2>1 DEF Owned, OneOwner
    <3>2. Grouped(q) => joined[q] \in TCPGroup
      BY <2>1 DEF Holder, HolderStage, IInv, StageFields
    <3> QED BY <1>b, <3>1, <3>2 DEF Owner
  <2>2. CASE /\ realPort[p] \in Unbound /\ bound' = [bound EXCEPT ![realPort[p]] = p]
             /\ stage' = [stage EXCEPT ![p] = "up"] /\ UNCHANGED portVars
    <3>1. stage'[p] = "up" /\ bound'[realPort[p]] = p
          /\ \A x \in SysPort \ {realPort[p]} : bound'[x] = bound[x]
      BY <2>0, <2>2 DEF IInv, TypeOK
    <3>2. CASE realPort[p] = r
      <4>1. Holder(p, r)
        BY <2>0, <3>2 DEF Holder, HolderStage
      <4> QED BY <1>a, <2>0, <2>1, <2>2, <3>1, <3>2, <4>1, ListenedOwned
    <3>3. CASE realPort[p] # r
      BY <1>a, <2>0, <2>2, <3>1, <3>3, OwnedKept, GroupAssumption DEF Holder
    <3> QED BY <3>2, <3>3
  <2>3. CASE /\ Release(realPort[p]) /\ stage' = [stage EXCEPT ![p] = "ended"]
             /\ UNCHANGED bound
    <3>1. stage'[p] = "ended"
      BY <2>3 DEF IInv, TypeOK
    <3>2. CASE realPort[p] = r
      <4>1. Holder(p, r) /\ bound[r] = Nobody
        BY <1>a, <2>0, <3>2 DEF Holder, HolderStage, SilentStage, Owned, OwnerListens
      <4>2. \A q \in Proxy : ~Holder(q, r)'
        BY <2>0, <2>1, <3>1, <4>1 DEF Holder, HolderStage
      <4> QED BY <2>3, <4>1, <4>2, OwnerlessOwned
    <3>3. CASE realPort[p] # r
      <4>1. usedPorts'[r] = usedPorts[r]
        BY <1>0, <2>3, <3>3 DEF Release, PortsOK, PortsTypeOK
      <4> QED BY <1>a, <2>0, <2>3, <3>3, <4>1, OwnedKept DEF Holder
    <3> QED BY <3>2, <3>3
  <2> QED BY <1>3, <2>2, <2>3 DEF Listen
<1>4. ASSUME NEW p \in Proxy, ReleasePort(p) PROVE Owned(r)'
  <2>0. /\ UNCHANGED <<cfg, realPort, joined, bound>>
        /\ \A q \in Proxy \ {p} : stage'[q] = stage[q]
        /\ stage'[p] = "ended" /\ stage[p] = "release" /\ Owner(p) = p /\ Release(realPort[p])
    BY <1>4 DEF ReleasePort, IInv, TypeOK, StageFields, Owner
  <2>1. CASE realPort[p] = r
    <3>1. Holder(p, r) /\ bound[r] = Nobody
      BY <1>a, <2>0, <2>1 DEF Holder, HolderStage, SilentStage, Owned, OwnerListens
    <3>2. ASSUME NEW q \in Proxy \ {p}, Holder(q, r) PROVE FALSE
      <4>1. Owner(q) = p
        BY <1>a, <2>0, <3>1, <3>2 DEF Owned, OneOwner
      <4>2. Grouped(q) => joined[q] \in TCPGroup
        BY <3>2 DEF Holder, HolderStage, IInv, StageFields
      <4> QED BY <1>b, <4>1, <4>2 DEF Owner
    <3>3. \A q \in Proxy : ~Holder(q, r)'
      BY <2>0, <3>2 DEF Holder, HolderStage
    <3> QED BY <2>0, <3>1, <3>3, OwnerlessOwned
  <2>2. CASE realPort[p] # r
    <3>1. usedPorts'[r] = usedPorts[r]
      BY <1>0, <2>0, <2>2 DEF Release, PortsOK, PortsTypeOK
    <3> QED BY <1>a, <2>0, <2>2, <3>1, OwnedKept DEF Holder
  <2> QED BY <2>1, <2>2
<1>5. ASSUME NEW p \in Proxy, GroupListen(p) PROVE Owned(r)'
  <2> DEFINE t == joined[p]
  <2>0. /\ UNCHANGED <<portVars, cfg, realPort, joined>>
        /\ \A q \in Proxy \ {p} : stage'[q] = stage[q]
        /\ stage[p] = "groupListen" /\ Owner(p) = t /\ t \in TCPGroup
        /\ cfg[p].port = realPort[p] /\ realPort[p] \in AllowPort /\ AllowPort \subseteq SysPort
    BY <1>5, GroupAssumption
    DEF GroupListen, IInv, TypeOK, StageFields, Owner, FixedGroupPorts, Grouped
  <2>1. CASE /\ \E x \in Unbound : cfg[p].port \in {x, NoPort} /\ bound' = [bound EXCEPT ![x] = t]
             /\ stage' = [stage EXCEPT ![p] = "up"]
    <3>1. stage'[p] = "up" /\ bound'[realPort[p]] = t
          /\ \A x \in SysPort \ {realPort[p]} : bound'[x] = bound[x]
      BY <2>0, <2>1, PortAssumption DEF IInv, TypeOK
    <3>2. CASE realPort[p] = r
      <4>1. Holder(p, r)
        BY <2>0, <3>2 DEF Holder, HolderStage
      <4>2. ASSUME NEW q \in Proxy \ {p}, Holder(q, r), stage[q] \in SilentStage PROVE FALSE
        <5>1. Owner(q) = t
          BY <1>a, <2>0, <4>1, <4>2 DEF Owned, OneOwner
        <5>2. Grouped(q) /\ joined[q] = t
          BY <1>b, <2>0, <5>1 DEF Owner
        <5> QED BY <2>0, <4>2, <5>2 DEF SilentStage, IInv, StageFields, LockHolder
      <4> QED BY <1>a, <2>0, <3>1, <3>2, <4>1, <4>2, ListenedOwned
    <3>3. CASE realPort[p] # r
      BY <1>a, <2>0, <3>1, <3>3, OwnedKept DEF Holder
    <3> QED BY <3>2, <3>3
  <2>2. CASE stage' = [stage EXCEPT ![p] = "ended"] /\ UNCHANGED bound
    <3>1. stage'[p] = "ended"
      BY <2>2 DEF IInv, TypeOK
    <3> QED BY <1>a, <2>0, <2>2, <3>1, OwnedKept DEF Holder, HolderStage
  <2> QED BY <1>5, <2>1, <2>2 DEF GroupListen
<1>6. ASSUME NEW p \in Proxy, JoinNext(p) PROVE Owned(r)'
  <2> DEFINE t == joined[p]
  <2>0. /\ UNCHANGED <<portVars, cfg, joined, bound>>
        /\ \A q \in Proxy \ {p} : stage'[q] = stage[q] /\ realPort'[q] = realPort[q]
        /\ lns[t] # {} /\ Grouped(p) /\ t \in TCPGroup
    BY <1>6 DEF JoinNext, IInv, TypeOK, StageFields
  <2>1. CASE /\ realPort' = [realPort EXCEPT ![p] = params[t].real]
             /\ stage' = [stage EXCEPT ![p] = "up"]
    <3>1. realPort'[p] = params[t].real /\ stage'[p] = "up"
      BY <2>1 DEF IInv, TypeOK
    <3>2. CASE params[t].real = r
      <4>1. PICK q \in lns[t] : TRUE
        BY <2>0
      <4>2. q \in Proxy /\ InGroup(q) /\ joined[q] = t
        BY <2>0, <4>1 DEF IInv, TypeOK, Membership
      <4>3. realPort[q] = r
        BY <2>0, <3>2, <4>1, MemberPort
      <4>4. Holder(q, r) /\ Owner(q) = t
        BY <4>2, <4>3 DEF Holder, HolderStage, InGroup, Owner
      <4>5. \A x \in Proxy : Owner(x)' = Owner(x)
        BY <2>0 DEF Owner, Grouped
      <4>6. \A x \in Proxy : Holder(x, r)' => Owner(x) = t /\ (x = p \/ Holder(x, r))
        BY <1>a, <2>0, <4>2, <4>4 DEF Owned, OneOwner, Holder, Owner
      <4>7. OneOwner(r)'
        BY <4>5, <4>6 DEF OneOwner
      <4>8. OwnedIsUsed(r)'
        BY <1>a, <2>0, <4>2, <4>4 DEF Owned, OwnedIsUsed
      <4>9. OwnerListens(r)'
        <5>1. bound[r] \in {Nobody, t}
          BY <1>a, <4>2, <4>4 DEF Owned, OwnerListens
        <5>2. \A x \in Proxy : Holder(x, r)' /\ stage'[x] \in SilentStage => bound[r] = Nobody
          BY <1>a, <2>0, <3>1, <4>6 DEF Owned, OwnerListens, SilentStage
        <5> QED BY <2>0, <4>5, <4>6, <5>1, <5>2 DEF OwnerListens
      <4> QED BY <4>7, <4>8, <4>9 DEF Owned
    <3>3. CASE params[t].real # r
      BY <1>a, <2>0, <3>1, <3>3, OwnedKept DEF Holder
    <3> QED BY <3>2, <3>3
  <2>2. CASE stage' = [stage EXCEPT ![p] = "ended"] /\ UNCHANGED realPort
    <3>1. stage'[p] = "ended"
      BY <2>2 DEF IInv, TypeOK
    <3> QED BY <1>a, <2>0, <2>2, <3>1, OwnedKept DEF Holder, HolderStage
  <2> QED BY <1>6, <2>1, <2>2 DEF JoinNext
<1>7. ASSUME NEW p \in Proxy, CloseListener(p) PROVE Owned(r)'
  <2> DEFINE t == joined[p]
  <2>0. /\ UNCHANGED <<cfg, realPort, joined>>
        /\ \A q \in Proxy \ {p} : stage'[q] = stage[q]
        /\ stage'[p] \in {"ended", "panicked"}
        /\ stage[p] = "leave" /\ Grouped(p) /\ t \in TCPGroup /\ p \in lns[t] /\ ~Locked(t)
    BY <1>7 DEF CloseListener, IInv, TypeOK, StageFields, Membership, InGroup
  <2>1. params[t].real = realPort[p] /\ realPort[p] \in AllowPort /\ AllowPort \subseteq SysPort
    BY <2>0, MemberPort, GroupAssumption DEF IInv, StageFields
  <2>2. ~Holder(p, r)'
    BY <2>0 DEF Holder, HolderStage
  <2>3. CASE UNCHANGED <<portVars, bound>>
    BY <1>a, <2>0, <2>2, <2>3, OwnedKept
  <2>4. CASE lns[t] = {p} /\ Unbind(t) /\ Release(params[t].real)
    <3>1. \A x \in SysPort : bound'[x] = IF bound[x] = t THEN Nobody ELSE bound[x]
      BY <2>4 DEF Unbind
    <3>2. CASE realPort[p] = r
      <4>1. Holder(p, r) /\ Owner(p) = t
        BY <2>0, <3>2 DEF Holder, HolderStage, Owner
      <4>2. bound'[r] = Nobody
        BY <1>a, <2>1, <3>1, <3>2, <4>1 DEF Owned, OwnerListens
      <4>3. ASSUME NEW q \in Proxy \ {p}, Holder(q, r) PROVE FALSE
        <5>1. Owner(q) = t
          BY <1>a, <4>1, <4>3 DEF Owned, OneOwner
        <5>2. Grouped(q) /\ joined[q] = t
          BY <1>b, <2>0, <5>1 DEF Owner
        <5>3. stage[q] # "groupListen"
          BY <2>0, <5>2 DEF Locked
        <5>4. InGroup(q)
          BY <4>3, <5>2, <5>3 DEF Holder, HolderStage, InGroup, IInv, StageFields
        <5> QED BY <2>4, <5>2, <5>4 DEF IInv, Membership
      <4>4. \A q \in Proxy : ~Holder(q, r)'
        BY <2>0, <2>2, <4>3 DEF Holder
      <4> QED BY <4>2, <4>4, OwnerlessOwned
    <3>3. CASE realPort[p] # r
      <4>1. usedPorts'[r] = usedPorts[r]
        BY <1>0, <2>1, <2>4, <3>3 DEF Release, PortsOK, PortsTypeOK
      <4>2. bound'[r] \in {bound[r], Nobody}
        BY <2>1, <3>1
      <4> QED BY <1>a, <2>0, <2>2, <4>1, <4>2, OwnedKept
    <3> QED BY <3>2, <3>3
  <2> QED BY <1>7, <2>3, <2>4 DEF CloseListener
<1>8. ASSUME NEW p \in Proxy, CloseSocket(p) PROVE Owned(r)'
  <2>1. /\ UNCHANGED <<portVars, cfg, realPort, joined>>
        /\ \A q \in Proxy \ {p} : stage'[q] = stage[q]
        /\ stage'[p] = "release" /\ stage[p] = "closing" /\ Owner(p) = p
    BY <1>8 DEF CloseSocket, IInv, TypeOK, Owner, Grouped
  <2>2. r \in SysPort /\ bound'[r] = IF bound[r] = p THEN Nobody ELSE bound[r]
    BY <1>8, GroupAssumption DEF CloseSocket, Unbind
  <2>3. Holder(p, r) => bound[r] \in {Nobody, p}
    BY <1>a, <2>1 DEF Owned, OwnerListens
  <2>4. Holder(p, r)' => Holder(p, r) /\ Owner(p)' = Owner(p) /\ bound'[r] = Nobody
    BY <2>1, <2>2, <2>3 DEF Holder, HolderStage, Owner, Grouped
  <2> QED BY <1>a, <2>1, <2>2, <2>4, OwnedKept
<1>9. ASSUME NEW p \in Proxy, AddProxy(p) \/ CloseProxy(p) \/ CloseCh(p) PROVE Owned(r)'
  <2>1. /\ UNCHANGED <<portVars, cfg, realPort, joined, bound>>
        /\ stage[p] \in {"up", "running", "closing"}
        /\ \E x \in {"running", "closing", "leave"} : stage' = [stage EXCEPT ![p] = x]
    BY <1>9 DEF AddProxy, CloseProxy, CloseCh
  <2>2. /\ stage'[p] \in {"running", "closing", "leave"}
        /\ \A q \in Proxy \ {p} : stage'[q] = stage[q]
    BY <2>1 DEF IInv, TypeOK
  <2>3. Holder(p, r)' => Holder(p, r) /\ Owner(p)' = Owner(p) /\ stage'[p] \notin SilentStage
    BY <2>1, <2>2 DEF Holder, HolderStage, SilentStage, Owner, Grouped
  <2> QED BY <1>a, <2>1, <2>2, <2>3, OwnedKept
<1>10. ASSUME NEW p \in Proxy, NEW c \in Config, Lookup(p, c) PROVE Owned(r)'
  <2>1. /\ UNCHANGED <<portVars, realPort, bound>> /\ stage'[p] = "join"
        /\ \A q \in Proxy \ {p} : /\ stage'[q] = stage[q] /\ cfg'[q] = cfg[q]
                                  /\ joined'[q] = joined[q]
    BY <1>10 DEF Lookup, IInv, TypeOK
  <2> QED BY <1>a, <2>1, OwnedKept DEF Holder, HolderStage
<1>11. ASSUME UNCHANGED <<usedPorts, pxyVars, bound>> PROVE Owned(r)'
  BY <1>a, <1>11 DEF Owned, OneOwner, OwnedIsUsed, OwnerListens, Holder, Owner, Grouped
<1>12. ASSUME NEW t \in TCPGroup,
              WorkerAccept(t) \/ WorkerExit(t) \/ \E p \in Proxy : Accept(t, p)
       PROVE  Owned(r)'
  BY <1>11, <1>12 DEF WorkerAccept, WorkerExit, Accept, WorkerFrame
<1>13. ASSUME NEW n \in ProxyName, CleanReserved(n) /\ UNCHANGED <<pxyVars, bound, groupVars>>
       PROVE  Owned(r)'
  BY <1>11, <1>13 DEF CleanReserved
<1> QED
  BY <1>1, <1>2, <1>3, <1>4, <1>5, <1>6, <1>7, <1>8, <1>9, <1>10, <1>11, <1>12, <1>13
  DEF Next, ProxyStep, vars

\* Unless a group leaves its port to frps, a port that TCPProxy.Run or
\* TCPGroup.Listen listens on is in use in ports.Manager, so nobody else is
\* given it, for any number of proxies that acquire, share and release ports.
THEOREM ListenedIsUsed == FixedGroupPorts /\ Spec => []ListeningIsUsed
<1>1. Init => OwnedPorts
  BY GroupAssumption DEF Init, OwnedPorts, NoPortYet, Owned, OneOwner, OwnedIsUsed, OwnerListens,
     Holder, HolderStage
<1>2. OwnedPorts => ListeningIsUsed
  BY DEF OwnedPorts, Fixed, Owned, OwnedIsUsed, ListeningIsUsed
<1>3. FixedGroupPorts => FixedGroupPorts'
  BY DEF FixedGroupPorts
<1> QED
  BY <1>1, <1>2, <1>3, OwnedStep, Invariance, PTL DEF Spec
-----------------------------------------------------------------------------
(* Connections of a group.                                                 *)

\* A worker whose acceptCh is open has a listener to hand a connection to.
HasTaker ==
  \A t \in TCPGroup : worker[t] # "off" /\ acceptCh[t] = "open" =>
    \E p \in lns[t] : stage[p] \in {"up", "running", "closing", "leave"}

\* It has a group with members, since the last one to leave closes acceptCh.
WorkerHasGroup ==
  \A t \in TCPGroup : worker[t] # "off" /\ acceptCh[t] = "open" => lns[t] # {}

LEMMA WorkerStep == IInv /\ WorkerHasGroup /\ [Next]_vars => WorkerHasGroup'
<1> SUFFICES ASSUME IInv, WorkerHasGroup, [Next]_vars PROVE WorkerHasGroup'
  OBVIOUS
<1> USE DEF IInv, WorkerHasGroup
<1>1. CASE UNCHANGED <<worker, acceptCh, lns>>
  BY <1>1
<1>2. ASSUME NEW p \in Proxy, GroupListen(p) PROVE WorkerHasGroup'
  <2>1. joined[p] \in TCPGroup
    BY <1>2, ConfigAssumption DEF GroupListen, StageFields
  <2>2. /\ acceptCh' = acceptCh
        /\ \/ UNCHANGED <<worker, lns>>
           \/ /\ worker' = [worker EXCEPT ![joined[p]] = "accept"]
              /\ lns' = [lns EXCEPT ![joined[p]] = {p}]
    BY <1>2 DEF GroupListen
  <2>3. worker \in [TCPGroup -> {"off", "accept", "send"}] /\ lns \in [TCPGroup -> SUBSET Proxy]
    BY DEF TypeOK
  <2> HIDE DEF IInv
  <2> QED BY <2>1, <2>2, <2>3
<1>3. ASSUME NEW p \in Proxy, JoinNext(p) PROVE WorkerHasGroup'
  BY <1>3 DEF JoinNext, TypeOK, StageFields
<1>4. ASSUME NEW p \in Proxy, CloseListener(p) PROVE WorkerHasGroup'
  BY <1>4 DEF CloseListener, TypeOK, StageFields
<1>5. ASSUME NEW t \in TCPGroup, WorkerAccept(t) \/ WorkerExit(t) PROVE WorkerHasGroup'
  BY <1>5 DEF WorkerAccept, WorkerExit, WorkerFrame, TypeOK
<1>6. ASSUME NEW t \in TCPGroup, NEW p \in Proxy, Accept(t, p) PROVE WorkerHasGroup'
  BY <1>6 DEF Accept, WorkerFrame, TypeOK
<1>7. CASE \/ \E p \in Proxy : \/ Listen(p) \/ AddProxy(p) \/ CloseSocket(p) \/ ReleasePort(p)
                               \/ JoinFirst(p) \/ CloseCh(p) \/ CloseProxy(p)
           \/ \E p \in Proxy, c \in Config : Run(p, c) \/ Lookup(p, c)
           \/ \E n \in ProxyName : CleanReserved(n) /\ UNCHANGED <<pxyVars, bound, groupVars>>
           \/ UNCHANGED vars
  <2>1. UNCHANGED <<worker, acceptCh, lns>>
    BY <1>7 DEF Listen, AddProxy, CloseSocket, ReleasePort, JoinFirst, CloseCh, CloseProxy, Run,
       Lookup, vars
  <2> QED BY <1>1, <2>1
<1> QED BY <1>2, <1>3, <1>4, <1>5, <1>6, <1>7 DEF Next, ProxyStep

\* A connection the worker of a group has accepted can be taken by a listener of the group,
\* or acceptCh is closed and the worker gives up: the last listener to leave never leaves a
\* worker behind that waits for nobody, also where a group was emptied and taken over.  It is
\* the safety part of ConnectionsDispatched, for any number of proxies and groups.
THEOREM ConnsFindATaker == Spec => []HasTaker
<1>1. Init => WorkerHasGroup
  BY DEF Init, WorkerHasGroup
<1>2. Init /\ [][Next]_vars /\ []IInv => []WorkerHasGroup
  BY <1>1, WorkerStep, PTL
<1>3. IInv /\ WorkerHasGroup => HasTaker
  BY DEF IInv, WorkerHasGroup, HasTaker, Membership, InGroup, TypeOK
<1> QED BY Invariance, <1>2, <1>3, PTL DEF Spec
=============================================================================
