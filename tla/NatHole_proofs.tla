--------------------------- MODULE NatHole_proofs ---------------------------
(***************************************************************************)
(* Proofs about hole punching: for any number of attempts, of              *)
(* registrations of the proxy and of NATs the sides may be behind.         *)
(***************************************************************************)
EXTENDS NatHole, FiniteSetTheorems, SequenceTheorems, TLAPS

Stages == {"none", "prepare", "sid", "exchange", "delay", "probing", "made", "failed"}

TypeOK ==
  /\ nat \in [Side -> NatKind]
  /\ recv \in [1..MaxReg -> SUBSET Attempt]
  /\ stage \in [Side -> [Attempt -> Stages]]
  /\ sess \in [Attempt -> {"none", "new", "wait", "plan", "gone"}]
  /\ notified \subseteq Attempt
  /\ plan = [a \in Attempt |-> plan[a]]
  /\ pending \in [Attempt -> SUBSET Side]
  /\ lane \in [Lane -> {"none", "open", "ok", "err", "closed"}]
  /\ answer \in [Lane -> {"none", "ok", "err"}]
  /\ probes = [a \in Attempt |-> probes[a]]

-----------------------------------------------------------------------------
\* The answer to a lane is still to come: its request is on its way, or frps has it
\* and is about to answer.
Awaited(a, s) ==
  \/ <<a, s>> \in req
  \/ s = "v" /\ sess[a] \in {"new", "wait"}
  \/ s = "c" /\ a \in notified
  \/ sess[a] = "plan" /\ s \in pending[a]

\* Every request is answered once, and its lane was made before it was sent.
LaneOf(a) ==
  /\ \A s \in Side :
       /\ Awaited(a, s) => lane[<<a, s>>] \in {"open", "closed"} /\ answer[<<a, s>>] = "none"
       /\ answer[<<a, s>>] # "none" => lane[<<a, s>>] \in {"open", "closed"}
  /\ <<a, "v">> \in req => sess[a] = "none"
  /\ sess[a] # "none" => lane[<<a, "v">>] # "none"
  /\ a \in notified => <<a, "c">> \notin req
  /\ sess[a] = "plan" =>
       a \notin notified /\ <<a, "c">> \notin req /\ lane[<<a, "c">>] # "none"
LaneInv == \A a \in Attempt : LaneOf(a)

\* The sid of a session is passed on once, before its owner has done anything.
SidOf(a) ==
  /\ sess[a] \in {"none", "new"} =>
       stage["c"][a] = "none" /\ \A i \in 1..MaxReg : a \notin recv[i]
  /\ \A i \in 1..MaxReg : a \in recv[i] =>
       stage["c"][a] = "none" /\ \A j \in 1..MaxReg : a \in recv[j] => i = j
SidInv == \A a \in Attempt : SidOf(a)

-----------------------------------------------------------------------------
\* A mode and index for the two NATs: one of the behaviours of the table, and in
\* mode 4 one of the sides has ports that change in a regular way.
Fits(mode, index) ==
  /\ mode \in 0..4 /\ index \in DOMAIN getBehaviorByMode(mode)
  /\ mode = 4 => \E s \in Side : Feature(s).RegularPortsChange

\* A session has no plan until it is analysed, and then one that fits the NATs.
PlanOf(a) ==
  /\ sess[a] \in {"none", "new", "wait"} => plan[a].mode = 9
  /\ sess[a] = "plan" => plan[a].mode # 9
  /\ plan[a].mode # 9 =>
       /\ Fits(plan[a].mode, plan[a].index)
       /\ plan[a].resp = Plan(plan[a].mode, plan[a].index, nat["c"].addrs, Feature("c"),
                              nat["v"].addrs, Feature("v"))
PlanFits == \A a \in Attempt : PlanOf(a)

\* The records hold only what fits the two NATs.
Fitting == {r \in [Mode : 0..4, Index : 1..10, Score : Int] : Fits(r.Mode, r.Index)}
ScoresFit == scores \in Seq(Fitting)

\* A side punches only after it was told how.
ToldOf(a) ==
  /\ \A s \in Side :
       /\ answer[<<a, s>>] = "ok" \/ lane[<<a, s>>] = "ok" => plan[a].mode # 9
       /\ stage[s][a] \in {"delay", "probing", "made"} => plan[a].mode # 9
  /\ probes[a] # {} => plan[a].mode # 9
OnlyTold == \A a \in Attempt : ToldOf(a)

\* A response on its way was sent by a receiver that has made the hole, or that
\* listens on many ports.
PunchOf(a) ==
  \A s \in Side :
    /\ \A m \in probes[a] : m.to = s /\ m.response =>
         stage[Other(s)][a] = "made" \/ Told(Other(s), a).ListenRandomPorts > 0
    /\ stage[s][a] = "made" /\ Told(s, a).Role = "sender" =>
         stage[Other(s)][a] = "made" \/ Told(Other(s), a).ListenRandomPorts > 0
PunchInv == \A a \in Attempt : PunchOf(a)

-----------------------------------------------------------------------------
\* One side gets on with one attempt.
LEMMA StageSet ==
  ASSUME NEW st \in [Side -> [Attempt -> Stages]],
         NEW s \in Side, NEW a \in Attempt, NEW r \in Stages
  PROVE  /\ [st EXCEPT ![s][a] = r] \in [Side -> [Attempt -> Stages]]
         /\ \A t \in Side, b \in Attempt :
              [st EXCEPT ![s][a] = r][t][b] = IF t = s /\ b = a THEN r ELSE st[t][b]
  OBVIOUS

LEMMA InitType == Init => TypeOK
<1> SUFFICES ASSUME Init PROVE TypeOK
  OBVIOUS
<1> USE DEF Init, InitWith, TypeOK, Stages
<1>1. stage \in [Side -> [Attempt -> Stages]]
  OBVIOUS
<1>2. plan = [a \in Attempt |-> plan[a]]
  OBVIOUS
<1>3. recv \in [1..MaxReg -> SUBSET Attempt] /\ pending \in [Attempt -> SUBSET Side]
  OBVIOUS
<1>4. probes = [a \in Attempt |-> probes[a]]
  OBVIOUS
<1> QED BY <1>1, <1>2, <1>3, <1>4

LEMMA TypeStep == TypeOK /\ [Next]_vars => TypeOK'
<1> SUFFICES ASSUME TypeOK, [Next]_vars PROVE TypeOK'
  OBVIOUS
<1> USE DEF TypeOK
<1>1. CASE UNCHANGED vars
  BY <1>1 DEF vars, ctlVars, sessVars, laneVars
<1>2. CASE ListenClient \/ CloseClient \/ Clean
  BY <1>2 DEF ListenClient, CloseClient, Clean, ctlVars, sessVars, laneVars
<1>3. ASSUME NEW i \in 1..MaxReg, PassSid(i) PROVE TypeOK'
  BY <1>3 DEF PassSid, sessVars, laneVars, Stages, Side
<1>4. ASSUME NEW a \in Attempt, PreCheck(a) PROVE TypeOK'
  BY <1>4 DEF PreCheck, ctlVars, sessVars, laneVars, Stages, Side
<1>5. ASSUME NEW a \in Attempt, HandleVisitor(a) PROVE TypeOK'
  BY <1>5 DEF HandleVisitor, Answer, ctlVars, sessVars, laneVars, Lane, Side
<1>6. ASSUME NEW a \in Attempt, SendSid(a) PROVE TypeOK'
  BY <1>6 DEF SendSid, ctlVars, laneVars
<1>7. ASSUME NEW a \in Attempt, HandleClient(a) PROVE TypeOK'
  BY <1>7 DEF HandleClient, ctlVars, laneVars
<1>8. ASSUME NEW a \in Attempt, Analyse(a) PROVE TypeOK'
  BY <1>8 DEF Analyse, ctlVars, laneVars
<1>9. ASSUME NEW a \in Attempt, WaitTimesOut(a) \/ EndSession(a) PROVE TypeOK'
  BY <1>9 DEF WaitTimesOut, EndSession, ctlVars, laneVars
<1>10. ASSUME NEW a \in Attempt, NEW s \in Side, Respond(a, s) PROVE TypeOK'
  BY <1>10 DEF Respond, Answer, ctlVars, Lane, Side
<1>11. ASSUME NEW a \in Attempt, HandleReport(a) PROVE TypeOK'
  BY <1>11 DEF HandleReport, ctlVars, laneVars
<1>12. ASSUME NEW s \in Side, NEW a \in Attempt, Exchange(s, a) PROVE TypeOK'
  <2>a. "exchange" \in Stages /\ "delay" \in Stages /\ "failed" \in Stages
    BY DEF Stages
  <2>b. <<a, s>> \in Lane
    BY DEF Lane
  <2>1. stage' \in [Side -> [Attempt -> Stages]]
    <3>1. \E r \in Stages : stage' = [stage EXCEPT ![s][a] = r]
      BY <1>12, <2>a, Zenon DEF Exchange
    <3> QED BY <3>1, StageSet
  <2>2. lane' \in [Lane -> {"none", "open", "ok", "err", "closed"}]
    <3>1. lane' = lane \/ lane' = [lane EXCEPT ![<<a, s>>] = "open"]
      BY <1>12, Zenon DEF Exchange, DoSend
    <3> QED BY <2>b, <3>1
  <2> QED BY <1>12, <2>1, <2>2 DEF Exchange, ctlVars, sessVars
<1>13. ASSUME NEW s \in Side, NEW a \in Attempt, ExchangeReturns(s, a) PROVE TypeOK'
  <2>a. "exchange" \in Stages /\ "delay" \in Stages /\ "failed" \in Stages
    BY DEF Stages
  <2>b. <<a, s>> \in Lane
    BY DEF Lane
  <2>1. stage' \in [Side -> [Attempt -> Stages]]
    <3>1. \E r \in Stages : stage' = [stage EXCEPT ![s][a] = r]
      BY <1>13, <2>a, Zenon DEF ExchangeReturns
    <3> QED BY <3>1, StageSet
  <2>2. lane' \in [Lane -> {"none", "open", "ok", "err", "closed"}]
    BY <1>13, <2>b DEF ExchangeReturns, DoReturn
  <2> QED BY <1>13, <2>1, <2>2 DEF ExchangeReturns, ctlVars, sessVars
<1>14. ASSUME NEW s \in Side, NEW a \in Attempt, SendProbes(s, a) PROVE TypeOK'
  <2>1. stage' \in [Side -> [Attempt -> Stages]]
    BY <1>14 DEF SendProbes, Made, Stages
  <2>2. probes' = [b \in Attempt |-> probes'[b]]
    BY <1>14 DEF SendProbes, StopsReading
  <2> QED BY <1>14, <2>1, <2>2 DEF SendProbes, ctlVars, sessVars, laneVars
<1>15. ASSUME NEW s \in Side, NEW a \in Attempt, ReceiveProbe(s, a) PROVE TypeOK'
  <2>1. stage' \in [Side -> [Attempt -> Stages]]
    <3>1. "made" \in Stages
      BY DEF Stages
    <3>2. stage' = stage \/ stage' = [stage EXCEPT ![s][a] = "made"]
      BY <1>15, Zenon DEF ReceiveProbe, Made
    <3>3. [stage EXCEPT ![s][a] = "made"] \in [Side -> [Attempt -> Stages]]
      BY <3>1, StageSet
    <3> QED BY <3>2, <3>3
  <2>2. probes' = [b \in Attempt |-> probes'[b]]
    BY <1>15 DEF ReceiveProbe, StopsReading
  <2> QED BY <1>15, <2>1, <2>2 DEF ReceiveProbe, ctlVars, sessVars, laneVars
<1>16. ASSUME NEW s \in Side, NEW a \in Attempt, ReceiveResponse(s, a) PROVE TypeOK'
  <2>1. stage' \in [Side -> [Attempt -> Stages]]
    BY <1>16 DEF ReceiveResponse, Made, Stages
  <2>2. probes' = [b \in Attempt |-> probes'[b]]
    BY <1>16 DEF ReceiveResponse, StopsReading
  <2> QED BY <1>16, <2>1, <2>2 DEF ReceiveResponse, ctlVars, sessVars, laneVars
<1>17. ASSUME NEW s \in Side, NEW a \in Attempt, PunchFails(s, a) PROVE TypeOK'
  <2>1. stage' \in [Side -> [Attempt -> Stages]]
    BY <1>17 DEF PunchFails, Made, Stages
  <2>2. probes' = [b \in Attempt |-> probes'[b]]
    BY <1>17 DEF PunchFails, StopsReading
  <2> QED BY <1>17, <2>1, <2>2 DEF PunchFails, ctlVars, sessVars, laneVars
<1>18. ASSUME NEW l \in Lane, DispatchSend(l) PROVE TypeOK'
  BY <1>18 DEF DispatchSend, ctlVars, sessVars
<1> QED
  BY <1>1, <1>2, <1>3, <1>4, <1>5, <1>6, <1>7, <1>8, <1>9, <1>10, <1>11, <1>12, <1>13,
     <1>14, <1>15, <1>16, <1>17, <1>18 DEF Next, Session, HandlerRuns, Punch

-----------------------------------------------------------------------------
LEMMA InitLane == Init => LaneInv
  BY DEF Init, InitWith, LaneInv, LaneOf, Awaited, Lane, Side

\* A request is answered once: no step lets a second answer meet the first one.
LEMMA LaneStep == TypeOK /\ LaneInv /\ [Next]_vars => LaneInv'
<1> SUFFICES ASSUME TypeOK, LaneInv, [Next]_vars, NEW b \in Attempt PROVE LaneOf(b)'
  BY DEF LaneInv
<1>a. LaneOf(b)
  BY DEF LaneInv
<1>b. \A a \in Attempt, s \in Side : <<a, s>> \in Lane
  BY DEF Lane
<1>1. CASE UNCHANGED <<lane, answer, req, sess, notified, pending>>
  BY <1>1, <1>a DEF LaneOf, Awaited
<1>2. ASSUME NEW a \in Attempt, HandleVisitor(a) PROVE LaneOf(b)'
  BY <1>2, <1>a, <1>b DEF HandleVisitor, Answer, LaneOf, Awaited, TypeOK, Side
<1>3. ASSUME NEW a \in Attempt, SendSid(a) PROVE LaneOf(b)'
  BY <1>3, <1>a DEF SendSid, LaneOf, Awaited, TypeOK, laneVars, Side
<1>4. ASSUME NEW a \in Attempt, HandleClient(a) PROVE LaneOf(b)'
  BY <1>4, <1>a DEF HandleClient, LaneOf, Awaited, TypeOK, laneVars, Side
<1>5. ASSUME NEW a \in Attempt, Analyse(a) PROVE LaneOf(b)'
  BY <1>5, <1>a DEF Analyse, LaneOf, Awaited, TypeOK, laneVars, Side
<1>6. ASSUME NEW a \in Attempt, WaitTimesOut(a) \/ EndSession(a) PROVE LaneOf(b)'
  BY <1>6, <1>a DEF WaitTimesOut, EndSession, LaneOf, Awaited, TypeOK, laneVars, Side
<1>7. ASSUME NEW a \in Attempt, NEW s \in Side, Respond(a, s) PROVE LaneOf(b)'
  BY <1>7, <1>a, <1>b DEF Respond, Answer, LaneOf, Awaited, TypeOK, Side
<1>8. ASSUME NEW a \in Attempt, HandleReport(a) PROVE LaneOf(b)'
  BY <1>8, <1>a DEF HandleReport, LaneOf, Awaited, laneVars, Side
<1>9. ASSUME NEW s \in Side, NEW a \in Attempt, Exchange(s, a) PROVE LaneOf(b)'
  BY <1>9, <1>a, <1>b DEF Exchange, DoSend, LaneOf, Awaited, TypeOK, Side, sessVars
<1>10. ASSUME NEW s \in Side, NEW a \in Attempt, ExchangeReturns(s, a) PROVE LaneOf(b)'
  BY <1>10, <1>a, <1>b DEF ExchangeReturns, DoReturn, LaneOf, Awaited, TypeOK, Side, sessVars
<1>11. ASSUME NEW s \in Side, NEW a \in Attempt, ReceiveProbe(s, a) \/ ReceiveResponse(s, a)
       PROVE  LaneOf(b)'
  BY <1>11, <1>a DEF ReceiveProbe, ReceiveResponse, Made, LaneOf, Awaited, Side, sessVars,
     laneVars
<1>12. ASSUME NEW l \in Lane, DispatchSend(l) PROVE LaneOf(b)'
  BY <1>12, <1>a, <1>b DEF DispatchSend, LaneOf, Awaited, TypeOK, Side, sessVars
<1>13. ASSUME NEW a \in Attempt, NEW s \in Side,
              ListenClient \/ CloseClient \/ Clean \/ PreCheck(a) \/ SendProbes(s,
              a) \/ PunchFails(s, a)
       PROVE  LaneOf(b)'
  BY <1>1, <1>13 DEF ListenClient, CloseClient, Clean, PreCheck, SendProbes, PunchFails,
     sessVars, laneVars
<1>14. ASSUME NEW i \in 1..MaxReg, PassSid(i) PROVE LaneOf(b)'
  BY <1>1, <1>14 DEF PassSid, sessVars, laneVars
<1>15. CASE UNCHANGED vars
  BY <1>1, <1>15 DEF vars, sessVars, laneVars
<1> QED
  BY <1>2, <1>3, <1>4, <1>5, <1>6, <1>7, <1>8, <1>9, <1>10, <1>11, <1>12, <1>13, <1>14, <1>15
     DEF Next, Session, HandlerRuns, Punch, Side

\* No message handler of a client ever waits on a lane of the transporter, whatever
\* the order of answers, timeouts and late requests: a lane is sent to at most once.
THEOREM HandlersNeverBlock == Spec => []DispatchNeverBlocks
<1>1. TypeOK /\ LaneInv => DispatchNeverBlocks
  <2> SUFFICES ASSUME LaneInv, NEW a \in Attempt, NEW s \in Side, answer[<<a, s>>] # "none"
                PROVE  lane[<<a, s>>] \in {"open", "closed"}
    BY DEF DispatchNeverBlocks, Lane
  <2> QED BY DEF LaneInv, LaneOf
<1>2. Init => TypeOK /\ LaneInv
  BY InitType, InitLane
<1>3. TypeOK /\ LaneInv /\ [Next]_vars => (TypeOK /\ LaneInv)'
  BY TypeStep, LaneStep
<1> QED BY <1>1, <1>2, <1>3, PTL DEF Spec

-----------------------------------------------------------------------------
LEMMA InitSid == Init => SidInv
  BY DEF Init, InitWith, SidInv, SidOf, Side

\* MakeHole touches the stage of one side that has been answered, and its probes.
LEMMA PunchStage ==
  ASSUME TypeOK, NEW s \in Side, NEW a \in Attempt, Punch(s, a)
  PROVE  /\ stage[s][a] \in {"delay", "probing"}
         /\ \A t \in Side, b \in Attempt : t # s \/ b # a => stage'[t][b] = stage[t][b]
         /\ \A b \in Attempt : b # a => probes'[b] = probes[b]
         /\ UNCHANGED <<nat, ctlVars, sessVars, laneVars>>
<1> USE DEF TypeOK
<1>1. /\ stage[s][a] \in {"delay", "probing"}
      /\ \/ stage' = stage
         \/ \E r \in {"probing", "made", "failed"} : stage' = [stage EXCEPT ![s][a] = r]
  BY Zenon DEF Punch, SendProbes, ReceiveProbe, ReceiveResponse, PunchFails, Made
<1>2. \E p : probes' = [probes EXCEPT ![a] = p]
  BY Zenon DEF Punch, SendProbes, ReceiveProbe, ReceiveResponse, PunchFails, StopsReading
<1>3. UNCHANGED <<nat, ctlVars, sessVars, laneVars>>
  BY DEF Punch, SendProbes, ReceiveProbe, ReceiveResponse, PunchFails
<1> QED BY <1>1, <1>2, <1>3

LEMMA SidStep == TypeOK /\ LaneInv /\ SidInv /\ [Next]_vars => SidInv'
<1> SUFFICES ASSUME TypeOK, LaneInv, SidInv, [Next]_vars, NEW b \in Attempt PROVE SidOf(b)'
  BY DEF SidInv
<1>a. SidOf(b)
  BY DEF SidInv
<1>b. "c" \in Side /\ "v" \in Side /\ "c" # "v"
  BY DEF Side
<1>1. CASE UNCHANGED <<recv, sess>> /\ stage'["c"][b] = stage["c"][b]
  BY <1>1, <1>a DEF SidOf
<1>2. ASSUME NEW i \in 1..MaxReg, PassSid(i) PROVE SidOf(b)'
  BY <1>2, <1>a, <1>b DEF PassSid, SidOf, TypeOK, sessVars
<1>3. ASSUME NEW a \in Attempt, PreCheck(a) PROVE SidOf(b)'
  BY <1>3, <1>1, <1>b DEF PreCheck, TypeOK, ctlVars, sessVars
<1>4. ASSUME NEW a \in Attempt, HandleVisitor(a) PROVE SidOf(b)'
  <2>1. sess[a] = "none"
    BY <1>4 DEF HandleVisitor, LaneInv, LaneOf
  <2> QED BY <1>4, <2>1, <1>a DEF HandleVisitor, SidOf, TypeOK, ctlVars
<1>5. ASSUME NEW a \in Attempt, SendSid(a) PROVE SidOf(b)'
  BY <1>5, <1>a DEF SendSid, SidOf, TypeOK
<1>6. ASSUME NEW a \in Attempt, Analyse(a) \/ WaitTimesOut(a) \/ EndSession(a) PROVE SidOf(b)'
  BY <1>6, <1>a DEF Analyse, WaitTimesOut, EndSession, SidOf, TypeOK, ctlVars
<1>7. ASSUME NEW s \in Side, NEW a \in Attempt, Exchange(s, a) PROVE SidOf(b)'
  BY <1>7, <1>a DEF Exchange, SidOf, TypeOK, ctlVars, sessVars, Side
<1>8. ASSUME NEW s \in Side, NEW a \in Attempt, ExchangeReturns(s, a) PROVE SidOf(b)'
  BY <1>8, <1>a DEF ExchangeReturns, SidOf, TypeOK, ctlVars, sessVars, Side
<1>9. ASSUME NEW s \in Side, NEW a \in Attempt, Punch(s, a) PROVE SidOf(b)'
  <2>1. /\ stage[s][a] \in {"delay", "probing"} /\ UNCHANGED <<recv, sess>>
        /\ \A t \in Side, e \in Attempt : t # s \/ e # a => stage'[t][e] = stage[t][e]
    BY <1>9, PunchStage DEF ctlVars, sessVars
  <2> QED BY <2>1, <1>a, <1>b DEF SidOf
<1>10. ASSUME NEW a \in Attempt, NEW s \in Side,
              ListenClient \/ CloseClient \/ Clean \/ HandleClient(a)
              \/ HandleReport(a) \/ Respond(a, s)
       PROVE  SidOf(b)'
  BY <1>1, <1>10 DEF ListenClient, CloseClient, Clean, HandleClient, HandleReport, Respond,
     ctlVars, sessVars
<1>12. ASSUME NEW l \in Lane, DispatchSend(l) PROVE SidOf(b)'
  BY <1>1, <1>12 DEF DispatchSend, ctlVars, sessVars
<1>11. CASE UNCHANGED vars
  BY <1>1, <1>11 DEF vars, ctlVars, sessVars
<1> QED
  BY <1>2, <1>3, <1>4, <1>5, <1>6, <1>7, <1>8, <1>9, <1>10, <1>11, <1>12
     DEF Next, Session, HandlerRuns, Side

-----------------------------------------------------------------------------
\* What the operators of NatAnalysis compute, for every NAT.
\* A nonempty set of naturals has a least element.
LEMMA LeastNat ==
  ASSUME NEW S \in SUBSET Nat, S # {}
  PROVE  \E x \in S : \A y \in S : x <= y
<1>1. PICK x \in S : \A y \in S : ~(<<y, x>> \in OpToRel(<, Nat))
  BY NatLessThanWellFounded, WFMin
<1>2. \A y \in S : y \in Nat /\ x \in Nat /\ ~(y < x)
  BY <1>1 DEF OpToRel
<1>3. \A y \in S : x <= y
  BY <1>2
<1> QED BY <1>3

\* Max and Min are what they are called.
LEMMA MaxOfThree ==
  ASSUME NEW a \in Int, NEW b \in Int, NEW c \in Int
  PROVE  /\ Max({a, b, c}) \in {a, b, c} /\ \A x \in {a, b, c} : x <= Max({a, b, c})
         /\ Min({a, b, c}) \in {a, b, c} /\ \A x \in {a, b, c} : Min({a, b, c}) <= x
<1>1. \E x \in {a, b, c} : \A y \in {a, b, c} : x >= y
  OBVIOUS
<1>2. \E x \in {a, b, c} : \A y \in {a, b, c} : x <= y
  OBVIOUS
<1>3. Max({a, b, c}) \in {a, b, c} /\ \A x \in {a, b, c} : Max({a, b, c}) >= x
  BY <1>1 DEF Max
<1>4. Min({a, b, c}) \in {a, b, c} /\ \A x \in {a, b, c} : Min({a, b, c}) <= x
  BY <1>2 DEF Min
<1> QED BY <1>3, <1>4

\* One of the two behaviours of a pair, and what the pairs of a mode have in common.
BehaviorType ==
  [Role : {"sender", "receiver"}, TTL : Nat, SendDelayMs : Nat, PortsRangeNumber : Nat,
   PortsRandomNumber : Nat, ListenRandomPorts : Nat]
PairOK(mode, p) ==
  \E s \in {1, 2} :
    /\ p[s] \in BehaviorType /\ p[3 - s] \in BehaviorType
    /\ p[s].Role = "sender" /\ p[3 - s].Role = "receiver" /\ p[3 - s].SendDelayMs = 0
    /\ mode \in {1, 2, 4} => s = 1
    /\ mode \in {0, 1, 3} => p[1].ListenRandomPorts = 0 /\ p[2].ListenRandomPorts = 0

\* Every behaviour of the tables is such a pair.
LEMMA Pairs ==
  ASSUME NEW mode \in 0..4, NEW i \in DOMAIN getBehaviorByMode(mode)
  PROVE  i \in 1..10 /\ PairOK(mode, getBehaviorByMode(mode)[i])
<1> USE DEF PairOK, BehaviorType, Sender, Receiver, Behavior
<1>1. CASE mode = 0
  <2>1. getBehaviorByMode(0) = mode0Behaviors
    BY DEF getBehaviorByMode
  <2>2. DOMAIN mode0Behaviors = 1..10
    BY DEF mode0Behaviors
  <2>3. i \in 1..10
    BY <1>1, <2>1, <2>2
  <2> QED BY <1>1, <2>1, <2>3 DEF mode0Behaviors
<1>2. CASE mode = 1
  <2>1. getBehaviorByMode(1) = mode1Behaviors
    BY DEF getBehaviorByMode
  <2>2. DOMAIN mode1Behaviors = 1..6
    BY DEF mode1Behaviors
  <2>3. i \in 1..6
    BY <1>2, <2>1, <2>2
  <2> QED BY <1>2, <2>1, <2>3 DEF mode1Behaviors
<1>3. CASE mode = 2
  <2>1. getBehaviorByMode(2) = mode2Behaviors
    BY DEF getBehaviorByMode
  <2>2. i \in 1..3
    BY <1>3, <2>1 DEF mode2Behaviors
  <2> QED BY <1>3, <2>1, <2>2 DEF mode2Behaviors
<1>4. CASE mode = 3
  <2>1. getBehaviorByMode(3) = mode3Behaviors
    BY DEF getBehaviorByMode
  <2>2. DOMAIN mode3Behaviors = 1..6
    BY DEF mode3Behaviors
  <2>3. i \in 1..6
    BY <1>4, <2>1, <2>2
  <2> QED BY <1>4, <2>1, <2>3 DEF mode3Behaviors
<1>5. CASE mode = 4
  <2>1. getBehaviorByMode(4) = mode4Behaviors
    BY DEF getBehaviorByMode
  <2>2. i \in 1..3
    BY <1>5, <2>1 DEF mode4Behaviors
  <2> QED BY <1>5, <2>1, <2>2 DEF mode4Behaviors
<1> QED BY <1>1, <1>2, <1>3, <1>4, <1>5

LEMMA MaxPortNat == MaxPort \in Nat /\ 1 <= MaxPort
  BY DEF MaxPort

\* The difference of the ports a side was seen at is a natural number.
LEMMA MaxOfPorts ==
  ASSUME NEW P \in SUBSET (1..MaxPort), P # {}
  PROVE  Max(P) - Min(P) \in Nat
<1>1. P \subseteq Nat
  BY MaxPortNat
<1>0. \E x \in P : \A y \in P : x <= y
  BY <1>1, LeastNat
<1>2. \E x \in P : \A y \in P : x >= y
  <2> DEFINE Q == {n \in Nat : \E p \in P : n = MaxPort - p}
  <2>1. PICK p \in P : TRUE
    OBVIOUS
  <2> USE MaxPortNat
  <2>2. MaxPort - p \in Q
    OBVIOUS
  <2>3. PICK n \in Q : \A m \in Q : n <= m
    <3> HIDE DEF Q
    <3>1. Q \in SUBSET Nat
      BY DEF Q
    <3> QED BY <2>2, <3>1, LeastNat
  <2>4. PICK x \in P : n = MaxPort - x
    OBVIOUS
  <2>5. ASSUME NEW y \in P PROVE x >= y
    <3>1. MaxPort - y \in Q
      OBVIOUS
    <3> QED BY <2>3, <2>4, <3>1
  <2> QED BY <2>5
<1>3. Max(P) \in P /\ \A y \in P : Max(P) >= y
  BY <1>2 DEF Max
<1>4. Min(P) \in P
  BY <1>0 DEF Min
<1>5. Max(P) \in Nat /\ Min(P) \in Nat /\ Max(P) >= Min(P)
  BY <1>1, <1>3, <1>4
<1>6. \A x, y \in Nat : x >= y => x - y \in Nat
  OBVIOUS
<1> QED BY <1>5, <1>6

LEMMA FeatureType ==
  ASSUME NEW n \in NatKind, NEW f, f = ClassifyNATFeature(n.addrs, n.local)
  PROVE  /\ f.PortsDifference \in Nat /\ f.NatType \in {"EasyNAT", "HardNAT"}
<1> DEFINE ports == {n.addrs[i].port : i \in DOMAIN n.addrs}
<1>1. ports \in SUBSET (1..MaxPort) /\ ports # {}
  <2>1. 1 \in DOMAIN n.addrs
    BY NatAssumption, LenProperties
  <2> QED BY <2>1, NatAssumption
<1>2. Max(ports) - Min(ports) \in Nat
  <2> HIDE DEF ports
  <2> QED BY <1>1, MaxOfPorts
<1>3. f.PortsDifference = 0 \/ f.PortsDifference = Max(ports) - Min(ports)
  BY Zenon DEF ClassifyNATFeature
<1>4. f.NatType = "EasyNAT" \/ f.NatType = "HardNAT"
  BY Zenon DEF ClassifyNATFeature
<1> QED BY <1>2, <1>3, <1>4

LEMMA LastPort == ASSUME NEW n \in NatKind PROVE n.addrs[Len(n.addrs)].port \in 1..MaxPort
<1>1. Len(n.addrs) \in DOMAIN n.addrs
  BY NatAssumption, LenProperties
<1> QED BY <1>1, NatAssumption

\* The ports that are probed are ports, also next to the ends of their range.
LEMMA RangePorts ==
  ASSUME NEW n \in NatKind, NEW difference \in Nat, NEW maxNumber \in Nat,
         NEW r \in Range(getRangePorts(n.addrs, difference, maxNumber))
  PROVE  1 <= r.From /\ r.From <= r.To /\ r.To <= MaxPort
<1> DEFINE port == n.addrs[Len(n.addrs)].port
           b1 == port - difference - 5
           b2 == port - maxNumber
           u1 == port + difference + 5
           u2 == port + maxNumber
<1>1. port \in 1..MaxPort
  BY LastPort
<1>2. CASE maxNumber <= 0
  BY <1>2 DEF getRangePorts, Range
<1>3. CASE ~(maxNumber <= 0)
  <2>1. getRangePorts(n.addrs, difference, maxNumber)
          = << [From |-> Max({b1, b2, 1}), To |-> Min({u1, u2, MaxPort})] >>
    BY <1>3, Zenon DEF getRangePorts
  <2>2. r.From = Max({b1, b2, 1}) /\ r.To = Min({u1, u2, MaxPort})
    <3> HIDE DEF port, b1, b2, u1, u2
    <3> QED BY <2>1 DEF Range
  <2>3. /\ b1 \in Int /\ b2 \in Int /\ u1 \in Int /\ u2 \in Int
        /\ port \in Int /\ MaxPort \in Int
        /\ b1 <= port /\ b2 <= port /\ u1 >= port /\ u2 >= port
        /\ 1 <= port /\ port <= MaxPort
    <3> HIDE DEF port
    <3> QED BY <1>1, MaxPortNat
  <2> HIDE DEF port, b1, b2, u1, u2
  <2>4. /\ Max({b1, b2, 1}) \in {b1, b2, 1} /\ \A x \in {b1, b2, 1} : x <= Max({b1, b2, 1})
    BY <2>3, MaxOfThree
  <2>5. /\ Min({u1, u2, MaxPort}) \in {u1, u2, MaxPort}
        /\ \A x \in {u1, u2, MaxPort} : Min({u1, u2, MaxPort}) <= x
    BY <2>3, MaxOfThree
  <2> QED BY <2>2, <2>3, <2>4, <2>5
<1> QED BY <1>2, <1>3

\* After the exchange of roles: which of the two sends, and what that means in a mode.
RolesOK(mode, b, c, v) ==
  \E k \in {1, 2} :
    /\ b[k] \in BehaviorType /\ b[3 - k] \in BehaviorType
    /\ b[k].Role = "sender" /\ b[3 - k].Role = "receiver" /\ b[3 - k].SendDelayMs = 0
    /\ mode \in {0, 1, 3} => b[1].ListenRandomPorts = 0 /\ b[2].ListenRandomPorts = 0
    /\ mode = 1 => k = IF c.NatType = "EasyNAT" THEN 2 ELSE 1
    /\ mode = 2 => k = IF c.NatType = "HardNAT" THEN 2 ELSE 1
    /\ mode = 4 => k = IF ~c.RegularPortsChange THEN 2 ELSE 1

LEMMA Roles ==
  ASSUME NEW mode \in 0..4, NEW i \in DOMAIN getBehaviorByMode(mode), NEW c, NEW v
  PROVE  RolesOK(mode, AssignRoles(mode, i, c, v), c, v)
<1> DEFINE pair == getBehaviorByMode(mode)[i]
           swap == \/ mode = 1 /\ c.NatType = "EasyNAT"
                   \/ mode = 2 /\ c.NatType = "HardNAT"
                   \/ mode = 4 /\ ~c.RegularPortsChange
           b    == AssignRoles(mode, i, c, v)
<1>1. PairOK(mode, pair)
  BY Pairs
<1>2. b = IF swap THEN <<pair[2], pair[1]>> ELSE pair
  BY Zenon DEF AssignRoles
<1> HIDE DEF pair, b
<1>3. PICK s \in {1, 2} :
        /\ pair[s] \in BehaviorType /\ pair[3 - s] \in BehaviorType
        /\ pair[s].Role = "sender" /\ pair[3 - s].Role = "receiver" /\ pair[3 - s].SendDelayMs = 0
        /\ mode \in {1, 2, 4} => s = 1
        /\ mode \in {0, 1, 3} => pair[1].ListenRandomPorts = 0 /\ pair[2].ListenRandomPorts = 0
  BY <1>1 DEF PairOK
<1>4. CASE swap
  <2>1. b[1] = pair[2] /\ b[2] = pair[1]
    BY <1>2, <1>4
  <2>2. s = 1
    BY <1>3, <1>4
  <2> QED
    <3>1. /\ b[2] \in BehaviorType /\ b[1] \in BehaviorType
          /\ b[2].Role = "sender" /\ b[1].Role = "receiver" /\ b[1].SendDelayMs = 0
      BY <1>3, <2>1, <2>2
    <3>2. /\ mode \in {0, 1, 3} => b[1].ListenRandomPorts = 0 /\ b[2].ListenRandomPorts = 0
      BY <1>3, <2>1
    <3> QED BY <1>4, <3>1, <3>2 DEF RolesOK, b
<1>5. CASE ~swap
  <2>1. b = pair
    BY <1>2, <1>5
  <2> QED BY <1>3, <1>5, <2>1 DEF RolesOK, b
<1> QED BY <1>4, <1>5

LEMMA MaxOfTwo ==
  ASSUME NEW a \in Nat, NEW b \in Nat
  PROVE  Max({a, b}) \in Nat /\ a <= Max({a, b}) /\ b <= Max({a, b})
<1>1. \E x \in {a, b} : \A y \in {a, b} : x >= y
  OBVIOUS
<1>2. Max({a, b}) \in {a, b} /\ \A x \in {a, b} : Max({a, b}) >= x
  BY <1>1 DEF Max
<1> QED BY <1>2

\* What the two answers of a session tell the sides, s being the one that sends.
Agreed(mode, resp, s) ==
  LET r == Other(s)
  IN  /\ resp[s].Role = "sender" /\ resp[r].Role = "receiver"
      /\ resp[s].Mode = mode /\ resp[r].Mode = mode
      /\ resp[s].SendDelayMs < resp[r].ReadTimeoutMs
      /\ mode \in {0, 1, 3} => resp[s].ListenRandomPorts = 0 /\ resp[r].ListenRandomPorts = 0
      /\ Feature("c").NatType # Feature("v").NatType =>
           /\ mode = 1 => Feature(s).NatType = "HardNAT"
           /\ mode = 2 => Feature(s).NatType = "EasyNAT"
      /\ mode = 4 => Feature(s).RegularPortsChange
      /\ \A p \in Range(resp[s].CandidatePorts) \union Range(resp[r].CandidatePorts) :
           1 <= p.From /\ p.From <= p.To /\ p.To <= MaxPort

\* The plan for a mode and index that fit is one that the two sides agree on.
LEMMA PlanAgreed ==
  ASSUME TypeOK, NEW mode, NEW i, Fits(mode, i), NEW resp,
         resp = Plan(mode, i, nat["c"].addrs, Feature("c"), nat["v"].addrs, Feature("v"))
  PROVE  \E s \in Side : Agreed(mode, resp, s)
<1> DEFINE b == AssignRoles(mode, i, Feature("c"), Feature("v"))
           timeoutMs == Max({b[1].SendDelayMs, b[2].SendDelayMs}) + 5000
                          + (IF b[1].ListenRandomPorts > 0 \/ b[2].ListenRandomPorts > 0
                               THEN 30000 ELSE 0)
<1>1. RolesOK(mode, b, Feature("c"), Feature("v"))
  BY Roles DEF Fits
<1>2. resp = [c |-> DetectBehavior(mode, b[1], timeoutMs, nat["v"].addrs,
                                   Feature("v").PortsDifference),
              v |-> DetectBehavior(mode, b[2], timeoutMs, nat["c"].addrs,
              Feature("c").PortsDifference)]
  BY DEF Plan
<1>3. /\ nat["c"] \in NatKind /\ nat["v"] \in NatKind
      /\ \A s \in Side : /\ Feature(s).PortsDifference \in Nat
                         /\ Feature(s).NatType \in {"EasyNAT", "HardNAT"}
  BY FeatureType DEF TypeOK, Side, Feature
<1> HIDE DEF b
<1>4. b[1] \in BehaviorType /\ b[2] \in BehaviorType
  BY <1>1 DEF RolesOK
<1>5. /\ b[1].SendDelayMs \in Nat /\ b[2].SendDelayMs \in Nat
      /\ b[1].PortsRangeNumber \in Nat /\ b[2].PortsRangeNumber \in Nat
  BY <1>4 DEF BehaviorType
<1>6. /\ timeoutMs \in Nat /\ b[1].SendDelayMs < timeoutMs /\ b[2].SendDelayMs < timeoutMs
  BY <1>5, MaxOfTwo
<1> HIDE DEF timeoutMs
<1>7. /\ resp["c"].Mode = mode /\ resp["v"].Mode = mode
      /\ resp["c"].Role = b[1].Role /\ resp["v"].Role = b[2].Role
      /\ resp["c"].SendDelayMs = b[1].SendDelayMs /\ resp["v"].SendDelayMs = b[2].SendDelayMs
      /\ resp["c"].ReadTimeoutMs = timeoutMs - b[1].SendDelayMs
      /\ resp["v"].ReadTimeoutMs = timeoutMs - b[2].SendDelayMs
      /\ resp["c"].ListenRandomPorts = b[1].ListenRandomPorts
      /\ resp["v"].ListenRandomPorts = b[2].ListenRandomPorts
  BY <1>2 DEF DetectBehavior
<1>8. /\ resp["c"].CandidatePorts =
           getRangePorts(nat["v"].addrs, Feature("v").PortsDifference, b[1].PortsRangeNumber)
      /\ resp["v"].CandidatePorts =
           getRangePorts(nat["c"].addrs, Feature("c").PortsDifference, b[2].PortsRangeNumber)
  BY <1>2 DEF DetectBehavior
<1>9. \A p \in Range(resp["c"].CandidatePorts) \union Range(resp["v"].CandidatePorts) :
           1 <= p.From /\ p.From <= p.To /\ p.To <= MaxPort
  BY <1>3, <1>5, <1>8, RangePorts DEF Side
<1>10. /\ mode \in 0..4
       /\ mode = 4 => Feature("c").RegularPortsChange \/ Feature("v").RegularPortsChange
  BY DEF Fits, Side
<1>11. PICK k \in {1, 2} :
    /\ b[k].Role = "sender" /\ b[3 - k].Role = "receiver" /\ b[3 - k].SendDelayMs = 0
    /\ mode \in {0, 1, 3} => b[1].ListenRandomPorts = 0 /\ b[2].ListenRandomPorts = 0
    /\ mode = 1 => k = IF Feature("c").NatType = "EasyNAT" THEN 2 ELSE 1
    /\ mode = 2 => k = IF Feature("c").NatType = "HardNAT" THEN 2 ELSE 1
    /\ mode = 4 => k = IF ~Feature("c").RegularPortsChange THEN 2 ELSE 1
  BY <1>1 DEF RolesOK
<1>12. CASE k = 1
  <2>1. /\ resp["c"].Role = "sender" /\ resp["v"].Role = "receiver"
        /\ resp["c"].SendDelayMs < resp["v"].ReadTimeoutMs
    BY <1>5, <1>6, <1>7, <1>11, <1>12
  <2>2. mode \in {0, 1, 3} => resp["c"].ListenRandomPorts = 0 /\ resp["v"].ListenRandomPorts = 0
    BY <1>7, <1>11
  <2>3. /\ Feature("c").NatType # Feature("v").NatType =>
             /\ mode = 1 => Feature("c").NatType = "HardNAT"
             /\ mode = 2 => Feature("c").NatType = "EasyNAT"
        /\ mode = 4 => Feature("c").RegularPortsChange
    BY <1>3, <1>10, <1>11, <1>12 DEF Side
  <2>4. Other("c") = "v" /\ resp["c"].Mode = mode /\ resp["v"].Mode = mode
    BY <1>7 DEF Other
  <2>5. Agreed(mode, resp, "c")
    BY <1>9, <2>1, <2>2, <2>3, <2>4, ZenonT(60) DEF Agreed
  <2> QED BY <2>5 DEF Side
<1>13. CASE k = 2
  <2>1. /\ resp["v"].Role = "sender" /\ resp["c"].Role = "receiver"
        /\ resp["v"].SendDelayMs < resp["c"].ReadTimeoutMs
    BY <1>5, <1>6, <1>7, <1>11, <1>13
  <2>2. mode \in {0, 1, 3} => resp["c"].ListenRandomPorts = 0 /\ resp["v"].ListenRandomPorts = 0
    BY <1>7, <1>11
  <2>3. /\ Feature("c").NatType # Feature("v").NatType =>
             /\ mode = 1 => Feature("v").NatType = "HardNAT"
             /\ mode = 2 => Feature("v").NatType = "EasyNAT"
        /\ mode = 4 => Feature("v").RegularPortsChange
    BY <1>3, <1>10, <1>11, <1>13 DEF Side
  <2>4. Other("v") = "c" /\ resp["v"].Mode = mode /\ resp["c"].Mode = mode
    BY <1>7 DEF Other
  <2>5. Agreed(mode, resp, "v")
    BY <1>9, <2>1, <2>2, <2>3, <2>4, ZenonT(60) DEF Agreed
  <2> QED BY <2>5 DEF Side
<1> QED BY <1>11, <1>12, <1>13

\* Some position has the highest of finitely many scores.
LEMMA MaxExists ==
  ASSUME NEW D, IsFiniteSet(D), D # {}, NEW f \in [D -> Int]
  PROVE  \E x \in D : \A y \in D : f[y] <= f[x]
<1> DEFINE Above(x) == {y \in D : f[x] < f[y]}
<1> DEFINE T == {Above(x) : x \in D}
<1>1. T # {} /\ T \subseteq FiniteSubsetsOf(D)
  <2>1. \A x \in D : Above(x) \in SUBSET D /\ IsFiniteSet(Above(x))
    BY FS_Subset
  <2>2. \A x \in D : Above(x) \in FiniteSubsetsOf(D)
    <3> HIDE DEF Above
    <3> QED BY <2>1 DEF FiniteSubsetsOf
  <2> HIDE DEF Above
  <2> QED BY <2>2
<1>2. PICK A \in T : \A B \in T : ~(<<B, A>> \in StrictSubsetOrdering(D))
  <2> HIDE DEF T
  <2> QED BY <1>1, FS_StrictSubsetOrderingWellFounded, WFMin
<1>3. PICK x \in D : A = Above(x)
  BY <1>2
<1>4. SUFFICES ASSUME NEW y \in D, f[x] < f[y] PROVE FALSE
  BY Z3
<1>5. Above(y) \subseteq Above(x) /\ y \in Above(x) /\ y \notin Above(y)
  BY <1>4
<1>6. <<Above(y), Above(x)>> \in StrictSubsetOrdering(D)
  BY <1>5 DEF StrictSubsetOrdering
<1> QED BY <1>2, <1>3, <1>6

\* Recommand always finds a position of the records, and none has a higher score.
LEMMA BestFound ==
  ASSUME NEW s \in Seq(Fitting), s # <<>>
  PROVE  /\ Best(s) \in 1..Len(s) /\ s[Best(s)] \in Fitting
         /\ \A j \in 1..Len(s) : s[j].Score <= s[Best(s)].Score
<1>1. Len(s) \in Nat \ {0} /\ DOMAIN s = 1..Len(s)
  BY LenProperties, EmptySeq
<1>2. \A i \in 1..Len(s) : s[i] \in Fitting /\ s[i].Score \in Int
  BY <1>1, ElementOfSeq DEF Fitting
<1> DEFINE f == [i \in 1..Len(s) |-> s[i].Score]
<1>3. PICK x \in 1..Len(s) : \A y \in 1..Len(s) : f[y] <= f[x]
  <2>1. f \in [1..Len(s) -> Int]
    BY <1>2
  <2>2. IsFiniteSet(1..Len(s)) /\ 1..Len(s) # {}
    <3>1. 1 \in 1..Len(s) /\ 1 \in Int /\ Len(s) \in Int
      BY <1>1
    <3> QED BY <3>1, FS_Interval
  <2> HIDE DEF f
  <2> QED BY <2>1, <2>2, MaxExists
<1> DEFINE S == {i \in 1..Len(s) : \A y \in 1..Len(s) : s[y].Score <= s[i].Score}
<1>4. S \in SUBSET Nat /\ S # {}
  BY <1>1, <1>3
<1>5. PICK b \in S : \A y \in S : b <= y
  <2> HIDE DEF S
  <2> QED BY <1>4, LeastNat
<1>6. \A j \in 1..(b - 1) : s[j].Score < s[b].Score
  <2> SUFFICES ASSUME NEW j \in 1..(b - 1), ~(s[j].Score < s[b].Score) PROVE FALSE
    OBVIOUS
  <2>1. j \in 1..Len(s) /\ j < b
    BY <1>1, <1>5
  <2>2. j \notin S
    BY <1>1, <1>5, <2>1
  <2>3. PICK y \in 1..Len(s) : ~(s[y].Score <= s[j].Score)
    BY <2>1, <2>2
  <2> QED BY <1>2, <1>5, <2>1, <2>3
<1>7. \E i \in DOMAIN s : /\ \A j \in DOMAIN s : s[j].Score <= s[i].Score
                          /\ \A j \in 1..(i - 1) : s[j].Score < s[i].Score
  BY <1>1, <1>5, <1>6
<1>8. Best(s) \in DOMAIN s /\ \A j \in DOMAIN s : s[j].Score <= s[Best(s)].Score
  BY <1>7 DEF Best
<1> QED BY <1>1, <1>2, <1>8

\* Neither a recommendation nor a report of success puts anything else into the records.
LEMMA RecommandFits ==
  ASSUME NEW s \in Seq(Fitting), s # <<>>
  PROVE  Recommand(s) \in Seq(Fitting) 
<1>1. Best(s) \in 1..Len(s) /\ s[Best(s)] \in Fitting
  BY BestFound
<1>2. Len(s) \in Nat /\ DOMAIN s = 1..Len(s) /\ \A i \in 1..Len(s) : s[i] \in Fitting
  BY LenProperties, ElementOfSeq
<1>3. [s[Best(s)] EXCEPT !.Score = @ - 1] \in Fitting
  BY <1>1 DEF Fitting
<1> QED BY <1>1, <1>2, <1>3 DEF Recommand

LEMMA ReportFits ==
  ASSUME NEW s \in Seq(Fitting), NEW mode, NEW index
  PROVE  ReportSuccess(s, mode, index) \in Seq(Fitting)
<1>1. Len(s) \in Nat /\ DOMAIN s = 1..Len(s) /\ \A i \in 1..Len(s) : s[i] \in Fitting
  BY LenProperties, ElementOfSeq
<1>2. ASSUME NEW r \in Fitting PROVE [r EXCEPT !.Score = Min({@ + 2, 10})] \in Fitting
  <2>1. r.Score + 2 \in Int
    BY DEF Fitting
  <2>2. Min({r.Score + 2, 10}) \in Int
    <3>1. \E x \in {r.Score + 2, 10} : \A y \in {r.Score + 2, 10} : x <= y
      BY <2>1
    <3>2. Min({r.Score + 2, 10}) \in {r.Score + 2, 10}
      BY <3>1 DEF Min
    <3> QED BY <2>1, <3>2
  <2> QED BY <2>2 DEF Fitting
<1> DEFINE g(r) == [r EXCEPT !.Score = Min({@ + 2, 10})]
           h(i) == IF s[i].Mode = mode /\ s[i].Index = index THEN g(s[i]) ELSE s[i]
<1>3. \A i \in 1..Len(s) : h(i) \in Fitting
  BY <1>1, <1>2, Zenon
<1>4. ReportSuccess(s, mode, index) = [i \in 1..Len(s) |-> h(i)]
  BY <1>1, Zenon DEF ReportSuccess
<1> HIDE DEF h
<1> QED BY <1>1, <1>3, <1>4

LEMMA ModeFits ==
  ASSUME NEW mode \in 0..4, mode = 4 => \E s \in Side : Feature(s).RegularPortsChange,
         NEW x \in Int, NEW y \in Int
  PROVE  /\ getBehaviorScoresByMode2(mode, x, y) \in Seq(Fitting)
         /\ getBehaviorScoresByMode2(mode, x, y) # <<>>
<1>1. \E n \in 1..10 : DOMAIN getBehaviorByMode(mode) = 1..n
  <2>1. mode = 0 => getBehaviorByMode(mode) = mode0Behaviors
    BY DEF getBehaviorByMode
  <2>2. mode = 1 => getBehaviorByMode(mode) = mode1Behaviors
    BY DEF getBehaviorByMode
  <2>3. mode = 2 => getBehaviorByMode(mode) = mode2Behaviors
    BY DEF getBehaviorByMode
  <2>4. mode = 3 => getBehaviorByMode(mode) = mode3Behaviors
    BY DEF getBehaviorByMode
  <2>5. mode = 4 => getBehaviorByMode(mode) = mode4Behaviors
    BY DEF getBehaviorByMode
  <2>6. DOMAIN mode0Behaviors = 1..10
    BY DEF mode0Behaviors
  <2>7. DOMAIN mode1Behaviors = 1..6
    BY DEF mode1Behaviors
  <2>8. DOMAIN mode2Behaviors = 1..3
    BY DEF mode2Behaviors
  <2>9. DOMAIN mode3Behaviors = 1..6
    BY DEF mode3Behaviors
  <2>10. DOMAIN mode4Behaviors = 1..3
    BY DEF mode4Behaviors
  <2> QED BY <2>1, <2>2, <2>3, <2>4, <2>5, <2>6, <2>7, <2>8, <2>9, <2>10
<1>2. PICK n \in 1..10 : DOMAIN getBehaviorByMode(mode) = 1..n
  BY <1>1
<1> DEFINE score(i) == IF getBehaviorByMode(mode)[i][1].Role = "sender" THEN x ELSE y
           rec(i) == [Mode |-> mode, Index |-> i, Score |-> score(i)]
<1>3. \A i \in 1..n : score(i) \in Int
  OBVIOUS
<1>4. getBehaviorScoresByMode2(mode, x, y) = [i \in 1..n |-> rec(i)]
  BY <1>2, Zenon DEF getBehaviorScoresByMode2
<1> HIDE DEF score
<1>5. \A i \in 1..n : rec(i) \in Fitting
  BY <1>2, <1>3 DEF Fitting, Fits
<1> HIDE DEF rec
<1>6. getBehaviorScoresByMode2(mode, x, y) \in Seq(Fitting) /\ Len([i \in 1..n |-> rec(i)]) = n
  BY <1>4, <1>5
<1> QED BY <1>4, <1>6, EmptySeq

\* The tables NewMakeHoleRecords makes: one mode or several, one after the other, and
\* mode 4 only if a side has ports that change in a regular way.
Zeros(mode) == getBehaviorScoresByMode2(mode, 0, 0)
Ones(mode)  == getBehaviorScoresByMode2(mode, 1, 1)
Mode0Tables == {Zeros(0), getBehaviorScoresByMode2(0, 0, 1), getBehaviorScoresByMode2(0, 1, 0)}
LEMMA RecordsCases ==
  ASSUME NEW s, s = NewMakeHoleRecords(Feature("c"), Feature("v"))
  PROVE  \/ \E t \in Mode0Tables : \/ s = t
                                   \/ s = Zeros(1) \o Zeros(2) \o t
                                   \/ s = Zeros(2) \o Zeros(1) \o t
         \/ s = Ones(0) \o Ones(1) \o Ones(3)
         \/ /\ \E x \in Side : Feature(x).RegularPortsChange
            /\ s = Zeros(3) \o Zeros(4) \/ s = Zeros(4)
<1> DEFINE hard    == {x \in {"c", "v"} : [c |-> Feature("c"),
           v |-> Feature("v")][x].NatType = "HardNAT"}
           regular == {x \in hard : [c |-> Feature("c"),
           v |-> Feature("v")][x].RegularPortsChange}
           mode0   == IF Feature("c").PublicNetwork THEN getBehaviorScoresByMode2(0, 0, 1)
                      ELSE IF Feature("v").PublicNetwork THEN getBehaviorScoresByMode2(0, 1, 0)
                      ELSE Zeros(0)
           h == Cardinality(hard)
           r == Cardinality(regular)
<1>1. s = CASE h = 0 -> mode0
            [] h = 1 /\ r = 1 -> Zeros(1) \o Zeros(2) \o mode0
            [] h = 1 /\ r = 0 -> Zeros(2) \o Zeros(1) \o mode0
            [] h = 2 /\ r = 2 -> Zeros(3) \o Zeros(4)
            [] h = 2 /\ r = 1 -> Zeros(4)
            [] h = 2 /\ r = 0 -> Ones(0) \o Ones(1) \o Ones(3)
  BY Zenon DEF NewMakeHoleRecords, getBehaviorScoresByMode, Zeros, Ones
<1>2. (h = 0 \/ h = 1 \/ h = 2) /\ (r = 0 \/ r = 1 \/ r = 2)
      /\ (h = 1 => r # 2) /\ (r # 0 => regular # {})
  <2>1. /\ Cardinality({}) = 0 /\ Cardinality({"c"}) = 1 /\ Cardinality({"v"}) = 1
        /\ Cardinality({"c", "v"}) = 2 /\ "c" # "v"
    <3>1. /\ IsFiniteSet({"c"}) /\ Cardinality({"c"}) = 1
          /\ IsFiniteSet({"v"}) /\ Cardinality({"v"}) = 1
      BY FS_Singleton
    <3>2. {"c", "v"} = {"c"} \union {"v"} /\ "v" \notin {"c"}
      OBVIOUS
    <3>3. Cardinality({"c"} \union {"v"}) = Cardinality({"c"}) + 1
      BY <3>1, <3>2, FS_AddElement
    <3> QED BY <3>1, <3>2, <3>3, FS_EmptySet
  <2>2. hard \in SUBSET {"c", "v"} /\ regular \in SUBSET hard
    OBVIOUS
  <2> HIDE DEF hard, regular
  <2>3. hard \in {{}, {"c"}, {"v"}, {"c", "v"}} /\ regular \in {{}, {"c"}, {"v"}, {"c", "v"}}
    BY <2>2
  <2>4. ASSUME NEW X \in {{}, {"c"}, {"v"}, {"c", "v"}}
        PROVE  /\ Cardinality(X) = 0 \/ Cardinality(X) = 1 \/ Cardinality(X) = 2
               /\ Cardinality(X) = 2 => X = {"c", "v"}
               /\ Cardinality(X) = 1 => X # {"c", "v"}
               /\ Cardinality(X) # 0 => X # {}
    <3>1. CASE X = {}
      BY <2>1, <3>1
    <3>2. CASE X = {"c"}
      BY <2>1, <3>2
    <3>3. CASE X = {"v"}
      BY <2>1, <3>3
    <3>4. CASE X = {"c", "v"}
      BY <2>1, <3>4
    <3> QED BY <3>1, <3>2, <3>3, <3>4
  <2>5. (h = 0 \/ h = 1 \/ h = 2) /\ (r = 0 \/ r = 1 \/ r = 2) /\ (r # 0 => regular # {})
    BY <2>3, <2>4
  <2>6. h = 1 => r # 2
    BY <2>2, <2>3, <2>4
  <2> QED BY <2>5, <2>6
<1>3. r # 0 => \E x \in Side : Feature(x).RegularPortsChange
  BY <1>2 DEF Side
<1>4. mode0 \in Mode0Tables
  BY DEF Mode0Tables
<1> HIDE DEF hard, regular, mode0, h, r
<1>5. CASE h = 0
  BY <1>1, <1>4, <1>5
<1>6. CASE h = 1 /\ r = 1
  <2>1. s = Zeros(1) \o Zeros(2) \o mode0
    BY <1>1, <1>6
  <2> QED BY <1>4, <2>1, Zenon
<1>7. CASE h = 1 /\ r = 0
  <2>1. s = Zeros(2) \o Zeros(1) \o mode0
    BY <1>1, <1>7
  <2> QED BY <1>4, <2>1, Zenon
<1>8. CASE h = 2 /\ r = 2
  BY <1>1, <1>3, <1>8
<1>9. CASE h = 2 /\ r = 1
  BY <1>1, <1>3, <1>9
<1>10. CASE h = 2 /\ r = 0
  BY <1>1, <1>10
<1> QED BY <1>2, <1>5, <1>6, <1>7, <1>8, <1>9, <1>10

\* The records made for two NATs hold only behaviours that fit them.
LEMMA RecordsFit ==
  ASSUME NEW s, s = NewMakeHoleRecords(Feature("c"), Feature("v"))
  PROVE  s \in Seq(Fitting) /\ s # <<>>
<1> DEFINE OK(t) == t \in Seq(Fitting) /\ t # <<>>
<1>1. /\ \A m \in 0..3 : OK(Zeros(m)) /\ OK(Ones(m))
      /\ \A t \in Mode0Tables : OK(t)
      /\ (\E x \in Side : Feature(x).RegularPortsChange) => OK(Zeros(4))
  BY ModeFits DEF Zeros, Ones, Mode0Tables
<1>2. ASSUME NEW t, NEW u, OK(t), OK(u) PROVE OK(t \o u)
  <2>1. t \o u \in Seq(Fitting) /\ Len(t \o u) = Len(t) + Len(u)
    BY <1>2, ConcatProperties
  <2>2. Len(t) \in Nat \ {0} /\ Len(u) \in Nat
    BY <1>2, LenProperties, EmptySeq
  <2> QED BY <2>1, <2>2, EmptySeq
<1> HIDE DEF OK
<1>3. CASE \E t \in Mode0Tables : \/ s = t
                                  \/ s = Zeros(1) \o Zeros(2) \o t
                                  \/ s = Zeros(2) \o Zeros(1) \o t
  <2>1. PICK t \in Mode0Tables : \/ s = t
                                 \/ s = Zeros(1) \o Zeros(2) \o t
                                 \/ s = Zeros(2) \o Zeros(1) \o t
    BY <1>3
  <2>2. OK(t) /\ OK(Zeros(1)) /\ OK(Zeros(2))
    BY <1>1
  <2>3. OK(Zeros(1) \o Zeros(2) \o t) /\ OK(Zeros(2) \o Zeros(1) \o t)
    BY <1>2, <2>2
  <2> QED BY <2>1, <2>2, <2>3 DEF OK
<1>4. CASE s = Ones(0) \o Ones(1) \o Ones(3)
  <2>1. OK(Ones(0)) /\ OK(Ones(1)) /\ OK(Ones(3))
    BY <1>1
  <2>2. OK(Ones(0) \o Ones(1) \o Ones(3))
    BY <1>2, <2>1
  <2> QED BY <1>4, <2>2 DEF OK
<1>5. CASE /\ \E x \in Side : Feature(x).RegularPortsChange
           /\ s = Zeros(3) \o Zeros(4) \/ s = Zeros(4)
  <2>1. OK(Zeros(3)) /\ OK(Zeros(4))
    BY <1>1, <1>5
  <2>2. OK(Zeros(3) \o Zeros(4))
    BY <1>2, <2>1
  <2> QED BY <1>5, <2>1, <2>2 DEF OK
<1> QED BY <1>3, <1>4, <1>5, RecordsCases

-----------------------------------------------------------------------------
LEMMA InitPlan == Init => PlanFits /\ ScoresFit
<1> SUFFICES ASSUME Init PROVE PlanFits /\ ScoresFit
  OBVIOUS
<1>1. PlanFits
  BY DEF Init, InitWith, PlanFits, PlanOf, NoPlan
<1>2. ScoresFit
  BY EmptySeq DEF Init, InitWith, ScoresFit
<1> QED BY <1>1, <1>2

\* The NATs of the two sides stay what they are.
LEMMA NatFixed == ASSUME [Next]_vars PROVE UNCHANGED nat
  BY ZenonT(60) DEF Next, vars, ListenClient, CloseClient, Clean, PassSid, PreCheck, Session,
     HandleVisitor, SendSid,
     HandleClient, HandlerRuns, Analyse, WaitTimesOut, Respond, EndSession, HandleReport,
     Exchange,
     ExchangeReturns, Punch, SendProbes, ReceiveProbe, ReceiveResponse, PunchFails, DispatchSend

\* A plan is made once and fits; the records keep to what fits.
LEMMA PlanStep ==
  TypeOK /\ LaneInv /\ PlanFits /\ ScoresFit /\ [Next]_vars => PlanFits' /\ ScoresFit'
<1> SUFFICES ASSUME TypeOK, LaneInv, PlanFits, ScoresFit, [Next]_vars
             PROVE  (\A b \in Attempt : PlanOf(b)') /\ ScoresFit'
  BY DEF PlanFits
<1>a. \A b \in Attempt : PlanOf(b)
  BY DEF PlanFits
<1>b. UNCHANGED nat
  BY NatFixed
<1>c. /\ \A s \in Side : Feature(s)' = Feature(s)
      /\ \A m, i : Fits(m, i)' = Fits(m, i)
      /\ Fitting' = Fitting
  BY <1>b DEF Feature, Fits, Fitting
<1>d. ASSUME scores' \in Seq(Fitting) PROVE ScoresFit'
  BY <1>c, <1>d DEF ScoresFit
<1>e. ASSUME NEW b \in Attempt, plan'[b] = plan[b],
             sess'[b] = sess[b] \/ (sess'[b] = "wait" /\ sess[b] = "new") \/ sess'[b] = "gone"
      PROVE  PlanOf(b)'
  BY <1>a, <1>b, <1>c, <1>e DEF PlanOf, Side
<1>1. CASE UNCHANGED <<plan, sess, scores>>
  BY <1>1, <1>d, <1>e DEF ScoresFit
<1>2. ASSUME NEW a \in Attempt, HandleVisitor(a)
      PROVE  (\A b \in Attempt : PlanOf(b)') /\ ScoresFit'
  <2>1. sess[a] = "none" /\ plan[a].mode = 9
    BY <1>2, <1>a DEF HandleVisitor, LaneInv, LaneOf, PlanOf
  <2>2. ASSUME NEW b \in Attempt, b # a PROVE PlanOf(b)'
    BY <1>2, <1>e, <2>2 DEF HandleVisitor, TypeOK
  <2>3. plan'[a].mode = 9 /\ sess'[a] \in {"none", "new"}
    BY <1>2, <2>1 DEF HandleVisitor, TypeOK
  <2>4. PlanOf(a)'
    BY <2>3 DEF PlanOf
  <2> QED BY <1>2, <1>d, <2>2, <2>4 DEF HandleVisitor, ScoresFit
<1>3. ASSUME NEW a \in Attempt, SendSid(a) \/ WaitTimesOut(a) \/ EndSession(a)
      PROVE  (\A b \in Attempt : PlanOf(b)') /\ ScoresFit'
  BY <1>3, <1>d, <1>e DEF SendSid, WaitTimesOut, EndSession, TypeOK, ScoresFit
<1>4. ASSUME NEW a \in Attempt, Analyse(a) PROVE (\A b \in Attempt : PlanOf(b)') /\ ScoresFit'
  <2>1. PICK old \in {IF scores = <<>> THEN NewMakeHoleRecords(Feature("c"), Feature("v"))
                                       ELSE scores} :
          \E best \in {old[Best(old)]} :
            /\ scores' = Recommand(old)
            /\ plan' = [plan EXCEPT ![a] =
                 [mode |-> best.Mode, index |-> best.Index,
                  resp |-> Plan(best.Mode, best.Index, nat["c"].addrs, Feature("c"),
                                nat["v"].addrs, Feature("v"))]]
    BY <1>4 DEF Analyse
  <2>2. old \in Seq(Fitting) /\ old # <<>>
    BY RecordsFit DEF ScoresFit
  <2> DEFINE best == old[Best(old)]
             resp == Plan(best.Mode, best.Index, nat["c"].addrs, Feature("c"), nat["v"].addrs,
             Feature("v"))
  <2>3. /\ scores' = Recommand(old)
        /\ plan' = [plan EXCEPT ![a] = [mode |-> best.Mode, index |-> best.Index, resp |-> resp]]
    BY <2>1
  <2>4. best \in Fitting
    BY <2>2, BestFound
  <2> HIDE DEF best
  <2>5. Fits(best.Mode, best.Index) /\ best.Mode # 9
    BY <2>4 DEF Fitting
  <2>6. plan'[a].mode = best.Mode /\ plan'[a].index = best.Index /\ plan'[a].resp = resp
    <3> HIDE DEF resp
    <3> QED BY <2>3 DEF TypeOK
  <2>7. sess'[a] = "plan"
    BY <1>4 DEF Analyse, TypeOK
  <2>8. PlanOf(a)'
    BY <1>b, <1>c, <2>5, <2>6, <2>7 DEF PlanOf, Side
  <2>9. ASSUME NEW b \in Attempt, b # a PROVE PlanOf(b)'
    <3>1. plan'[b] = plan[b]
      <4> HIDE DEF resp
      <4> QED BY <2>3, <2>9 DEF TypeOK
    <3>2. sess'[b] = sess[b]
      BY <1>4, <2>9 DEF Analyse, TypeOK
    <3> QED BY <1>e, <3>1, <3>2
  <2>10. ScoresFit'
    BY <1>d, <2>2, <2>3, RecommandFits
  <2> QED BY <2>8, <2>9, <2>10
<1>5. ASSUME NEW a \in Attempt, HandleReport(a)
      PROVE  (\A b \in Attempt : PlanOf(b)') /\ ScoresFit'
  <2>1. scores' = scores \/ scores' = ReportSuccess(scores, plan[a].mode, plan[a].index)
    BY <1>5 DEF HandleReport
  <2>2. scores' \in Seq(Fitting)
    BY <2>1, ReportFits DEF ScoresFit
  <2> QED BY <1>5, <1>d, <1>e, <2>2 DEF HandleReport
<1>6. CASE Clean
  <2>1. scores' \in Seq(Fitting)
    BY <1>6, EmptySeq DEF Clean
  <2> QED BY <1>6, <1>d, <1>e, <2>1 DEF Clean
<1>7. ASSUME NEW a \in Attempt, NEW s \in Side,
             ListenClient \/ CloseClient \/ PreCheck(a) \/ HandleClient(a)
             \/ Respond(a, s) \/ Exchange(s, a) \/ ExchangeReturns(s, a)
      PROVE (\A b \in Attempt : PlanOf(b)') /\ ScoresFit'
  BY <1>1, <1>7 DEF ListenClient, CloseClient, PreCheck, HandleClient, Respond, Exchange,
     ExchangeReturns, sessVars
<1>8. ASSUME NEW a \in Attempt, NEW s \in Side, Punch(s, a)
      PROVE  (\A b \in Attempt : PlanOf(b)') /\ ScoresFit'
  BY <1>1, <1>8, PunchStage DEF sessVars
<1>9. ASSUME NEW i \in 1..MaxReg, PassSid(i) PROVE (\A b \in Attempt : PlanOf(b)') /\ ScoresFit'
  BY <1>1, <1>9 DEF PassSid, sessVars
<1>10. ASSUME NEW l \in Lane, DispatchSend(l)
       PROVE  (\A b \in Attempt : PlanOf(b)') /\ ScoresFit'
  BY <1>1, <1>10 DEF DispatchSend, sessVars
<1>11. CASE UNCHANGED vars
  BY <1>1, <1>11 DEF vars, sessVars
<1>12. CASE Attempt = {}
  BY <1>1, <1>6, <1>9, <1>10, <1>11, <1>12 DEF Next, ListenClient, CloseClient, sessVars
<1> QED
  BY <1>2, <1>3, <1>4, <1>5, <1>6, <1>7, <1>8, <1>9, <1>10, <1>11, <1>12 DEF Next, Session,
     HandlerRuns, Side

\* The two answers of a session fit together, whatever NATs the two sides are behind
\* and whatever was recommended and reported before.
THEOREM PlansAreCoherent == Spec => []PlanIsCoherent
<1> DEFINE Inv == TypeOK /\ LaneInv /\ PlanFits /\ ScoresFit
<1>1. Inv => PlanIsCoherent
  <2> SUFFICES ASSUME Inv, NEW a \in Attempt, plan[a].mode # 9
               PROVE  LET c == Told("c", a)
                          v == Told("v", a)
                          sender == IF c.Role = "sender" THEN "c" ELSE "v"
                      IN  /\ {c.Role, v.Role} = {"sender", "receiver"}
                          /\ Told(sender, a).SendDelayMs < Told(Other(sender), a).ReadTimeoutMs
                          /\ Feature("c").NatType # Feature("v").NatType =>
                               /\ c.Mode = 1 => Feature(sender).NatType = "HardNAT"
                               /\ c.Mode = 2 => Feature(sender).NatType = "EasyNAT"
                          /\ c.Mode = 4 => Feature(sender).RegularPortsChange
                          /\ \A r \in Range(c.CandidatePorts) \union Range(v.CandidatePorts) :
                               1 <= r.From /\ r.From <= r.To /\ r.To <= MaxPort
    BY Zenon DEF PlanIsCoherent
  <2>1. PICK s \in Side : Agreed(plan[a].mode, plan[a].resp, s)
    BY PlanAgreed DEF PlanFits, PlanOf
  <2>2. CASE s = "c"
    BY <2>1, <2>2 DEF Agreed, Told, Other
  <2>3. CASE s = "v"
    BY <2>1, <2>3 DEF Agreed, Told, Other
  <2> QED BY <2>2, <2>3 DEF Side
<1>2. Init => Inv
  BY InitType, InitLane, InitPlan
<1>3. Inv /\ [Next]_vars => Inv'
  BY TypeStep, LaneStep, PlanStep
<1> QED BY <1>1, <1>2, <1>3, PTL DEF Spec

\* What a session was told stays as it is.
LEMMA PlanStays ==
  ASSUME TypeOK, LaneInv, PlanFits, [Next]_vars, NEW b \in Attempt, plan[b].mode # 9
  PROVE  plan'[b] = plan[b]
<1>1. CASE UNCHANGED plan
  BY <1>1
<1>2. ASSUME NEW a \in Attempt, HandleVisitor(a) PROVE plan'[b] = plan[b]
  <2>1. sess[a] = "none" /\ plan[a].mode = 9
    BY <1>2 DEF HandleVisitor, LaneInv, LaneOf, PlanFits, PlanOf
  <2> QED BY <1>2, <2>1 DEF HandleVisitor, TypeOK
<1>3. ASSUME NEW a \in Attempt, Analyse(a) PROVE plan'[b] = plan[b]
  <2>1. sess[a] = "wait" /\ plan[a].mode = 9
    BY <1>3 DEF Analyse, PlanFits, PlanOf
  <2>2. \E p : plan' = [plan EXCEPT ![a] = p]
    BY <1>3, Zenon DEF Analyse
  <2> QED BY <2>1, <2>2 DEF TypeOK
<1> QED
  BY <1>1, <1>2, <1>3, ZenonT(60) DEF Next, vars, sessVars, ListenClient, CloseClient, Clean, PassSid,
     PreCheck, Session,
     SendSid, HandleClient, HandlerRuns, WaitTimesOut, Respond, EndSession, HandleReport,
     Exchange,
     ExchangeReturns, Punch, SendProbes, ReceiveProbe, ReceiveResponse, PunchFails, DispatchSend

LEMMA InitTold == Init => OnlyTold
  BY DEF Init, InitWith, OnlyTold, ToldOf, Lane

LEMMA ToldStep ==
  TypeOK /\ LaneInv /\ PlanFits /\ OnlyTold /\ PlanFits' /\ [Next]_vars => OnlyTold'
<1> SUFFICES ASSUME TypeOK, LaneInv, PlanFits, OnlyTold, PlanFits', [Next]_vars, NEW b \in Attempt
             PROVE  ToldOf(b)'
  BY DEF OnlyTold
<1>a. ToldOf(b) /\ PlanOf(b) /\ PlanOf(b)'
  BY DEF OnlyTold, PlanFits
<1>b. plan[b].mode # 9 => plan'[b].mode # 9
  BY PlanStays
<1>c. CASE plan[b].mode # 9
  BY <1>b, <1>c DEF ToldOf
<1>d. CASE plan[b].mode = 9
  <2>1. /\ sess[b] # "plan" /\ probes[b] = {}
        /\ \A s \in Side : /\ answer[<<b, s>>] # "ok" /\ lane[<<b, s>>] # "ok"
                           /\ stage[s][b] \notin {"delay", "probing", "made"}
    BY <1>a, <1>d DEF ToldOf, PlanOf
  <2>2. \A a \in Attempt, s \in Side : <<a, s>> \in Lane
    BY DEF Lane
  <2> DEFINE Quiet == /\ probes'[b] = {}
                      /\ \A s \in Side : /\ answer'[<<b, s>>] # "ok" /\ lane'[<<b, s>>] # "ok"
                                         /\ stage'[s][b] \notin {"delay", "probing", "made"}
  <2>3. SUFFICES Quiet
    BY DEF ToldOf
  <2>4. CASE UNCHANGED <<lane, answer, stage, probes>>
    BY <2>1, <2>4
  <2>5. ASSUME NEW i \in 1..MaxReg, PassSid(i) PROVE Quiet
    BY <2>1, <2>5 DEF PassSid, TypeOK, laneVars, Side
  <2>6. ASSUME NEW a \in Attempt, PreCheck(a) PROVE Quiet
    BY <2>1, <2>6 DEF PreCheck, TypeOK, laneVars, Side
  <2>7. ASSUME NEW a \in Attempt, HandleVisitor(a) PROVE Quiet
    BY <2>1, <2>2, <2>7 DEF HandleVisitor, Answer, TypeOK
  <2>8. ASSUME NEW a \in Attempt, NEW s \in Side, Respond(a, s) PROVE Quiet
    BY <2>1, <2>2, <2>8 DEF Respond, Answer, TypeOK
  <2>9. ASSUME NEW s \in Side, NEW a \in Attempt, Exchange(s, a) PROVE Quiet
    <3>1. /\ \E r \in {"exchange", "failed"} : stage' = [stage EXCEPT ![s][a] = r]
          /\ lane' = lane \/ lane' = [lane EXCEPT ![<<a, s>>] = "open"]
          /\ UNCHANGED <<answer, probes>>
      BY <2>9, Zenon DEF Exchange, DoSend
    <3>2. \A t \in Side : stage'[t][b] = stage[t][b] \/ stage'[t][b] \in {"exchange", "failed"}
      BY <3>1 DEF TypeOK
    <3>3. \A t \in Side : lane'[<<b, t>>] = lane[<<b, t>>] \/ lane'[<<b, t>>] = "open"
      BY <2>2, <3>1 DEF TypeOK
    <3> QED BY <2>1, <3>1, <3>2, <3>3
  <2>10. ASSUME NEW s \in Side, NEW a \in Attempt, ExchangeReturns(s, a) PROVE Quiet
    <3>1. /\ \E r \in {"delay", "failed"} : stage' = [stage EXCEPT ![s][a] = r]
                                            /\ (r = "delay" => lane[<<a, s>>] = "ok")
          /\ lane' = [lane EXCEPT ![<<a, s>>] = "closed"]
          /\ UNCHANGED <<answer, probes>>
      BY <2>10, Zenon DEF ExchangeReturns, DoReturn
    <3> QED BY <2>1, <2>2, <3>1 DEF TypeOK
  <2>11. ASSUME NEW s \in Side, NEW a \in Attempt, Punch(s, a) PROVE Quiet
    <3>1. /\ stage[s][a] \in {"delay", "probing"} /\ UNCHANGED <<lane, answer>>
          /\ \A t \in Side, e \in Attempt : t # s \/ e # a => stage'[t][e] = stage[t][e]
          /\ \A e \in Attempt : e # a => probes'[e] = probes[e]
      BY <2>11, PunchStage DEF laneVars
    <3> QED BY <2>1, <3>1
  <2>12. ASSUME NEW l \in Lane, DispatchSend(l) PROVE Quiet
    BY <2>1, <2>2, <2>12 DEF DispatchSend, TypeOK
  <2>13. ASSUME NEW a \in Attempt,
                ListenClient \/ CloseClient \/ Clean \/ SendSid(a) \/ HandleClient(a) \/ Analyse(a)
                \/ WaitTimesOut(a) \/ EndSession(a) \/ HandleReport(a)
         PROVE  Quiet
    BY <2>4, <2>13 DEF ListenClient, CloseClient, Clean, SendSid, HandleClient, Analyse,
       WaitTimesOut, EndSession,
       HandleReport, laneVars
  <2>14. CASE UNCHANGED vars
    BY <2>4, <2>14 DEF vars, laneVars
  <2> HIDE DEF Quiet
  <2> QED BY <2>5, <2>6, <2>7, <2>8, <2>9, <2>10, <2>11, <2>12, <2>13, <2>14 DEF Next,
     Session, HandlerRuns
<1> QED BY <1>c, <1>d

-----------------------------------------------------------------------------
LEMMA InitPunch == Init => PunchInv
  BY DEF Init, InitWith, PunchInv, PunchOf, Side

\* A side that has made the hole stays so.
LEMMA MadeStays ==
  ASSUME TypeOK, SidInv, [Next]_vars, NEW s \in Side, NEW b \in Attempt, stage[s][b] = "made"
  PROVE  stage'[s][b] = "made"
<1>1. CASE UNCHANGED stage
  BY <1>1
<1>2. ASSUME NEW i \in 1..MaxReg, PassSid(i) PROVE stage'[s][b] = "made"
  <2>1. b \in recv[i] => stage["c"][b] = "none"
    BY DEF SidInv, SidOf
  <2>2. PICK a \in recv[i] : \E r \in {"none", "sid"} : stage' = [stage EXCEPT !["c"][a] = r]
    BY <1>2 DEF PassSid
  <2> QED BY <2>1, <2>2 DEF TypeOK, Side
<1>3. ASSUME NEW a \in Attempt, PreCheck(a) PROVE stage'[s][b] = "made"
  BY <1>3 DEF PreCheck, TypeOK, Side
<1>4. ASSUME NEW t \in Side, NEW a \in Attempt, Exchange(t, a) PROVE stage'[s][b] = "made"
  <2>1. /\ stage[t][a] = [v |-> "prepare", c |-> "sid"][t]
        /\ \E r \in {"exchange", "failed"} : stage' = [stage EXCEPT ![t][a] = r]
    BY <1>4, Zenon DEF Exchange
  <2>2. stage[t][a] # "made"
    BY <2>1 DEF Side
  <2> QED BY <2>1, <2>2 DEF TypeOK
<1>5. ASSUME NEW t \in Side, NEW a \in Attempt, ExchangeReturns(t, a)
      PROVE  stage'[s][b] = "made"
  <2>1. /\ stage[t][a] = "exchange"
        /\ \E r \in {"delay", "failed"} : stage' = [stage EXCEPT ![t][a] = r]
    BY <1>5, Zenon DEF ExchangeReturns
  <2> QED BY <2>1 DEF TypeOK
\* A step of MakeHole: new messages are for the other side, a response comes from a
\* receiver that listens, and a hole is made by a receiver or with a response.
<1>6. ASSUME NEW t \in Side, NEW a \in Attempt, Punch(t, a) PROVE stage'[s][b] = "made"
  <2>1. /\ stage[t][a] \in {"delay", "probing"}
        /\ \A u \in Side, e \in Attempt : u # t \/ e # a => stage'[u][e] = stage[u][e]
    BY <1>6, PunchStage
  <2> QED BY <2>1
<1> QED
  BY <1>1, <1>2, <1>3, <1>4, <1>5, <1>6 DEF Next, vars, ListenClient, CloseClient, Clean,
     Session, HandleVisitor,
     SendSid, HandleClient, HandlerRuns, Analyse, WaitTimesOut, Respond, EndSession,
     HandleReport, DispatchSend

LEMMA PunchStep ==
  TypeOK /\ LaneInv /\ SidInv /\ PlanFits /\ OnlyTold /\ PunchInv /\ [Next]_vars => PunchInv'
<1> SUFFICES ASSUME TypeOK, LaneInv, SidInv, PlanFits, OnlyTold, PunchInv, [Next]_vars, NEW b \in Attempt
             PROVE  PunchOf(b)'
  BY DEF PunchInv
<1>a. PunchOf(b) /\ ToldOf(b)
  BY DEF PunchInv, OnlyTold
<1>b. \A s \in Side : Other(s) \in Side /\ Other(Other(s)) = s /\ Other(s) # s
  BY DEF Side, Other
<1>c. \A s \in Side : stage[s][b] = "made" => stage'[s][b] = "made"
  BY MadeStays
<1> DEFINE ListensOn(s) == stage[s][b] = "made" \/ Told(s, b).ListenRandomPorts > 0
\* A step that sends no response and makes no hole keeps what there is.
<1>d. ASSUME NEW s \in Side, ListensOn(Other(s)), plan[b].mode # 9
      PROVE  (stage[Other(s)][b] = "made" \/ Told(Other(s), b).ListenRandomPorts > 0)'
  <2>1. plan'[b] = plan[b]
    BY <1>d, PlanStays
  <2> QED BY <1>b, <1>c, <1>d, <2>1 DEF Told
<1>e. ASSUME probes'[b] \subseteq probes[b],
             \A s \in Side : stage'[s][b] = "made" => stage[s][b] = "made"
      PROVE  PunchOf(b)'
  <2> SUFFICES ASSUME NEW s \in Side
               PROVE  /\ \A m \in probes'[b] : m.to = s /\ m.response =>
                           (stage[Other(s)][b] = "made" \/ Told(Other(s),
                           b).ListenRandomPorts > 0)'
                      /\ stage'[s][b] = "made" /\ Told(s, b)'.Role = "sender" =>
                           (stage[Other(s)][b] = "made" \/ Told(Other(s),
                           b).ListenRandomPorts > 0)'
    BY DEF PunchOf
  <2>1. ASSUME NEW m \in probes'[b], m.to = s, m.response
        PROVE  (stage[Other(s)][b] = "made" \/ Told(Other(s), b).ListenRandomPorts > 0)'
    <3>1. plan[b].mode # 9 /\ ListensOn(Other(s))
      BY <1>a, <1>e, <2>1 DEF PunchOf, ToldOf
    <3> QED BY <1>d, <3>1
  <2>2. ASSUME stage'[s][b] = "made", Told(s, b)'.Role = "sender"
        PROVE  (stage[Other(s)][b] = "made" \/ Told(Other(s), b).ListenRandomPorts > 0)'
    <3>1. plan[b].mode # 9
      BY <1>a, <1>e, <2>2 DEF ToldOf
    <3>2. Told(s, b)' = Told(s, b)
      BY <3>1, PlanStays DEF Told
    <3>3. ListensOn(Other(s))
      BY <1>a, <1>e, <2>2, <3>2 DEF PunchOf
    <3> QED BY <1>d, <3>1, <3>3
  <2> QED BY <2>1, <2>2
<1>1. ASSUME NEW i \in 1..MaxReg, PassSid(i) PROVE PunchOf(b)'
  BY <1>1, <1>e DEF PassSid, TypeOK, Side
<1>2. ASSUME NEW a \in Attempt, PreCheck(a) PROVE PunchOf(b)'
  BY <1>2, <1>e DEF PreCheck, TypeOK, Side
<1>3. ASSUME NEW t \in Side, NEW a \in Attempt, Exchange(t, a) \/ ExchangeReturns(t, a)
      PROVE  PunchOf(b)'
  <2>1. /\ \E r \in {"exchange", "delay", "failed"} : stage' = [stage EXCEPT ![t][a] = r]
        /\ UNCHANGED probes
    BY <1>3, Zenon DEF Exchange, ExchangeReturns
  <2>2. \A s \in Side : stage'[s][b] = "made" => stage[s][b] = "made"
    BY <2>1 DEF TypeOK
  <2> QED BY <1>e, <2>1, <2>2
<1>4. ASSUME NEW t \in Side, NEW a \in Attempt, Punch(t, a), a # b PROVE PunchOf(b)'
  <2>1. /\ \A u \in Side, e \in Attempt : u # t \/ e # a => stage'[u][e] = stage[u][e]
        /\ \A e \in Attempt : e # a => probes'[e] = probes[e]
    BY <1>4, PunchStage
  <2> QED BY <1>4, <1>e, <2>1
<1>5. ASSUME NEW t \in Side, PunchFails(t, b) PROVE PunchOf(b)'
  <2>1. probes'[b] \subseteq probes[b]
    BY <1>5 DEF PunchFails, StopsReading, TypeOK
  <2>2. \A s \in Side : stage'[s][b] = "made" => stage[s][b] = "made"
    BY <1>5 DEF PunchFails, TypeOK
  <2> QED BY <1>e, <2>1, <2>2
\* A step of MakeHole: new messages are for the other side, a response comes from a
\* receiver that listens, and a hole is made by a receiver or with a response.
<1>6. ASSUME NEW t \in Side, stage[t][b] \in {"delay", "probing"}, UNCHANGED plan,
             \A u \in Side : u # t => stage'[u][b] = stage[u][b],
             \A m \in probes'[b] \ probes[b] : m.to = Other(t) /\
               (m.response => (stage'[t][b] = "made" \/ Told(t, b).ListenRandomPorts > 0)),
             stage'[t][b] = "made" => Told(t, b).Role = "receiver" \/
                                      \E m \in probes[b] : m.to = t /\ m.response
      PROVE  PunchOf(b)'
  <2>1. plan[b].mode # 9
    BY <1>a, <1>6 DEF ToldOf
  <2>2. \A s \in Side : Told(s, b)' = Told(s, b)
    BY <1>6 DEF Told
  <2> SUFFICES ASSUME NEW s \in Side
               PROVE  /\ \A m \in probes'[b] : m.to = s /\ m.response =>
                           (stage[Other(s)][b] = "made" \/ Told(Other(s),
                           b).ListenRandomPorts > 0)'
                      /\ stage'[s][b] = "made" /\ Told(s, b)'.Role = "sender" =>
                           (stage[Other(s)][b] = "made" \/ Told(Other(s),
                           b).ListenRandomPorts > 0)'
    BY DEF PunchOf
  <2>3. ASSUME NEW m \in probes'[b], m.to = s, m.response
        PROVE  (stage[Other(s)][b] = "made" \/ Told(Other(s), b).ListenRandomPorts > 0)'
    <3>1. CASE m \in probes[b]
      <4>1. ListensOn(Other(s))
        BY <1>a, <2>3, <3>1 DEF PunchOf
      <4> QED BY <1>d, <2>1, <4>1
    <3>2. CASE m \notin probes[b]
      <4>1. Other(s) = t
        BY <1>6, <1>b, <2>3, <3>2
      <4>2. stage'[t][b] = "made" \/ Told(t, b).ListenRandomPorts > 0
        BY <1>6, <2>3, <3>2
      <4> QED BY <1>b, <2>2, <4>1, <4>2
    <3> QED BY <3>1, <3>2
  <2>4. ASSUME stage'[s][b] = "made", Told(s, b)'.Role = "sender"
        PROVE  (stage[Other(s)][b] = "made" \/ Told(Other(s), b).ListenRandomPorts > 0)'
    <3>1. Told(s, b).Role = "sender"
      BY <2>2, <2>4
    <3>2. ListensOn(Other(s))
      <4>1. CASE s = t
        <5>1. \E m \in probes[b] : m.to = s /\ m.response
          BY <1>6, <2>4, <3>1, <4>1
        <5> QED BY <1>a, <5>1 DEF PunchOf
      <4>2. CASE s # t
        BY <1>6, <1>a, <2>4, <3>1, <4>2 DEF PunchOf
      <4> QED BY <4>1, <4>2
    <3> QED BY <1>d, <2>1, <3>2
  <2> QED BY <2>3, <2>4
<1>7. ASSUME NEW t \in Side, SendProbes(t, b) PROVE PunchOf(b)'
  <2>1. stage[t][b] \in {"delay", "probing"} /\ UNCHANGED plan
    BY <1>7 DEF SendProbes, sessVars
  <2>2. /\ \A u \in Side : u # t => stage'[u][b] = stage[u][b]
        /\ stage'[t][b] # "made"
    BY <1>7 DEF SendProbes, TypeOK
  <2>3. \A m \in probes'[b] \ probes[b] : m.to = Other(t) /\ ~m.response
    BY <1>7 DEF SendProbes, TypeOK
  <2> QED BY <1>6, <2>1, <2>2, <2>3
<1>8. ASSUME NEW t \in Side, ReceiveProbe(t, b) PROVE PunchOf(b)'
  <2>1. stage[t][b] \in {"delay", "probing"} /\ UNCHANGED plan /\ Told(t, b).Role = "receiver"
    BY <1>8 DEF ReceiveProbe, sessVars
  <2>2. /\ stage' = stage \/ stage' = [stage EXCEPT ![t][b] = "made"]
        /\ stage' = [stage EXCEPT ![t][b] = "made"] \/ Told(t, b).ListenRandomPorts > 0
    BY <1>8, Zenon DEF ReceiveProbe, Made
  <2>3. /\ \A u \in Side : u # t => stage'[u][b] = stage[u][b]
        /\ stage'[t][b] = "made" \/ Told(t, b).ListenRandomPorts > 0
    BY <2>2 DEF TypeOK
  <2>4. \A m \in probes'[b] \ probes[b] : m.to = Other(t)
    BY <1>8 DEF ReceiveProbe, StopsReading, TypeOK
  <2> QED BY <1>6, <2>1, <2>3, <2>4
<1>9. ASSUME NEW t \in Side, ReceiveResponse(t, b) PROVE PunchOf(b)'
  <2>1. /\ stage[t][b] \in {"delay", "probing"} /\ UNCHANGED plan
        /\ \E m \in probes[b] : m.to = t /\ m.response
    BY <1>9 DEF ReceiveResponse, sessVars
  <2>2. \A u \in Side : u # t => stage'[u][b] = stage[u][b]
    BY <1>9 DEF ReceiveResponse, Made, TypeOK
  <2>3. probes'[b] \subseteq probes[b]
    BY <1>9 DEF ReceiveResponse, StopsReading, TypeOK
  <2> QED BY <1>6, <2>1, <2>2, <2>3
<1>10. CASE UNCHANGED <<stage, probes>>
  BY <1>10, <1>e
<1> QED
  BY <1>1, <1>2, <1>3, <1>4, <1>5, <1>7, <1>8, <1>9, <1>10
     DEF Next, vars, ListenClient, CloseClient, Clean, Session, HandleVisitor, Punch,
         SendSid, HandleClient, HandlerRuns, Analyse, WaitTimesOut, Respond, EndSession,
         HandleReport, DispatchSend

\* Where the receiver listens on one port, a sender that has made the hole was
\* answered by a receiver that has made it: for all interleavings of the sessions,
\* and with messages lost, late or stray.
THEOREM PunchesAgree == Spec => []PunchAgrees
<1> DEFINE Inv == TypeOK /\ LaneInv /\ SidInv /\ PlanFits /\ ScoresFit /\ OnlyTold /\ PunchInv
<1>1. Inv => PunchAgrees
  <2> SUFFICES ASSUME Inv, NEW a \in Attempt, NEW s \in Side, stage[s][a] = "made",
                      Told(s, a).Role = "sender", Told(s, a).Mode \in {0, 1, 3}
               PROVE  stage[Other(s)][a] = "made"
    BY DEF PunchAgrees
  <2>1. plan[a].mode # 9
    BY DEF OnlyTold, ToldOf
  <2>2. PICK t \in Side : Agreed(plan[a].mode, plan[a].resp, t)
    BY <2>1, PlanAgreed DEF PlanFits, PlanOf
  <2>3. Told(Other(s), a).ListenRandomPorts = 0
    BY <2>2 DEF Agreed, Told, Other, Side
  <2> QED BY <2>3 DEF PunchInv, PunchOf
<1>2. Init => Inv
  BY InitType, InitLane, InitSid, InitPlan, InitTold, InitPunch
<1>3. Inv /\ [Next]_vars => Inv'
  BY TypeStep, LaneStep, SidStep, PlanStep, ToldStep, PunchStep
<1> QED BY <1>1, <1>2, <1>3, PTL DEF Spec

-----------------------------------------------------------------------------
\* A table of records: its modes, its highest score, and no behaviour twice.
Table(t, modes, top) ==
  /\ t \in Seq(Fitting)
  /\ \A i \in DOMAIN t : t[i].Mode \in modes /\ t[i].Score <= top
  /\ \A i, j \in DOMAIN t : t[i].Mode = t[j].Mode /\ t[i].Index = t[j].Index => i = j
\* At least three of its behaviours have the highest score.
ThreeAt(t, top) ==
  \E i, j, k \in DOMAIN t :
    i < j /\ j < k /\ t[i].Score = top /\ t[j].Score = top /\ t[k].Score = top

\* What getBehaviorScoresByMode2 says of the behaviours of a mode.
LEMMA ModeRecords ==
  ASSUME NEW mode, NEW x \in Int, NEW y \in Int, NEW t, t = getBehaviorScoresByMode2(mode, x, y)
  PROVE  /\ DOMAIN t = DOMAIN getBehaviorByMode(mode)
         /\ \A i \in DOMAIN t : /\ t[i].Mode = mode /\ t[i].Index = i
                                /\ t[i].Score = IF getBehaviorByMode(mode)[i][1].Role = "sender"
                                                THEN x ELSE y
<1> DEFINE score(i) == IF getBehaviorByMode(mode)[i][1].Role = "sender" THEN x ELSE y
           rec(i) == [Mode |-> mode, Index |-> i, Score |-> score(i)]
<1>1. t = [i \in DOMAIN getBehaviorByMode(mode) |-> rec(i)]
  BY Zenon DEF getBehaviorScoresByMode2
<1> HIDE DEF score
<1>2. \A i : rec(i).Mode = mode /\ rec(i).Index = i /\ rec(i).Score = score(i)
  OBVIOUS
<1> HIDE DEF rec
<1>3. DOMAIN t = DOMAIN getBehaviorByMode(mode) /\ \A i \in DOMAIN t : t[i] = rec(i)
  BY <1>1
<1>4. \A i \in DOMAIN t : t[i].Mode = mode /\ t[i].Index = i /\ t[i].Score = score(i)
  BY <1>2, <1>3
<1> QED BY <1>3, <1>4, Zenon DEF score

LEMMA ModeTable ==
  ASSUME NEW mode \in 0..4, mode = 4 => \E s \in Side : Feature(s).RegularPortsChange,
         NEW x \in Int, NEW y \in Int, NEW top \in Int, x <= top, y <= top
  PROVE  Table(getBehaviorScoresByMode2(mode, x, y), {mode}, top)
<1> DEFINE t == getBehaviorScoresByMode2(mode, x, y)
<1>1. t \in Seq(Fitting)
  BY ModeFits
<1>2. \A i \in DOMAIN t : t[i].Mode = mode /\ t[i].Index = i /\ (t[i].Score = x \/ t[i].Score = y)
  <2>1. \A i \in DOMAIN t : /\ t[i].Mode = mode /\ t[i].Index = i
                             /\ t[i].Score = IF getBehaviorByMode(mode)[i][1].Role = "sender"
                                             THEN x ELSE y
    BY ModeRecords
  <2> QED BY <2>1, Zenon
<1> HIDE DEF t
<1>3. Table(t, {mode}, top)
  BY <1>1, <1>2 DEF Table
<1> QED BY <1>3 DEF t

\* Every mode has three behaviours, and mode 0 three for each role of the client.
LEMMA ThreeBehaviors ==
  /\ \A mode \in 0..4 : 1 \in DOMAIN getBehaviorByMode(mode) /\ 2 \in DOMAIN getBehaviorByMode(mode)
                        /\ 3 \in DOMAIN getBehaviorByMode(mode)
  /\ \A i \in {1, 3, 5} : i \in DOMAIN getBehaviorByMode(0)
                          /\ getBehaviorByMode(0)[i][1].Role = "sender"
  /\ \A i \in {2, 4, 6} : i \in DOMAIN getBehaviorByMode(0)
                          /\ getBehaviorByMode(0)[i][1].Role # "sender"
<1>1. getBehaviorByMode(0) = mode0Behaviors /\ DOMAIN mode0Behaviors = 1..10
  BY DEF getBehaviorByMode, mode0Behaviors
<1>2. getBehaviorByMode(1) = mode1Behaviors /\ DOMAIN mode1Behaviors = 1..6
  <2>1. getBehaviorByMode(1) = mode1Behaviors
    BY DEF getBehaviorByMode
  <2> QED BY <2>1 DEF mode1Behaviors
<1>3. getBehaviorByMode(2) = mode2Behaviors /\ DOMAIN mode2Behaviors = 1..3
  <2>1. getBehaviorByMode(2) = mode2Behaviors
    BY DEF getBehaviorByMode
  <2> QED BY <2>1 DEF mode2Behaviors
<1>4. getBehaviorByMode(3) = mode3Behaviors /\ DOMAIN mode3Behaviors = 1..6
  <2>1. getBehaviorByMode(3) = mode3Behaviors
    BY DEF getBehaviorByMode
  <2> QED BY <2>1 DEF mode3Behaviors
<1>5. getBehaviorByMode(4) = mode4Behaviors /\ DOMAIN mode4Behaviors = 1..3
  <2>1. getBehaviorByMode(4) = mode4Behaviors
    BY DEF getBehaviorByMode
  <2> QED BY <2>1 DEF mode4Behaviors
<1>6. \A mode \in 0..4 : \E n \in 3..10 : DOMAIN getBehaviorByMode(mode) = 1..n
  BY <1>1, <1>2, <1>3, <1>4, <1>5
<1>7. \A mode \in 0..4 : 1 \in DOMAIN getBehaviorByMode(mode) /\ 2 \in DOMAIN getBehaviorByMode(mode)
                         /\ 3 \in DOMAIN getBehaviorByMode(mode)
  BY <1>6
<1>8. /\ mode0Behaviors[1][1].Role = "sender" /\ mode0Behaviors[3][1].Role = "sender"
      /\ mode0Behaviors[5][1].Role = "sender" /\ mode0Behaviors[2][1].Role # "sender"
      /\ mode0Behaviors[4][1].Role # "sender" /\ mode0Behaviors[6][1].Role # "sender"
  BY DEF mode0Behaviors, Sender, Receiver, Behavior
<1> QED BY <1>1, <1>7, <1>8

LEMMA ModeThree ==
  /\ \A mode \in 0..4 : ThreeAt(Zeros(mode), 0) /\ ThreeAt(Ones(mode), 1)
  /\ ThreeAt(getBehaviorScoresByMode2(0, 0, 1), 1)
  /\ ThreeAt(getBehaviorScoresByMode2(0, 1, 0), 1)
<1>1. ASSUME NEW mode \in 0..4, NEW x \in {0, 1}
      PROVE  ThreeAt(getBehaviorScoresByMode2(mode, x, x), x)
  <2> DEFINE t == getBehaviorScoresByMode2(mode, x, x)
  <2>1. /\ DOMAIN t = DOMAIN getBehaviorByMode(mode)
        /\ \A i \in DOMAIN t : t[i].Score = x
    BY ModeRecords, x \in Int
  <2>2. 1 \in DOMAIN t /\ 2 \in DOMAIN t /\ 3 \in DOMAIN t
    BY <2>1, ThreeBehaviors
  <2> HIDE DEF t
  <2>3. ThreeAt(t, x)
    BY <2>1, <2>2 DEF ThreeAt
  <2> QED BY <2>3 DEF t
<1>2. ThreeAt(getBehaviorScoresByMode2(0, 0, 1), 1)
  <2> DEFINE t == getBehaviorScoresByMode2(0, 0, 1)
  <2>1. \A i \in {2, 4, 6} : i \in DOMAIN t /\ t[i].Score = 1
    BY ModeRecords, ThreeBehaviors, 0 \in Int, 1 \in Int
  <2> HIDE DEF t
  <2>2. ThreeAt(t, 1)
    BY <2>1 DEF ThreeAt
  <2> QED BY <2>2 DEF t
<1>3. ThreeAt(getBehaviorScoresByMode2(0, 1, 0), 1)
  <2> DEFINE t == getBehaviorScoresByMode2(0, 1, 0)
  <2>1. \A i \in {1, 3, 5} : i \in DOMAIN t /\ t[i].Score = 1
    BY ModeRecords, ThreeBehaviors, 0 \in Int, 1 \in Int
  <2> HIDE DEF t
  <2>2. ThreeAt(t, 1)
    BY <2>1 DEF ThreeAt
  <2> QED BY <2>2 DEF t
<1> QED BY <1>1, <1>2, <1>3 DEF Zeros, Ones

\* Tables of different modes, one after the other.
LEMMA TablesJoin ==
  ASSUME NEW t, NEW u, NEW M, NEW N, NEW top \in Int,
         Table(t, M, top), Table(u, N, top), M \intersect N = {}
  PROVE  /\ Table(t \o u, M \union N, top)
         /\ ThreeAt(t, top) \/ ThreeAt(u, top) => ThreeAt(t \o u, top)
<1>1. /\ t \in Seq(Fitting) /\ u \in Seq(Fitting)
      /\ Len(t) \in Nat /\ Len(u) \in Nat /\ DOMAIN t = 1..Len(t) /\ DOMAIN u = 1..Len(u)
  BY LenProperties DEF Table
<1> DEFINE w == t \o u
<1>2. /\ w \in Seq(Fitting) /\ DOMAIN w = 1..(Len(t) + Len(u))
      /\ \A i \in 1..(Len(t) + Len(u)) : w[i] = IF i <= Len(t) THEN t[i] ELSE u[i - Len(t)]
  BY <1>1, ConcatProperties, LenProperties
<1> HIDE DEF w
<1>3. /\ \A i \in DOMAIN t : i \in DOMAIN w /\ w[i] = t[i]
      /\ \A i \in DOMAIN u : i + Len(t) \in DOMAIN w /\ w[i + Len(t)] = u[i]
  BY <1>1, <1>2
<1>4. \A i \in DOMAIN w : \/ i \in DOMAIN t /\ w[i] = t[i]
                          \/ i - Len(t) \in DOMAIN u /\ w[i] = u[i - Len(t)]
  BY <1>1, <1>2
<1>5. \A i \in DOMAIN w : w[i].Mode \in M \union N /\ w[i].Score <= top
  BY <1>4 DEF Table
<1>6. ASSUME NEW i \in DOMAIN w, NEW j \in DOMAIN w, w[i].Mode = w[j].Mode, w[i].Index = w[j].Index
      PROVE  i = j
  <2>1. CASE i \in DOMAIN t /\ w[i] = t[i] /\ j \in DOMAIN t /\ w[j] = t[j]
    BY <1>6, <2>1 DEF Table
  <2>2. CASE /\ i - Len(t) \in DOMAIN u /\ w[i] = u[i - Len(t)]
             /\ j - Len(t) \in DOMAIN u /\ w[j] = u[j - Len(t)]
    <3>1. i - Len(t) = j - Len(t)
      BY <1>6, <2>2, Zenon DEF Table
    <3> QED BY <1>1, <1>2, <3>1
  <2>3. CASE i \in DOMAIN t /\ w[i] = t[i] /\ j - Len(t) \in DOMAIN u /\ w[j] = u[j - Len(t)]
    BY <1>6, <2>3, Zenon DEF Table
  <2>4. CASE j \in DOMAIN t /\ w[j] = t[j] /\ i - Len(t) \in DOMAIN u /\ w[i] = u[i - Len(t)]
    BY <1>6, <2>4, Zenon DEF Table
  <2> QED BY <1>4, <2>1, <2>2, <2>3, <2>4
<1>7. Table(w, M \union N, top)
  BY <1>2, <1>5, <1>6 DEF Table
<1>8. ThreeAt(t, top) => ThreeAt(w, top)
  BY <1>3 DEF ThreeAt
<1>9. ASSUME ThreeAt(u, top) PROVE ThreeAt(w, top)
  <2>1. PICK i \in DOMAIN u, j \in DOMAIN u, k \in DOMAIN u :
          i < j /\ j < k /\ u[i].Score = top /\ u[j].Score = top /\ u[k].Score = top
    BY <1>9 DEF ThreeAt
  <2>2. i + Len(t) < j + Len(t) /\ j + Len(t) < k + Len(t)
    BY <1>1, <2>1
  <2> QED BY <1>3, <2>1, <2>2 DEF ThreeAt
<1> QED BY <1>7, <1>8, <1>9 DEF w

\* The records as they are made for the two NATs.
FirstRecords == NewMakeHoleRecords(Feature("c"), Feature("v"))

\* No behaviour is in them twice, and three at least share the highest score.
LEMMA FirstTable ==
  \E modes : \E top \in Int : Table(FirstRecords, modes, top) /\ ThreeAt(FirstRecords, top)
<1>1. CASE \E t \in Mode0Tables : \/ FirstRecords = t
                                  \/ FirstRecords = Zeros(1) \o Zeros(2) \o t
                                  \/ FirstRecords = Zeros(2) \o Zeros(1) \o t
  <2>1. PICK t \in Mode0Tables : \/ FirstRecords = t
                                 \/ FirstRecords = Zeros(1) \o Zeros(2) \o t
                                 \/ FirstRecords = Zeros(2) \o Zeros(1) \o t
    BY <1>1
  <2>2. \E top \in {0, 1} : Table(t, {0}, top) /\ ThreeAt(t, top)
    <3>1. Table(Zeros(0), {0}, 0) /\ ThreeAt(Zeros(0), 0)
      BY ModeTable, ModeThree DEF Zeros
    <3>2. /\ Table(getBehaviorScoresByMode2(0, 0, 1), {0}, 1)
          /\ Table(getBehaviorScoresByMode2(0, 1, 0), {0}, 1)
      BY ModeTable
    <3> QED BY <3>1, <3>2, ModeThree DEF Mode0Tables
  <2>3. PICK top \in {0, 1} : Table(t, {0}, top) /\ ThreeAt(t, top)
    BY <2>2
  <2>4. Table(Zeros(1), {1}, top) /\ Table(Zeros(2), {2}, top)
    BY ModeTable DEF Zeros
  <2>5. top \in Int
    OBVIOUS
  <2>6. Table(Zeros(1) \o Zeros(2), {1} \union {2}, top)
        /\ Table(Zeros(2) \o Zeros(1), {2} \union {1}, top)
    <3>1. {1} \intersect {2} = {} /\ {2} \intersect {1} = {}
      OBVIOUS
    <3> QED BY <2>4, <2>5, <3>1, TablesJoin
  <2>7. ASSUME NEW u, NEW N, Table(u, N, top), N \intersect {0} = {}
        PROVE  Table(u \o t, N \union {0}, top) /\ ThreeAt(u \o t, top)
    BY <2>3, <2>5, <2>7, TablesJoin
  <2>8. ({1} \union {2}) \intersect {0} = {} /\ ({2} \union {1}) \intersect {0} = {}
    OBVIOUS
  <2> QED BY <2>1, <2>3, <2>5, <2>6, <2>7, <2>8
<1>2. CASE FirstRecords = Ones(0) \o Ones(1) \o Ones(3)
  <2>1. Table(Ones(0), {0}, 1) /\ Table(Ones(1), {1}, 1) /\ Table(Ones(3), {3}, 1) /\ 1 \in Int
    BY ModeTable DEF Ones
  <2>2. Table(Ones(0) \o Ones(1), {0} \union {1}, 1)
    <3>1. {0} \intersect {1} = {}
      OBVIOUS
    <3> QED BY <2>1, <3>1, TablesJoin
  <2>3. Table((Ones(0) \o Ones(1)) \o Ones(3), ({0} \union {1}) \union {3}, 1)
        /\ ThreeAt((Ones(0) \o Ones(1)) \o Ones(3), 1)
    <3>1. ({0} \union {1}) \intersect {3} = {}
      OBVIOUS
    <3>2. ThreeAt(Ones(3), 1)
      BY ModeThree
    <3> QED BY <2>1, <2>2, <3>1, <3>2, TablesJoin
  <2> QED BY <1>2, <2>1, <2>3
<1>3. CASE /\ \E x \in Side : Feature(x).RegularPortsChange
           /\ FirstRecords = Zeros(3) \o Zeros(4) \/ FirstRecords = Zeros(4)
  <2>1. Table(Zeros(3), {3}, 0) /\ Table(Zeros(4), {4}, 0) /\ 0 \in Int
    BY <1>3, ModeTable DEF Zeros
  <2>2. ThreeAt(Zeros(4), 0)
    BY ModeThree
  <2>3. Table(Zeros(3) \o Zeros(4), {3} \union {4}, 0) /\ ThreeAt(Zeros(3) \o Zeros(4), 0)
    <3>1. {3} \intersect {4} = {}
      OBVIOUS
    <3> QED BY <2>1, <2>2, <3>1, TablesJoin
  <2> QED BY <1>3, <2>1, <2>2, <2>3
<1> QED BY <1>1, <1>2, <1>3, RecordsCases DEF FirstRecords

\* Attempt a was given the behaviour at position i; that behaviour was marked down.
Gives(a, i) == plan[a].mode = FirstRecords[i].Mode /\ plan[a].index = FirstRecords[i].Index
Lowered(i) == scores[i].Score < FirstRecords[i].Score

\* As long as no success was counted the records are the first ones, marked down where
\* a behaviour was handed out.
HandedOut ==
  scores # <<>> =>
    /\ DOMAIN scores = DOMAIN FirstRecords
    /\ \A i \in DOMAIN FirstRecords :
         /\ scores[i].Mode = FirstRecords[i].Mode /\ scores[i].Index = FirstRecords[i].Index
         /\ scores[i].Score <= FirstRecords[i].Score
         /\ Lowered(i) => \E d \in Attempt : Gives(d, i)
\* What a session under way was told is marked down.
MarkedDown ==
  \A a \in Attempt : sess[a] = "plan" =>
    scores # <<>> /\ \E i \in DOMAIN FirstRecords : Gives(a, i) /\ Lowered(i)
\* Two sessions under way have the same behaviour only after all as good were handed out.
InTurn ==
  \A a, b \in Attempt, i \in DOMAIN FirstRecords :
    a # b /\ sess[a] = "plan" /\ sess[b] = "plan" /\ Gives(a, i) /\ Gives(b, i) =>
      \A j \in DOMAIN FirstRecords :
        FirstRecords[i].Score <= FirstRecords[j].Score => Lowered(j)
TurnInv == counted = {} => HandedOut /\ MarkedDown /\ InTurn

LEMMA InitTurn == Init => TurnInv
  BY DEF Init, InitWith, TurnInv, HandedOut, MarkedDown, InTurn

LEMMA FirstFacts ==
  /\ FirstRecords \in Seq(Fitting) /\ FirstRecords # <<>>
  /\ \A i \in DOMAIN FirstRecords : /\ FirstRecords[i].Mode \in 0..4
                                    /\ FirstRecords[i].Score \in Int
  /\ \A i, j \in DOMAIN FirstRecords :
       FirstRecords[i].Mode = FirstRecords[j].Mode /\ FirstRecords[i].Index = FirstRecords[j].Index
         => i = j
<1>1. FirstRecords \in Seq(Fitting) /\ FirstRecords # <<>>
  BY RecordsFit DEF FirstRecords
<1>2. \A i \in DOMAIN FirstRecords : FirstRecords[i] \in Fitting
  BY <1>1, ElementOfSeq, LenProperties
<1>3. \A i \in DOMAIN FirstRecords : FirstRecords[i].Mode \in 0..4 /\ FirstRecords[i].Score \in Int
  BY <1>2 DEF Fitting
<1> QED BY <1>1, <1>3, FirstTable DEF Table

\* Recommand takes a point off one position and leaves the rest of the records alone.
LEMMA RecommandMarks ==
  ASSUME NEW s \in Seq(Fitting), s # <<>>
  PROVE  /\ DOMAIN Recommand(s) = DOMAIN s /\ Recommand(s) # <<>> /\ Best(s) \in DOMAIN s
         /\ \A i \in DOMAIN s : /\ Recommand(s)[i].Mode = s[i].Mode
                                /\ Recommand(s)[i].Index = s[i].Index
                                /\ s[i].Score \in Int
                                /\ Recommand(s)[i].Score =
                                     IF i = Best(s) THEN s[i].Score - 1 ELSE s[i].Score
         /\ \A j \in DOMAIN s : s[j].Score <= s[Best(s)].Score
<1>1. /\ Best(s) \in 1..Len(s) /\ s[Best(s)] \in Fitting
      /\ \A j \in 1..Len(s) : s[j].Score <= s[Best(s)].Score
  BY BestFound
<1>2. Len(s) \in Nat /\ DOMAIN s = 1..Len(s) /\ \A i \in 1..Len(s) : s[i] \in Fitting
  BY LenProperties, ElementOfSeq
<1> DEFINE m == [s[Best(s)] EXCEPT !.Score = @ - 1]
<1>3. /\ m.Mode = s[Best(s)].Mode /\ m.Index = s[Best(s)].Index /\ m.Score = s[Best(s)].Score - 1
      /\ s[Best(s)].Score \in Int
  BY <1>1 DEF Fitting
<1>4. Recommand(s) = [s EXCEPT ![Best(s)] = m]
  BY Zenon DEF Recommand
<1> HIDE DEF m
<1>5. /\ DOMAIN Recommand(s) = DOMAIN s /\ Recommand(s)[Best(s)] = m
      /\ \A i \in DOMAIN s : i # Best(s) => Recommand(s)[i] = s[i]
  BY <1>1, <1>2, <1>4
<1>6. Recommand(s) # <<>>
  BY <1>1, <1>2, <1>5
<1>7. \A i \in DOMAIN s : s[i].Score \in Int
  BY <1>2 DEF Fitting
<1> QED BY <1>1, <1>2, <1>3, <1>5, <1>6, <1>7

\* Only Analyse, HandleReport and Clean touch the records, and only Analyse makes a plan.
LEMMA RecordsQuiet ==
  ASSUME TypeOK, [Next]_vars, ~Clean, \A a \in Attempt : ~Analyse(a) /\ ~HandleReport(a)
  PROVE  /\ UNCHANGED <<scores, counted>>
         /\ \A b \in Attempt : sess'[b] = "plan" => sess[b] = "plan"
<1>1. CASE UNCHANGED <<sess, scores, counted>>
  BY <1>1
<1>2. ASSUME NEW a \in Attempt, HandleVisitor(a) \/ SendSid(a) \/ WaitTimesOut(a) \/ EndSession(a)
      PROVE  /\ UNCHANGED <<scores, counted>>
             /\ \A b \in Attempt : sess'[b] = "plan" => sess[b] = "plan"
  BY <1>2 DEF HandleVisitor, SendSid, WaitTimesOut, EndSession, TypeOK
<1> QED
  BY <1>1, <1>2, ZenonT(60) DEF Next, vars, sessVars, ListenClient, CloseClient, PassSid, PreCheck,
     Session, HandleClient, HandlerRuns, Respond, Exchange, ExchangeReturns, Punch, SendProbes,
     ReceiveProbe, ReceiveResponse, PunchFails, DispatchSend

LEMMA TurnStep ==
  TypeOK /\ LaneInv /\ PlanFits /\ ScoresFit /\ TurnInv /\ [Next]_vars => TurnInv'
<1> SUFFICES ASSUME TypeOK, LaneInv, PlanFits, ScoresFit, TurnInv, [Next]_vars, counted' = {}
             PROVE  HandedOut' /\ MarkedDown' /\ InTurn'
  BY DEF TurnInv
<1>a. FirstRecords' = FirstRecords
  BY NatFixed DEF FirstRecords, Feature
<1>b. \A d \in Attempt, i \in DOMAIN FirstRecords : Gives(d, i) => Gives(d, i)'
  BY <1>a, PlanStays, FirstFacts DEF Gives
<1>c. \A b \in Attempt : sess[b] = "plan" => plan'[b] = plan[b]
  BY PlanStays DEF PlanFits, PlanOf
<1>1. CASE ~Clean /\ \A a \in Attempt : ~Analyse(a) /\ ~HandleReport(a)
  <2>1. /\ UNCHANGED <<scores, counted>>
        /\ \A b \in Attempt : sess'[b] = "plan" => sess[b] = "plan" /\ plan'[b] = plan[b]
    BY <1>1, <1>c, RecordsQuiet
  <2>2. HandedOut /\ MarkedDown /\ InTurn
    BY <2>1 DEF TurnInv
  <2>3. \A i \in DOMAIN FirstRecords : Lowered(i)' = Lowered(i)
    BY <1>a, <2>1 DEF Lowered
  <2>4. HandedOut'
    BY <1>a, <1>b, <2>1, <2>2, <2>3 DEF HandedOut
  <2>5. MarkedDown'
    BY <1>a, <1>b, <2>1, <2>2, <2>3 DEF MarkedDown
  <2>6. InTurn'
    BY <1>a, <2>1, <2>2, <2>3 DEF InTurn, Gives
  <2> QED BY <2>4, <2>5, <2>6
<1>2. CASE Clean
  BY <1>2 DEF Clean, HandedOut, MarkedDown, InTurn
<1>3. ASSUME NEW a \in Attempt, HandleReport(a) PROVE HandedOut' /\ MarkedDown' /\ InTurn'
  <2>1. UNCHANGED <<scores, counted, sess, plan>>
    BY <1>3 DEF HandleReport
  <2> QED BY <1>a, <2>1 DEF TurnInv, HandedOut, MarkedDown, InTurn, Gives, Lowered
<1>4. ASSUME NEW a \in Attempt, Analyse(a) PROVE HandedOut' /\ MarkedDown' /\ InTurn'
  <2> DEFINE old == IF scores = <<>> THEN FirstRecords ELSE scores
  <2>0. PICK best : best = Best(old)
    OBVIOUS
  <2>1. HandedOut /\ MarkedDown /\ InTurn
    BY <1>4 DEF TurnInv, Analyse
  <2>2. old \in Seq(Fitting) /\ old # <<>>
    BY FirstFacts DEF ScoresFit
  <2>3. /\ DOMAIN old = DOMAIN FirstRecords
        /\ \A i \in DOMAIN FirstRecords :
             /\ old[i].Mode = FirstRecords[i].Mode /\ old[i].Index = FirstRecords[i].Index
             /\ old[i].Score <= FirstRecords[i].Score
             /\ old[i].Score < FirstRecords[i].Score => \E d \in Attempt : Gives(d, i)
    BY <2>1, FirstFacts DEF HandedOut, Lowered
  <2>4. /\ scores' = Recommand(old) /\ sess' = [sess EXCEPT ![a] = "plan"]
        /\ \E r : plan' = [plan EXCEPT ![a] = [mode |-> old[best].Mode, index |-> old[best].Index,
                                               resp |-> r]]
    BY <1>4, <2>0, Zenon DEF Analyse, FirstRecords
  <2> HIDE DEF old
  <2>5. /\ DOMAIN scores' = DOMAIN old /\ scores' # <<>> /\ best \in DOMAIN old
        /\ \A i \in DOMAIN old : /\ scores'[i].Mode = old[i].Mode /\ scores'[i].Index = old[i].Index
                                 /\ old[i].Score \in Int
                                 /\ scores'[i].Score = IF i = best THEN old[i].Score - 1
                                                                   ELSE old[i].Score
        /\ \A j \in DOMAIN old : old[j].Score <= old[best].Score
    BY <2>0, <2>2, <2>4, RecommandMarks
  <2>6. plan'[a].mode = old[best].Mode /\ plan'[a].index = old[best].Index
    BY <2>4 DEF TypeOK
  <2>7. Gives(a, best)'
    BY <1>a, <2>3, <2>5, <2>6 DEF Gives
  <2>8. \A i \in DOMAIN FirstRecords :
          Lowered(i)' <=> i = best \/ old[i].Score < FirstRecords[i].Score
    BY <1>a, <2>3, <2>5, FirstFacts DEF Lowered
  <2>9. HandedOut'
    BY <1>a, <1>b, <2>3, <2>5, <2>7, <2>8, FirstFacts DEF HandedOut
  <2>10. \A b \in Attempt : b # a /\ sess'[b] = "plan" =>
           sess[b] = "plan" /\ scores # <<>> /\ plan'[b] = plan[b]
    BY <1>c, <2>1, <2>4 DEF TypeOK, MarkedDown
  <2>11. \A i \in DOMAIN FirstRecords :
           Lowered(i) /\ scores # <<>> => old[i].Score < FirstRecords[i].Score
    BY DEF Lowered, old
  <2>12. MarkedDown'
    <3> SUFFICES ASSUME NEW b \in Attempt, sess'[b] = "plan"
                 PROVE  \E i \in DOMAIN FirstRecords : Gives(b, i)' /\ Lowered(i)'
      BY <1>a, <2>5 DEF MarkedDown
    <3>1. CASE b = a
      BY <2>3, <2>5, <2>7, <2>8, <3>1
    <3>2. CASE b # a
      BY <1>b, <2>1, <2>8, <2>10, <2>11, <3>2 DEF MarkedDown
    <3> QED BY <3>1, <3>2
  <2>13. ASSUME NEW b \in Attempt, b # a, sess'[b] = "plan", NEW i \in DOMAIN FirstRecords,
                Gives(a, i)', Gives(b, i)', NEW j \in DOMAIN FirstRecords,
                FirstRecords[i].Score <= FirstRecords[j].Score
         PROVE  Lowered(j)'
    <3>1. i = best
      BY <1>a, <2>3, <2>5, <2>7, <2>13, FirstFacts DEF Gives
    <3>2. PICK k \in DOMAIN FirstRecords : Gives(b, k) /\ Lowered(k)
      BY <2>1, <2>10, <2>13 DEF MarkedDown
    <3>3. k = i
      BY <1>a, <1>b, <2>13, <3>2, FirstFacts DEF Gives
    <3>4. old[best].Score < FirstRecords[best].Score
      BY <2>10, <2>11, <2>13, <3>1, <3>2, <3>3
    <3>5. old[j].Score < FirstRecords[j].Score
      BY <2>3, <2>5, <2>13, <3>1, <3>4, FirstFacts
    <3> QED BY <2>8, <3>5
  <2>14. ASSUME NEW b \in Attempt, NEW c \in Attempt, b # c, b # a, c # a,
                sess'[b] = "plan", sess'[c] = "plan", NEW i \in DOMAIN FirstRecords,
                Gives(b, i)', Gives(c, i)', NEW j \in DOMAIN FirstRecords,
                FirstRecords[i].Score <= FirstRecords[j].Score
         PROVE  Lowered(j)'
    <3>1. Gives(b, i) /\ Gives(c, i) /\ sess[b] = "plan" /\ sess[c] = "plan" /\ scores # <<>>
      BY <1>a, <2>10, <2>14 DEF Gives
    <3>2. Lowered(j)
      BY <2>1, <2>14, <3>1 DEF InTurn
    <3> QED BY <2>8, <2>11, <3>1, <3>2
  <2>15. InTurn'
    BY <1>a, <2>13, <2>14 DEF InTurn
  <2> QED BY <2>9, <2>12, <2>15
<1> QED BY <1>1, <1>2, <1>3, <1>4

-----------------------------------------------------------------------------
\* As long as no success was counted, two sessions under way between the same NATs are
\* told the same behaviour only after every behaviour with as high a first score was
\* told to some session: Recommand goes through the table before it repeats itself.
TriedInTurn ==
  counted = {} =>
    \A a, b \in Attempt, i, j \in DOMAIN FirstRecords :
      a # b /\ sess[a] = "plan" /\ sess[b] = "plan" /\ Gives(a, i) /\ Gives(b, i) =>
        (FirstRecords[i].Score <= FirstRecords[j].Score => \E d \in Attempt : Gives(d, j))

\* For any number of attempts and any NATs: a session repeats what another one is trying
\* only when nothing as good is left to try.
THEOREM RetriesInTurn == Spec => []TriedInTurn
<1> DEFINE Inv == TypeOK /\ LaneInv /\ PlanFits /\ ScoresFit /\ TurnInv
<1>1. Inv => TriedInTurn
  <2> SUFFICES ASSUME Inv, counted = {}, NEW a \in Attempt, NEW b \in Attempt,
                      NEW i \in DOMAIN FirstRecords, NEW j \in DOMAIN FirstRecords,
                      a # b, sess[a] = "plan", sess[b] = "plan", Gives(a, i), Gives(b, i),
                      FirstRecords[i].Score <= FirstRecords[j].Score
               PROVE  \E d \in Attempt : Gives(d, j)
    BY DEF TriedInTurn
  <2>1. scores # <<>> /\ Lowered(j)
    BY DEF TurnInv, MarkedDown, InTurn
  <2> QED BY <2>1 DEF TurnInv, HandedOut
<1>2. Init => Inv
  BY InitType, InitLane, InitPlan, InitTurn
<1>3. Inv /\ [Next]_vars => Inv'
  BY TypeStep, LaneStep, PlanStep, TurnStep
<1> QED BY <1>1, <1>2, <1>3, PTL DEF Spec

\* Up to three attempts that share one pair of NATs always try different behaviours while
\* none has worked: the shortest of the tables, mode 4, has three.
THEOREM ThreeTryDifferent ==
  ASSUME IsFiniteSet(Attempt), Cardinality(Attempt) <= 3
  PROVE  Spec => []SessionsTryDifferent
<1>1. ASSUME NEW a \in Attempt, NEW b \in Attempt, NEW c \in Attempt, NEW d \in Attempt,
             a # b, a # c, a # d, b # c, b # d, c # d
      PROVE  FALSE
  <2>0. b \notin {a} /\ c \notin {a} \union {b} /\ d \notin {a} \union {b} \union {c}
    BY <1>1
  <2>1. IsFiniteSet({a}) /\ Cardinality({a}) = 1
    BY FS_Singleton
  <2>2. ASSUME NEW S, NEW x, IsFiniteSet(S), x \notin S
        PROVE  IsFiniteSet(S \union {x}) /\ Cardinality(S \union {x}) = Cardinality(S) + 1
    BY <2>2, FS_AddElement
  <2>3. IsFiniteSet({a} \union {b}) /\ Cardinality({a} \union {b}) = 2
    BY <2>0, <2>1, <2>2
  <2>4. IsFiniteSet({a} \union {b} \union {c}) /\ Cardinality({a} \union {b} \union {c}) = 3
    BY <2>0, <2>2, <2>3
  <2>5. Cardinality({a} \union {b} \union {c} \union {d}) = 4
    BY <2>0, <2>2, <2>4
  <2>6. Cardinality({a} \union {b} \union {c} \union {d}) <= Cardinality(Attempt)
    BY FS_Subset
  <2>7. Cardinality(Attempt) \in Nat
    BY FS_CardinalityType
  <2> QED BY <2>5, <2>6, <2>7
<1> DEFINE Inv == TypeOK /\ LaneInv /\ PlanFits /\ ScoresFit /\ TurnInv
<1>2. Inv => SessionsTryDifferent
  <2> SUFFICES ASSUME Inv, counted = {}, NEW a \in Attempt, NEW b \in Attempt, a # b,
                      sess[a] = "plan", sess[b] = "plan",
                      plan[a].mode = plan[b].mode, plan[a].index = plan[b].index
               PROVE  FALSE
    BY DEF SessionsTryDifferent
  <2>1. HandedOut /\ MarkedDown /\ InTurn
    BY DEF TurnInv
  <2>2. PICK i \in DOMAIN FirstRecords : Gives(a, i) /\ scores # <<>>
    BY <2>1 DEF MarkedDown
  <2>3. Gives(b, i)
    BY <2>2 DEF Gives
  <2>4. PICK top \in Int, x \in DOMAIN FirstRecords, y \in DOMAIN FirstRecords,
             z \in DOMAIN FirstRecords :
          /\ \A j \in DOMAIN FirstRecords : FirstRecords[j].Score <= top
          /\ x < y /\ y < z /\ \A j \in {x, y, z} : FirstRecords[j].Score = top
    <3>1. PICK top \in Int : \E modes : Table(FirstRecords, modes, top) /\ ThreeAt(FirstRecords, top)
      BY FirstTable
    <3> QED BY <3>1 DEF Table, ThreeAt
  <2>5. \A j \in {x, y, z} : \E d \in Attempt : Gives(d, j)
    <3>1. \A j \in {x, y, z} : Lowered(j)
      BY <2>1, <2>2, <2>3, <2>4 DEF InTurn
    <3> QED BY <2>1, <2>2, <2>4, <3>1 DEF HandedOut
  <2>6. \A j, k \in DOMAIN FirstRecords, d \in Attempt : Gives(d, j) /\ Gives(d, k) => j = k
    BY FirstFacts DEF Gives
  <2>7. x # y /\ x # z /\ y # z
    <3>1. x \in Int /\ y \in Int /\ z \in Int
      <4>1. DOMAIN FirstRecords = 1..Len(FirstRecords)
        BY FirstFacts, LenProperties
      <4> QED BY <4>1
    <3> QED BY <2>4, <3>1
  <2>8. PICK j \in {x, y, z}, k \in {x, y, z} : j # k /\ j # i /\ k # i
    BY <2>7
  <2>9. PICK c \in Attempt, d \in Attempt : Gives(c, j) /\ Gives(d, k)
    BY <2>5
  <2>10. c # d /\ c # a /\ c # b /\ d # a /\ d # b
    BY <2>2, <2>3, <2>4, <2>6, <2>8, <2>9
  <2> QED BY <1>1, <2>10
<1>3. Init => Inv
  BY InitType, InitLane, InitPlan, InitTurn
<1>4. Inv /\ [Next]_vars => Inv'
  BY TypeStep, LaneStep, PlanStep, TurnStep
<1> QED BY <1>2, <1>3, <1>4, PTL DEF Spec
=============================================================================
