------------------------------- MODULE NatHole ------------------------------
(***************************************************************************)
(* Hole punching for one xtcp proxy: the visitor's attempt                 *)
(* (XTCPVisitor.makeNatHole), the session frps keeps for it                *)
(* (nathole.Controller), the goroutine of the proxy in frps that hands the *)
(* session id to the proxy's owner (server/proxy/xtcp.go), the owner's     *)
(* side (client/proxy/xtcp.go), the lanes their requests are answered on   *)
(* (pkg/transport/message.go) and the probes of nathole.MakeHole.          *)
(*                                                                         *)
(* An attempt stands for its transaction and its session id: both are      *)
(* drawn at random for every attempt.  The two NATs are chosen at the      *)
(* start; all visitors are behind the same one, so that their sessions     *)
(* share one analysis key.  Time is left out: a timeout may come at any    *)
(* moment of its wait.                                                     *)
(***************************************************************************)
EXTENDS NatAnalysis

CONSTANTS
  Attempt,   \* attempts of visitors, each with its transaction
  NatKind,   \* the NATs a side may be behind: [addrs, local]
  MaxReg,    \* bound: how often the proxy is registered
  Followed   \* bound: the attempts that are followed beyond the answers of frps

\* A side is seen at two addresses or more (Prepare and ClassifyNATFeature refuse
\* fewer), and a port is a port.
ASSUME NatAssumption ==
  \A n \in NatKind :
    /\ n.addrs \in Seq(Range(n.addrs)) /\ Len(n.addrs) > 1
    /\ \A i \in DOMAIN n.addrs : n.addrs[i].port \in 1..MaxPort

Side == {"c", "v"}
Other(s) == IF s = "c" THEN "v" ELSE "c"
\* The lanes of the Do calls of an attempt: ExchangeInfo of the visitor and of the owner.
Lane == Attempt \X Side

VARIABLES
  nat,      \* nat[s]: the NAT of the owner ("c") and of the visitors ("v")
  regs,     \* registrations of the proxy so far
  cfg,      \* Controller.clientCfgs: the registration in force, 0 if none
  recv,     \* recv[i]: the sid, if any, that the goroutine of registration i is passing on
  stage,    \* stage[s][a]: how far the visitor and the owner are with attempt a
  req,      \* requests of an attempt that frps has not handled yet
  sess,     \* sess[a]: Controller.sessions and where HandleVisitor is
  notified, \* session.notifyCh holds a value
  plan,     \* plan[a]: the recommended mode and index and both answers
  pending,  \* pending[a]: sides HandleVisitor has yet to answer
  scores,   \* Analyzer.records of the one key, <<>> if there are none
  lane,     \* lane[l]: the channel of a Do call
  answer,   \* answer[l]: a NatHoleResp a message handler has found lane l for
  probes,   \* probes[a]: detect messages in the network, [to, response]
  counted   \* attempts whose success ReportSuccess has counted

ctlVars  == <<regs, cfg, recv>>
sessVars == <<sess, notified, plan, pending, scores, counted>>
laneVars == <<lane, answer>>
vars == <<nat, ctlVars, stage, req, sessVars, laneVars, probes>>

NoPlan == [mode |-> 9]
Feature(s) == ClassifyNATFeature(nat[s].addrs, nat[s].local)

\* The attempts in "over" have already failed in their PreCheck.
InitWith(over) ==
  /\ nat \in [Side -> NatKind]
  /\ regs = 0 /\ cfg = 0 /\ recv = [i \in 1..MaxReg |-> {}]
  /\ stage = [s \in Side |-> [a \in Attempt |->
                 IF s = "v" /\ a \in over THEN "failed" ELSE "none"]]
  /\ req = {}
  /\ sess = [a \in Attempt |-> "none"] /\ notified = {}
  /\ plan = [a \in Attempt |-> NoPlan] /\ pending = [a \in Attempt |-> {}]
  /\ scores = <<>> /\ counted = {}
  /\ lane = [l \in Lane |-> "none"] /\ answer = [l \in Lane |-> "none"]
  /\ probes = [a \in Attempt |-> {}]
Init == InitWith({})

-----------------------------------------------------------------------------
\* transporterImpl.  A lane is open from registerMsgChan until the deferred
\* unregister and close; in between its channel holds the answer, if one came.
DoSend(l, m) ==
  /\ lane[l] = "none"
  /\ lane' = [lane EXCEPT ![l] = "open"]
  /\ req' = req \union {m}
DoReturn(l, results) ==
  /\ lane[l] \in results
  /\ lane' = [lane EXCEPT ![l] = "closed"]

\* An answer of frps: lost if the control it is for has ended, else the message
\* handler of that client looks the lane up, and has it or finds none.
Answer(l, m) ==
  \E lost \in BOOLEAN :
    answer' = [answer EXCEPT ![l] = IF lost \/ lane[l] = "closed" THEN "none" ELSE m]
\* DispatchWithType holds the lock for the lookup only.  The send has room, or
\* panics on a channel closed meanwhile and PanicToError makes it an error; on a
\* full channel it would wait for the Do to end.
DispatchSend(l) ==
  /\ answer[l] # "none"
  /\ lane[l] \in {"open", "closed"}
  /\ answer' = [answer EXCEPT ![l] = "none"]
  /\ lane' = [lane EXCEPT ![l] = IF @ = "open" THEN answer[l] ELSE @]
  /\ UNCHANGED <<nat, ctlVars, stage, req, sessVars, probes>>

-----------------------------------------------------------------------------
\* The xtcp proxy in frps: Run registers with ListenClient and starts the
\* goroutine that serves sidCh, Close takes the name out.  The goroutine goes on:
\* closeCh is never made, so that closing it panics and the panic is swallowed.
ListenClient ==
  /\ cfg = 0 /\ regs < MaxReg
  /\ regs' = regs + 1 /\ cfg' = regs + 1
  /\ UNCHANGED <<nat, recv, stage, req, sessVars, laneVars, probes>>
CloseClient ==
  /\ cfg # 0
  /\ cfg' = 0
  /\ UNCHANGED <<nat, regs, recv, stage, req, sessVars, laneVars, probes>>

\* The goroutine got the sid; it needs a work connection to pass it on, and both
\* getting it and writing to it may fail.
PassSid(i) ==
  /\ \E a \in recv[i], r \in {"none", "sid"} : stage' = [stage EXCEPT !["c"][a] = r]
  /\ recv' = [recv EXCEPT ![i] = {}]
  /\ UNCHANGED <<nat, regs, cfg, req, sessVars, laneVars, probes>>

-----------------------------------------------------------------------------
\* makeNatHole begins with PreCheck, an exchange that only reads the table: it is
\* refused without a registration or for a user who is not allowed, and may time out.
PreCheck(a) ==
  /\ stage["v"][a] = "none"
  /\ \/ cfg # 0 /\ stage' = [stage EXCEPT !["v"][a] = "prepare"]
     \/ stage' = [stage EXCEPT !["v"][a] = "failed"]
  /\ UNCHANGED <<nat, ctlVars, req, sessVars, laneVars, probes>>

\* Prepare asks the STUN server and may fail; then the message with the addresses
\* is sent and the answer awaited.
Exchange(s, a) ==
  /\ stage[s][a] = [v |-> "prepare", c |-> "sid"][s]
  /\ \/ /\ DoSend(<<a, s>>, <<a, s>>)
        /\ stage' = [stage EXCEPT ![s][a] = "exchange"]
     \/ /\ stage' = [stage EXCEPT ![s][a] = "failed"]
        /\ UNCHANGED <<lane, req>>
  /\ UNCHANGED <<nat, ctlVars, sessVars, answer, probes>>
ExchangeReturns(s, a) ==
  /\ stage[s][a] = "exchange"
  /\ \/ /\ DoReturn(<<a, s>>, {"ok"})
        /\ stage' = [stage EXCEPT ![s][a] = "delay"]
     \/ /\ DoReturn(<<a, s>>, {"ok", "err", "open"})
        /\ stage' = [stage EXCEPT ![s][a] = "failed"]
  /\ UNCHANGED <<nat, ctlVars, req, sessVars, answer, probes>>

-----------------------------------------------------------------------------
\* HandleVisitor: the session enters the table under the lock, if the proxy is
\* there and the key is signed.
HandleVisitor(a) ==
  /\ <<a, "v">> \in req
  /\ req' = req \ {<<a, "v">>}
  /\ \/ /\ cfg # 0
        /\ sess' = [sess EXCEPT ![a] = "new"]
        /\ plan' = [plan EXCEPT ![a] = [mode |-> 9, cfg |-> cfg]]
        /\ UNCHANGED answer
     \/ /\ Answer(<<a, "v">>, "err")                 \* unknown proxy or wrong key
        /\ UNCHANGED <<sess, plan>>
  /\ UNCHANGED <<nat, ctlVars, stage, notified, pending, scores, counted, lane, probes>>
SendSid(a) ==
  /\ sess[a] = "new" /\ recv[plan[a].cfg] = {}
  /\ recv' = [recv EXCEPT ![plan[a].cfg] = {a}]
  /\ sess' = [sess EXCEPT ![a] = "wait"]
  /\ UNCHANGED <<nat, regs, cfg, stage, req, notified, plan, pending, scores, counted,
                 laneVars, probes>>
\* HandleClient: late for a session that is gone, else it notifies it.
HandleClient(a) ==
  /\ <<a, "c">> \in req
  /\ req' = req \ {<<a, "c">>}
  /\ notified' = notified \union (IF sess[a] \in {"none", "gone"} THEN {} ELSE {a})
  /\ UNCHANGED <<nat, ctlVars, stage, sess, plan, pending, scores, counted, laneVars, probes>>

\* The session was notified: analysis recommends a behaviour and both sides are
\* to be answered.  Its errors are those of ClassifyNATFeature, and Prepare has
\* classified the same addresses before they were sent: no answer is an error.
Analyse(a) ==
  /\ sess[a] = "wait" /\ a \in notified
  /\ \E old \in {IF scores = <<>> THEN NewMakeHoleRecords(Feature("c"), Feature("v"))
                                 ELSE scores} :
       \E best \in {old[Best(old)]} :
         /\ scores' = Recommand(old)
         /\ plan' = [plan EXCEPT ![a] =
              [mode |-> best.Mode, index |-> best.Index,
               resp |-> Plan(best.Mode, best.Index, nat["c"].addrs, Feature("c"),
                             nat["v"].addrs, Feature("v"))]]
  /\ notified' = notified \ {a}
  /\ sess' = [sess EXCEPT ![a] = "plan"]
  /\ pending' = [pending EXCEPT ![a] = Side]
  /\ UNCHANGED <<nat, ctlVars, stage, req, counted, laneVars, probes>>
\* NatHoleTimeout: the session ends without an answer.
WaitTimesOut(a) ==
  /\ sess[a] = "wait"
  /\ sess' = [sess EXCEPT ![a] = "gone"]
  /\ UNCHANGED <<nat, ctlVars, stage, req, notified, plan, pending, scores, counted,
                 laneVars, probes>>
\* The two goroutines that send the answers, in either order: the sender's waits.
RespondTwice(a, s) ==
  /\ sess[a] = "plan" /\ s \in pending[a]
  /\ Answer(<<a, s>>, "ok")
  /\ UNCHANGED <<nat, ctlVars, stage, req, sessVars, lane, probes>>
Respond(a, s) ==
  /\ sess[a] = "plan" /\ s \in pending[a]
  /\ pending' = [pending EXCEPT ![a] = @ \ {s}]
  /\ Answer(<<a, s>>, "ok")
  /\ UNCHANGED <<nat, ctlVars, stage, req, sess, notified, plan, scores, counted, lane, probes>>
\* Both are sent and the reports have had their time: the session is deleted.
EndSession(a) ==
  /\ sess[a] = "plan" /\ pending[a] = {}
  /\ sess' = [sess EXCEPT ![a] = "gone"]
  /\ UNCHANGED <<nat, ctlVars, stage, req, notified, plan, pending, scores, counted,
                 laneVars, probes>>
\* HandleReport of a success: counted while the session is in the table.
HandleReport(a) ==
  /\ <<a, "report">> \in req
  /\ req' = req \ {<<a, "report">>}
  /\ IF sess[a] = "plan" /\ scores # <<>>
       THEN /\ scores' = ReportSuccess(scores, plan[a].mode, plan[a].index)
            /\ counted' = counted \union {a}
       ELSE UNCHANGED <<scores, counted>>
  /\ UNCHANGED <<nat, ctlVars, stage, sess, notified, plan, pending, laneVars, probes>>
\* CleanWorker: the records were not used for analysisDataReserveDuration, days
\* longer than any session lives.
Clean ==
  /\ scores # <<>> /\ \A a \in Attempt : sess[a] \in {"none", "gone"}
  /\ scores' = <<>> /\ counted' = {}
  /\ UNCHANGED <<nat, ctlVars, stage, req, sess, notified, plan, pending, laneVars, probes>>

-----------------------------------------------------------------------------
Told(s, a) == plan[a].resp[s]

\* MakeHole: after its delay a side sends its detect messages; the network may
\* lose them, a low TTL is meant to.
SendProbes(s, a) ==
  /\ stage[s][a] = "delay" /\ a \in Followed
  /\ stage' = [stage EXCEPT ![s][a] = "probing"]
  /\ \E reach \in BOOLEAN :
       probes' = [probes EXCEPT ![a] =
                    @ \union (IF reach THEN {[to |-> Other(s), response |-> FALSE]} ELSE {})]
  /\ UNCHANGED <<nat, ctlVars, req, sessVars, laneVars>>

\* The end of MakeHole for a side: nothing reads its detect messages any more.
StopsReading(s, a, sent) ==
  probes' = [probes EXCEPT ![a] = {m \in @ \union sent : m.to # s}]
\* What follows: the owner reports success.
Made(s, a) ==
  /\ stage' = [stage EXCEPT ![s][a] = "made"]
  /\ req' = req \union (IF s = "c" THEN {<<a, "report">>} ELSE {})

\* waitDetectMessage at a receiver: a probe is answered and makes the hole.  A
\* receiver that listens on many ports hands the result to a channel nobody may
\* be receiving from yet: then that port is closed again, though it has answered.
ReceiveProbe(s, a) ==
  /\ stage[s][a] = "probing" /\ Told(s, a).Role = "receiver"
  /\ \E m \in probes[a] : m.to = s /\ ~m.response
  /\ LET sent == {[to |-> Other(s), response |-> TRUE]}
     IN  \/ Made(s, a) /\ StopsReading(s, a, sent)
         \/ /\ Told(s, a).ListenRandomPorts > 0
            /\ probes' = [probes EXCEPT ![a] = @ \union sent]
            /\ UNCHANGED <<stage, req>>
  /\ UNCHANGED <<nat, ctlVars, sessVars, laneVars>>
\* waitDetectMessage at a sender: it waits for a response.
ReceiveAnyMessage(s, a) ==
  /\ stage[s][a] = "probing" /\ Told(s, a).Role = "sender"
  /\ \E m \in probes[a] : m.to = s
  /\ Made(s, a) /\ StopsReading(s, a, {})
  /\ UNCHANGED <<nat, ctlVars, sessVars, laneVars>>
ReceiveResponse(s, a) ==
  /\ stage[s][a] = "probing" /\ Told(s, a).Role = "sender"
  /\ \E m \in probes[a] : m.to = s /\ m.response
  /\ Made(s, a) /\ StopsReading(s, a, {})
  /\ UNCHANGED <<nat, ctlVars, sessVars, laneVars>>
\* The read times out; a failure is reported too, which changes nothing.
PunchFails(s, a) ==
  /\ stage[s][a] = "probing"
  /\ stage' = [stage EXCEPT ![s][a] = "failed"]
  /\ StopsReading(s, a, {})
  /\ UNCHANGED <<nat, ctlVars, req, sessVars, laneVars>>

-----------------------------------------------------------------------------
Punch(s, a) ==
  \/ SendProbes(s, a) \/ ReceiveProbe(s, a) \/ ReceiveResponse(s, a) \/ PunchFails(s, a)
\* What is left of HandleVisitor once the sid is sent.
HandlerRuns(a) ==
  Analyse(a) \/ WaitTimesOut(a) \/ (\E s \in Side : Respond(a, s)) \/ EndSession(a)
Session(a) ==
  HandleVisitor(a) \/ SendSid(a) \/ HandleClient(a) \/ HandlerRuns(a) \/ HandleReport(a)
Next ==
  \/ ListenClient \/ CloseClient \/ Clean
  \/ \E i \in 1..MaxReg : PassSid(i)
  \/ \E a \in Attempt : PreCheck(a) \/ Session(a)
  \/ \E s \in Side, a \in Attempt : Exchange(s, a) \/ ExchangeReturns(s, a) \/ Punch(s, a)
  \/ \E l \in Lane : DispatchSend(l)

\* The goroutines of frps run, its timers fire, and getting a work connection for
\* a sid succeeds or fails within UserConnTimeout.
Fairness ==
  /\ \A i \in 1..MaxReg : WF_vars(PassSid(i))
  /\ \A a \in Attempt :
       /\ SF_vars(SendSid(a))
       /\ WF_vars(HandlerRuns(a))

Spec == Init /\ [][Next]_vars /\ Fairness

-----------------------------------------------------------------------------
\* The answers of one session fit together: one side probes and the other
\* answers, in the mode's order (the comments in analysis.go: in mode 1 a hard NAT
\* sends, in mode 2 it receives, in mode 4 regular ports send), the receiver
\* listens for longer than the sender waits before it probes, and the ports to
\* probe are ports.
PlanIsCoherent ==
  \A a \in Attempt : plan[a].mode # 9 =>
    LET c == Told("c", a)
        v == Told("v", a)
        sender == IF c.Role = "sender" THEN "c" ELSE "v"
    IN  /\ {c.Role, v.Role} = {"sender", "receiver"}
        /\ Told(sender, a).SendDelayMs < Told(Other(sender), a).ReadTimeoutMs
        /\ Feature("c").NatType # Feature("v").NatType =>
             /\ c.Mode = 1 => Feature(sender).NatType = "HardNAT"
             /\ c.Mode = 2 => Feature(sender).NatType = "EasyNAT"
        /\ c.Mode = 4 => Feature(sender).RegularPortsChange
        /\ \A r \in Range(c.CandidatePorts) \union Range(v.CandidatePorts) :
             1 <= r.From /\ r.From <= r.To /\ r.To <= MaxPort

\* Sessions between the same NATs that are under way together try different
\* behaviours, as long as none of them is known to have worked: Recommand marks a
\* behaviour down when it hands it out, not when it fails.
SessionsTryDifferent ==
  counted = {} =>
    \A a, b \in Attempt :
      a # b /\ sess[a] = "plan" /\ sess[b] = "plan" =>
        <<plan[a].mode, plan[a].index>> # <<plan[b].mode, plan[b].index>>

\* A sender that has made the hole was answered by a receiver that has made it,
\* where the receiver listens on one port: a stray, late or lost message never
\* lets one side alone believe in the hole by being the sender.
PunchAgrees ==
  \A a \in Attempt, s \in Side :
    stage[s][a] = "made" /\ Told(s, a).Role = "sender" /\ Told(s, a).Mode \in {0, 1, 3}
      => stage[Other(s)][a] = "made"

\* The message handler of a client never waits on a lane: there is room for the
\* answer it found a lane for, or the lane is closed and the send fails at once.
DispatchNeverBlocks ==
  \A l \in Lane : answer[l] # "none" => lane[l] \in {"open", "closed"}

=============================================================================
