---------------------------- MODULE NatAnalysis -----------------------------
(***************************************************************************)
(* What frps works out about two NATs: the classification of a side by the *)
(* addresses a STUN server saw (pkg/nathole/classify.go), the behaviours   *)
(* it may tell the two sides to try, with their scores                     *)
(* (pkg/nathole/analysis.go), and the plan the two answers carry           *)
(* (Controller.analysis in pkg/nathole/controller.go).                     *)
(* An address is [ip, port]; of a side are known the addresses it was seen *)
(* at and its local ones (MappedAddrs and the IPs of AssistedAddrs).       *)
(***************************************************************************)
EXTENDS Integers, Sequences, FiniteSets, FiniteSetsExt

Behavior(role, ttl, delay, range, random, listen) ==
  [Role |-> role, TTL |-> ttl, SendDelayMs |-> delay, PortsRangeNumber |-> range,
   PortsRandomNumber |-> random, ListenRandomPorts |-> listen]
Sender(delay, range, random) == Behavior("sender", 0, delay, range, random, 0)
Receiver(ttl, range, listen) == Behavior("receiver", ttl, 0, range, 0, listen)

mode0Behaviors ==
  LET S(d) == Sender(d, 0, 0)
      R(t) == Receiver(t, 0, 0)
  IN  << <<S(0), R(7)>>, <<R(7), S(0)>>, <<S(0), R(4)>>, <<R(4), S(0)>>,
         <<S(0), R(0)>>, <<R(0), S(0)>>, <<S(5000), R(0)>>, <<S(10000), R(0)>>,
         <<R(0), S(5000)>>, <<R(0), S(10000)>> >>
mode1Behaviors ==
  LET S(d) == Sender(d, 0, 0)
      R(t) == Receiver(t, 10, 0)
  IN  << <<S(0), R(7)>>, <<S(2000), R(7)>>, <<S(0), R(4)>>,
         <<S(2000), R(4)>>, <<S(0), R(0)>>, <<S(2000), R(0)>> >>
mode2Behaviors ==
  [i \in 1..3 |-> <<Sender(3000, 0, 1000), Receiver(<<7, 4, 0>>[i], 0, 256)>>]
mode3Behaviors ==
  LET S == Sender(0, 10, 0)
      R(t) == Receiver(t, 10, 0)
  IN  << <<S, R(7)>>, <<S, R(4)>>, <<S, R(0)>>, <<R(7), S>>, <<R(4), S>>, <<R(0), S>> >>
mode4Behaviors ==
  [i \in 1..3 |-> <<Sender(3000, 0, 1000), Receiver(<<7, 4, 0>>[i], 2, 256)>>]

getBehaviorByMode(mode) ==
  CASE mode = 0 -> mode0Behaviors
    [] mode = 1 -> mode1Behaviors
    [] mode = 2 -> mode2Behaviors
    [] mode = 3 -> mode3Behaviors
    [] mode = 4 -> mode4Behaviors

-----------------------------------------------------------------------------
\* ClassifyNATFeature, for at least two addresses: Prepare refuses fewer.
ClassifyNATFeature(addrs, localIPs) ==
  LET ports       == {addrs[i].port : i \in DOMAIN addrs}
      ipChanged   == \E i \in DOMAIN addrs : addrs[i].ip # addrs[1].ip
      portChanged == \E i \in DOMAIN addrs : addrs[i].port # addrs[1].port
      behavior    == CASE ipChanged /\ portChanged   -> "BothChanged"
                       [] ipChanged /\ ~portChanged  -> "IPChanged"
                       [] ~ipChanged /\ portChanged  -> "PortChanged"
                       [] ~ipChanged /\ ~portChanged -> "NoChange"
      difference  == IF behavior = "PortChanged" THEN Max(ports) - Min(ports) ELSE 0
  IN  [NatType            |-> IF ipChanged \/ portChanged THEN "HardNAT" ELSE "EasyNAT",
       Behavior           |-> behavior,
       PortsDifference    |-> difference,
       RegularPortsChange |-> difference \in 1..5,
       PublicNetwork      |-> \E i \in DOMAIN addrs : addrs[i].ip \in localIPs]

\* The behaviours of a mode with their first scores: by the role of the client.
getBehaviorScoresByMode2(mode, senderScore, receiverScore) ==
  [i \in DOMAIN getBehaviorByMode(mode) |->
     [Mode  |-> mode, Index |-> i,
      Score |-> IF getBehaviorByMode(mode)[i][1].Role = "sender"
                  THEN senderScore ELSE receiverScore]]
getBehaviorScoresByMode(mode, score) == getBehaviorScoresByMode2(mode, score, score)

\* NewMakeHoleRecords with ClassifyFeatureCount: c and v are the features of the
\* owner of the proxy (the client) and of the visitor.
NewMakeHoleRecords(c, v) ==
  LET hard    == {s \in {"c", "v"} : [c |-> c, v |-> v][s].NatType = "HardNAT"}
      regular == {s \in hard : [c |-> c, v |-> v][s].RegularPortsChange}
      mode0   == IF c.PublicNetwork THEN getBehaviorScoresByMode2(0, 0, 1)
                 ELSE IF v.PublicNetwork THEN getBehaviorScoresByMode2(0, 1, 0)
                 ELSE getBehaviorScoresByMode(0, 0)
      Mode(m) == getBehaviorScoresByMode(m, 0)
  IN  CASE Cardinality(hard) = 0 -> mode0
        [] Cardinality(hard) = 1 /\ Cardinality(regular) = 1 -> Mode(1) \o Mode(2) \o mode0
        [] Cardinality(hard) = 1 /\ Cardinality(regular) = 0 -> Mode(2) \o Mode(1) \o mode0
        [] Cardinality(hard) = 2 /\ Cardinality(regular) = 2 -> Mode(3) \o Mode(4)
        [] Cardinality(hard) = 2 /\ Cardinality(regular) = 1 -> Mode(4)
        [] Cardinality(hard) = 2 /\ Cardinality(regular) = 0 ->
             getBehaviorScoresByMode(0, 1) \o getBehaviorScoresByMode(1, 1)
               \o getBehaviorScoresByMode(3, 1)

\* The position that Recommand picks: the first of the highest scores.
Best(scores) ==
  CHOOSE i \in DOMAIN scores :
    /\ \A j \in DOMAIN scores : scores[j].Score <= scores[i].Score
    /\ \A j \in 1..(i - 1) : scores[j].Score < scores[i].Score

\* Recommand takes a point off what it recommends, as if it were to fail.
RecommandForgets(scores) == scores
Recommand(scores) == [scores EXCEPT ![Best(scores)].Score = @ - 1]

\* ReportSuccess gives the behaviour two points, up to ten.
ReportSuccess(scores, mode, index) ==
  [i \in DOMAIN scores |->
     IF scores[i].Mode = mode /\ scores[i].Index = index
       THEN [scores[i] EXCEPT !.Score = Min({@ + 2, 10})] ELSE scores[i]]

-----------------------------------------------------------------------------
\* The pair of behaviours of a mode as <<client, visitor>>, after the exchange of
\* roles at the end of GetRecommandBehaviors.
AssignRolesAsListed(mode, index, c, v) == getBehaviorByMode(mode)[index]
AssignRoles(mode, index, c, v) ==
  LET pair == getBehaviorByMode(mode)[index]
      swap == \/ mode = 1 /\ c.NatType = "EasyNAT"
              \/ mode = 2 /\ c.NatType = "HardNAT"
              \/ mode = 4 /\ ~c.RegularPortsChange
  IN  IF swap THEN <<pair[2], pair[1]>> ELSE pair

MaxPort == 65535
\* The ports of the other side worth probing, none if the behaviour asks for none.
getRangePorts(addrs, difference, maxNumber) ==
  LET port == addrs[Len(addrs)].port
  IN  IF maxNumber <= 0 THEN <<>>
      ELSE << [From |-> Max({port - difference - 5, port - maxNumber, 1}),
               To   |-> Min({port + difference + 5, port + maxNumber, MaxPort})] >>

\* One side's half of a plan: what its NatHoleResp tells it.
DetectBehavior(mode, own, timeoutMs, addrs, difference) ==
  [Mode |-> mode, Role |-> own.Role, TTL |-> own.TTL, SendDelayMs |-> own.SendDelayMs,
   ReadTimeoutMs     |-> timeoutMs - own.SendDelayMs,
   SendRandomPorts   |-> own.PortsRandomNumber,
   ListenRandomPorts |-> own.ListenRandomPorts,
   CandidatePorts    |-> getRangePorts(addrs, difference, own.PortsRangeNumber)]

\* The two answers of Controller.analysis to the recommended mode and index.
Plan(mode, index, cAddrs, cNat, vAddrs, vNat) ==
  LET b == AssignRoles(mode, index, cNat, vNat)
      timeoutMs == Max({b[1].SendDelayMs, b[2].SendDelayMs}) + 5000
                     + (IF b[1].ListenRandomPorts > 0 \/ b[2].ListenRandomPorts > 0
                          THEN 30000 ELSE 0)
  IN  [c |-> DetectBehavior(mode, b[1], timeoutMs, vAddrs, vNat.PortsDifference),
       v |-> DetectBehavior(mode, b[2], timeoutMs, cAddrs, cNat.PortsDifference)]
=============================================================================
