-------------------------- MODULE Forwarding_proofs -------------------------
(***************************************************************************)
(* Proofs about what carries user traffic: udp tunnels, for any number of  *)
(* work connections; secret visitors, for any number of owners, visitor    *)
(* connections and places in the queue; the tunnel of an xtcp visitor, for *)
(* any number of users.  The three parts share no state and are instances  *)
(* here, as they are in MCForwarding.                                      *)
(***************************************************************************)
EXTENDS Naturals, Sequences, SequenceTheorems, TLAPS

CONSTANTS WorkConn, Owner, Visitor, Packets, QueueCap, TunnelUser, KeepTunnelOpen, Fallback
VARIABLES manager, isClosed, current, forwarder, releases, open, reader, sender,
          cliConn, cliClosed, cliStage, cliWriter, stopped,
          listener, owner, queue, live, asked, reply, serving, user,
          dispatcher, loops, closed, farLoops, farClosed,
          tunnel, starter, retryer, visit, cancelled

U == INSTANCE UDPTunnel
S == INSTANCE SecretVisitors
X == INSTANCE XtcpVisitor WITH stopped <- cancelled

-----------------------------------------------------------------------------
(* Udp tunnels.                                                            *)

UdpType ==
  /\ manager \in [at : {"get", "end"}] \union [at : {"got", "wait"}, wc : WorkConn]
  /\ isClosed \in BOOLEAN /\ current \subseteq WorkConn /\ open \subseteq WorkConn
  /\ reader \in [WorkConn -> {"off", "read", "notify"}]
  /\ sender \in [WorkConn -> {"off", "run", "cancelled"}]

\* The connection GetWorkConnFromPool has just returned, and the one Run waits for.
Got(w) == manager.at = "got" /\ manager.wc = w
Awaits(w) == manager.at = "wait" /\ manager.wc = w

\* Of the work connections of a udp proxy each open one is read from or is about to be,
\* so that its end is noticed; as long as the proxy is open only the connection that Run
\* waits for is read from and written to, and Run waits only while its reader lives.
UdpConnWatched ==
  /\ \A w \in open : Got(w) \/ (w \in current /\ reader[w] = "read")
  /\ ~isClosed => \A w \in WorkConn : reader[w] # "off" \/ sender[w] = "run" => Awaits(w)
  /\ manager.at = "wait" /\ ~isClosed => reader[manager.wc] # "off"
UdpInv ==
  /\ UdpType /\ UdpConnWatched
  /\ \A w \in WorkConn : Got(w) => reader[w] = "off"

LEMMA UdpInit == U!Init => UdpInv
<1> SUFFICES ASSUME U!Init PROVE UdpInv
  OBVIOUS
<1>1. manager = [at |-> "get"]
  BY DEF U!Init, U!Getting
<1>2. manager.at = "get" /\ manager \in [at : {"get", "end"}]
  BY <1>1
<1> QED BY <1>2 DEF U!Init, UdpInv, UdpType, UdpConnWatched, Got, Awaits

LEMMA UdpStep == UdpInv /\ [U!Next]_U!udpVars => UdpInv'
<1> SUFFICES ASSUME UdpInv, [U!Next]_U!udpVars PROVE UdpInv'
  OBVIOUS
<1> USE DEF UdpInv, UdpType, UdpConnWatched, Got, Awaits, U!udpServer, U!udpClient
<1>1. CASE UNCHANGED U!udpVars
  BY <1>1 DEF U!udpVars
<1>2. ASSUME NEW w \in WorkConn, U!GetConn(w) PROVE UdpInv'
  BY <1>2 DEF U!GetConn, U!Getting, U!Free
<1>3. CASE U!GetFails
  BY <1>3 DEF U!GetFails, U!Getting
<1>4. CASE U!StartConn
  BY <1>4 DEF U!StartConn
<1>5. CASE U!SetupFails
  BY <1>5 DEF U!SetupFails, U!Getting
<1>6. CASE U!Notified
  BY <1>6 DEF U!Notified, U!Getting
<1>7. ASSUME NEW w \in WorkConn, U!ReadFails(w) PROVE UdpInv'
  BY <1>7 DEF U!ReadFails
<1>8. ASSUME NEW w \in WorkConn, U!ReaderEnds(w) PROVE UdpInv'
  BY <1>8 DEF U!ReaderEnds
<1>9. ASSUME NEW w \in WorkConn, U!SenderEnds(w) PROVE UdpInv'
  BY <1>9 DEF U!SenderEnds
<1>10. CASE U!ControlCloses \/ U!ForwarderEnds
  BY <1>10 DEF U!ControlCloses, U!ForwarderEnds, U!Close
<1>11. CASE U!PacketArrives \/ U!PacketSent
  BY <1>11 DEF U!PacketArrives, U!PacketSent
<1>12. ASSUME NEW w \in WorkConn,
              U!InWorkConn(w) \/ U!InWorkConnRuns(w) \/ U!CliWriterEnds(w) \/ U!Breaks(w)
       PROVE  UdpInv'
  <2>1. UNCHANGED <<manager, isClosed, current, reader, sender>> /\ open' \subseteq open
    BY <1>12 DEF U!InWorkConn, U!InWorkConnRuns, U!CliWriterEnds, U!Breaks, U!CliClose
  <2> QED BY <2>1
<1>13. CASE U!StopClient
  BY <1>13 DEF U!StopClient, U!CliClose
<1> QED
  BY <1>1, <1>2, <1>3, <1>4, <1>5, <1>6, <1>7, <1>8, <1>9, <1>10, <1>11, <1>12, <1>13
  DEF U!Next, U!Server, U!Client

\* A udp proxy never keeps a work connection that nobody reads from, never uses two at
\* once, and its loop never waits for a connection whose reader is gone, whatever order
\* failures at both ends, replacements and the closing of the proxy come in.
THEOREM UdpConnsAreWatched == U!UDPSpec => []UdpConnWatched
<1>1. UdpInv => UdpConnWatched
  BY DEF UdpInv
<1> QED BY <1>1, UdpInit, UdpStep, PTL DEF U!UDPSpec
-----------------------------------------------------------------------------
(* Secret visitors.                                                        *)

SecretType ==
  /\ owner \in [Owner -> {"off", "up", "closing", "over"}]
  /\ listener \in Owner \union {S!Nobody}
  /\ queue \in [Owner -> Seq(S!VisitConn)]
  /\ live \subseteq S!VisitConn /\ asked \subseteq S!VisitConn /\ serving \subseteq S!VisitConn
  /\ reply \in [S!VisitConn -> {"none", "ok", "err"}]
  /\ dispatcher \in {"receive", "wait", "work", "end"}
  /\ loops \subseteq {"reader", "sender"}
  /\ farLoops \subseteq {"reader", "sender", "heartbeat"}
  /\ user \in [Visitor -> {"none", "wait", "join"}]

Distinct(q) == \A i, j \in DOMAIN q : q[i] = q[j] => i = j
Queued(c) == \E o \in Owner : c \in S!Range(queue[o])

\* The name leads to the one proxy that was run with it and has not finished closing; a
\* queue stays within its capacity.
NameHasOneOwner ==
  /\ \A o \in Owner : listener = o <=> owner[o] \in {"up", "closing"}
  /\ \A o \in Owner : Len(queue[o]) <= QueueCap

\* A visitor connection is in one place at a time: not handled yet, once in one queue,
\* or served.
OnePlace ==
  /\ \A c \in asked : c \notin serving /\ ~Queued(c)
  /\ \A c \in serving : ~Queued(c)
  /\ \A o \in Owner : Distinct(queue[o])
  /\ \A o, p \in Owner, c \in S!VisitConn :
       c \in S!Range(queue[o]) /\ c \in S!Range(queue[p]) => o = p

\* A visitor connection that is open has its place: frps is still to handle it, or it
\* was told of success and is in the queue of a proxy or served.  None is forgotten, also
\* when the proxy closes between the lookup of its name and the accept.
NoVisitorLost ==
  \A c \in live : c \in asked \/ (reply[c] = "ok" /\ (c \in serving \/ Queued(c)))

\* A tunnel of packets whose connection is open is complete at both ends: a goroutine
\* that ends takes the connection, and so the others, with it.
TunnelWhole ==
  Packets \in live =>
    /\ dispatcher = "work" => loops = {"reader", "sender"}
    /\ farLoops # {} => farLoops = {"reader", "sender", "heartbeat"} /\ Packets \in serving

SecretInv ==
  /\ SecretType /\ NameHasOneOwner /\ OnePlace /\ NoVisitorLost /\ TunnelWhole
  /\ loops # {} => dispatcher = "work"

\* What a queue holds when a connection is put into it, and when one is taken.
LEMMA QueuePut ==
  ASSUME NEW C, NEW q \in Seq(C), NEW c \in C, Distinct(q), c \notin S!Range(q)
  PROVE  /\ Append(q, c) \in Seq(C) /\ Len(Append(q, c)) = Len(q) + 1 /\ Len(q) \in Nat
         /\ S!Range(Append(q, c)) = S!Range(q) \union {c} /\ Distinct(Append(q, c))
<1>1. Len(q) \in Nat /\ DOMAIN q = 1..Len(q)
  BY LenProperties
<1>2. /\ Append(q, c) \in Seq(C) /\ Len(Append(q, c)) = Len(q) + 1
      /\ \A i \in 1..Len(q) : Append(q, c)[i] = q[i]
      /\ Append(q, c)[Len(q) + 1] = c
  BY AppendProperties
<1>3. DOMAIN Append(q, c) = 1..(Len(q) + 1)
  BY <1>2, LenProperties
<1> DEFINE a == Append(q, c)
<1> HIDE DEF a
<1>4. /\ DOMAIN a = 1..(Len(q) + 1) /\ a[Len(q) + 1] = c /\ \A i \in 1..Len(q) : a[i] = q[i]
  BY <1>2, <1>3 DEF a
<1>5. S!Range(a) = S!Range(q) \union {c}
  BY <1>1, <1>4 DEF S!Range
<1>6. Distinct(a)
  BY <1>1, <1>4 DEF Distinct, S!Range
<1> QED BY <1>1, <1>2, <1>5, <1>6 DEF a

LEMMA QueueTake ==
  ASSUME NEW C, NEW q \in Seq(C), q # <<>>, Distinct(q)
  PROVE  /\ Tail(q) \in Seq(C) /\ Len(Tail(q)) = Len(q) - 1 /\ Len(q) \in Nat
         /\ Head(q) \in C /\ S!Range(q) = S!Range(Tail(q)) \union {Head(q)}
         /\ Head(q) \notin S!Range(Tail(q)) /\ Distinct(Tail(q))
<1>1. Len(q) \in Nat \ {0} /\ DOMAIN q = 1..Len(q) /\ q[1] \in C
  BY LenProperties, EmptySeq, ElementOfSeq
<1>2. /\ Tail(q) \in Seq(C) /\ Len(Tail(q)) = Len(q) - 1 /\ Head(q) = q[1]
      /\ \A i \in 1..Len(Tail(q)) : Tail(q)[i] = q[i + 1]
  BY <1>1, HeadTailProperties
<1> DEFINE t == Tail(q)
<1>3. DOMAIN t = 1..(Len(q) - 1) /\ \A i \in 1..(Len(q) - 1) : t[i] = q[i + 1]
  BY <1>1, <1>2, LenProperties
<1> HIDE DEF t
<1>4. S!Range(q) = S!Range(t) \union {q[1]}
  <2>1. ASSUME NEW i \in 1..Len(q), i # 1 PROVE q[i] \in S!Range(t)
    <3>1. i - 1 \in 1..(Len(q) - 1) /\ (i - 1) + 1 = i
      BY <1>1, <2>1
    <3> QED BY <1>3, <3>1 DEF S!Range
  <2>2. \A i \in 1..(Len(q) - 1) : i + 1 \in 1..Len(q)
    BY <1>1
  <2>3. 1 \in 1..Len(q) /\ q[1] \in S!Range(q)
    BY <1>1 DEF S!Range
  <2>4. S!Range(t) \subseteq S!Range(q)
    BY <1>1, <1>3, <2>2 DEF S!Range
  <2>5. \A x \in S!Range(q) : x \in S!Range(t) \union {q[1]}
    BY <1>1, <2>1 DEF S!Range
  <2> QED BY <2>3, <2>4, <2>5
<1>5. q[1] \notin S!Range(t) /\ Distinct(t)
  <2>1. \A i \in 1..(Len(q) - 1) : i + 1 \in 1..Len(q) /\ i + 1 # 1
    BY <1>1
  <2>2. 1 \in 1..Len(q)
    BY <1>1
  <2>3. \A i \in DOMAIN t : t[i] # q[1]
    BY <1>1, <1>3, <2>1, <2>2 DEF Distinct
  <2>4. ASSUME NEW i \in DOMAIN t, NEW j \in DOMAIN t, t[i] = t[j] PROVE i = j
    <3>1. i + 1 = j + 1
      BY <1>1, <1>3, <2>1, <2>4 DEF Distinct
    <3> QED BY <1>1, <1>3, <3>1
  <2> QED BY <2>3, <2>4 DEF S!Range, Distinct
<1> QED BY <1>1, <1>2, <1>4, <1>5 DEF t

\* Nobody is no proxy, the visitor of packets has a connection of its own, and a queue
\* has a capacity.
SecretAssumption == S!Nobody \notin Owner /\ Packets \notin Visitor /\ QueueCap \in Nat

LEMMA SecretInit == SecretAssumption /\ S!Init => SecretInv
<1> SUFFICES ASSUME SecretAssumption, S!Init PROVE SecretInv
  OBVIOUS
<1>1. \A o \in Owner : queue[o] = <<>> /\ queue[o] \in Seq(S!VisitConn) /\ Len(queue[o]) = 0
  BY EmptySeq DEF S!Init
<1>2. \A o \in Owner : S!Range(queue[o]) = {} /\ Distinct(queue[o])
  BY <1>1 DEF S!Range, Distinct
<1>3. queue \in [Owner -> Seq(S!VisitConn)]
  BY <1>1 DEF S!Init
<1>4. SecretType
  BY <1>3 DEF S!Init, SecretType
<1>5. NameHasOneOwner
  BY <1>1 DEF S!Init, NameHasOneOwner, SecretAssumption
<1>6. OnePlace /\ NoVisitorLost /\ TunnelWhole
  BY <1>2 DEF S!Init, OnePlace, NoVisitorLost, TunnelWhole, Queued
<1> QED BY <1>4, <1>5, <1>6 DEF SecretInv, S!Init

\* A step that leaves the table, the queues and the places alone and opens no connection.
LEMMA QuietSecret ==
  ASSUME SecretInv, UNCHANGED <<listener, owner, queue, asked, reply, serving>>,
         live' \subseteq live,
         user' \in [Visitor -> {"none", "wait", "join"}],
         dispatcher' \in {"receive", "wait", "work", "end"},
         loops' \subseteq {"reader", "sender"}, farLoops' \subseteq {"reader", "sender", "heartbeat"},
         loops' # {} => dispatcher' = "work", TunnelWhole'
  PROVE  SecretInv'
<1>1. SecretType'
  BY DEF SecretInv, SecretType
<1>2. NameHasOneOwner' /\ OnePlace'
  BY DEF SecretInv, NameHasOneOwner, OnePlace, Queued
<1>3. NoVisitorLost'
  BY DEF SecretInv, NoVisitorLost, Queued
<1> QED BY <1>1, <1>2, <1>3 DEF SecretInv

LEMMA OwnerSteps ==
  ASSUME SecretAssumption, SecretInv, NEW o \in Owner,
         S!Run(o) \/ S!CloseChannel(o) \/ S!CloseListener(o)
  PROVE  SecretInv'
<1> USE DEF S!sudp, S!far
<1>1. UNCHANGED <<queue, asked, reply, serving, live, user, dispatcher, loops, closed, farLoops,
                  farClosed>>
  BY DEF S!Run, S!CloseChannel, S!CloseListener
<1>2. OnePlace' /\ NoVisitorLost' /\ TunnelWhole'
  BY <1>1 DEF SecretInv, OnePlace, NoVisitorLost, TunnelWhole, Queued
<1>3. SecretType'
  BY <1>1 DEF SecretInv, SecretType, S!Run, S!CloseChannel, S!CloseListener
<1>4. NameHasOneOwner'
  BY <1>1 DEF SecretInv, SecretType, NameHasOneOwner, SecretAssumption, S!Run, S!CloseChannel,
     S!CloseListener
<1> QED BY <1>1, <1>2, <1>3, <1>4 DEF SecretInv

LEMMA RegisterSteps ==
  ASSUME SecretAssumption, SecretInv, NEW c \in S!VisitConn, S!Register(c)
  PROVE  SecretInv'
<1> USE DEF S!sudp, S!far
<1>1. /\ c \in asked /\ asked' = asked \ {c} /\ live' \subseteq live
      /\ UNCHANGED <<listener, owner, serving, user, dispatcher, loops, closed, farLoops, farClosed>>
      /\ \E r \in {"ok", "err"} : reply' = [reply EXCEPT ![c] = r]
  BY DEF S!Register, S!PutConn, S!PutConnFull, S!Refuse, S!Answer
<1>2. TunnelWhole' /\ (loops' # {} => dispatcher' = "work")
  BY <1>1 DEF SecretInv, TunnelWhole
<1>3. CASE S!PutConn(c)
  <2>1. PICK o \in Owner : /\ o = listener /\ Len(queue[o]) < QueueCap
                           /\ queue' = [queue EXCEPT ![o] = Append(queue[o], c)]
                           /\ reply' = [reply EXCEPT ![c] = "ok"] /\ live' = live
    BY <1>3 DEF S!PutConn, S!Answer, SecretInv, SecretType
  <2>2. queue[o] \in Seq(S!VisitConn) /\ Distinct(queue[o]) /\ ~Queued(c) /\ c \notin S!Range(queue[o])
    BY <1>1 DEF SecretInv, SecretType, OnePlace, Queued
  <2>3. /\ Append(queue[o], c) \in Seq(S!VisitConn) /\ Len(Append(queue[o], c)) = Len(queue[o]) + 1
        /\ Len(queue[o]) \in Nat
        /\ S!Range(Append(queue[o], c)) = S!Range(queue[o]) \union {c}
        /\ Distinct(Append(queue[o], c))
    BY <2>2, QueuePut
  <2>4. /\ queue' \in [Owner -> Seq(S!VisitConn)]
        /\ queue'[o] = Append(queue[o], c) /\ \A p \in Owner : p # o => queue'[p] = queue[p]
    BY <2>1, <2>3 DEF SecretInv, SecretType
  <2>5. SecretType'
    BY <1>1, <2>1, <2>4 DEF SecretInv, SecretType
  <2>6. NameHasOneOwner'
    BY <1>1, <2>1, <2>3, <2>4 DEF SecretInv, NameHasOneOwner, SecretAssumption
  <2>7. \A d : Queued(d)' <=> Queued(d) \/ d = c
    BY <2>3, <2>4 DEF Queued
  <2>8. OnePlace'
    <3>1. \A p \in Owner : Distinct(queue[p])'
      BY <2>3, <2>4 DEF SecretInv, OnePlace
    <3>2. ASSUME NEW p \in Owner, NEW q \in Owner, NEW d \in S!VisitConn,
                 d \in S!Range(queue'[p]), d \in S!Range(queue'[q])
          PROVE  p = q
      <4>1. \A x \in Owner : d \in S!Range(queue'[x]) => d \in S!Range(queue[x]) \/ (d = c /\ x = o)
        BY <2>3, <2>4
      <4>2. \A x \in Owner : c \notin S!Range(queue[x])
        BY <2>2 DEF Queued
      <4> QED BY <3>2, <4>1, <4>2 DEF SecretInv, OnePlace
    <3>3. \A d \in asked' : d \notin serving' /\ ~Queued(d)'
      BY <1>1, <2>7 DEF SecretInv, OnePlace
    <3>4. \A d \in serving' : ~Queued(d)'
      BY <1>1, <2>7 DEF SecretInv, OnePlace
    <3> QED BY <3>1, <3>2, <3>3, <3>4 DEF OnePlace, Distinct
  <2>9. NoVisitorLost'
    BY <1>1, <2>1, <2>7 DEF SecretInv, SecretType, NoVisitorLost
  <2> QED BY <1>2, <2>5, <2>6, <2>8, <2>9 DEF SecretInv
<1>4. CASE S!PutConnFull(c) \/ S!Refuse(c)
  <2>1. queue' = queue /\ live' = live \ {c}
    BY <1>4 DEF S!PutConnFull, S!Refuse, S!Answer
  <2>2. SecretType'
    BY <1>1, <2>1 DEF SecretInv, SecretType
  <2>3. NameHasOneOwner' /\ OnePlace'
    BY <1>1, <2>1 DEF SecretInv, NameHasOneOwner, OnePlace, Queued
  <2>4. NoVisitorLost'
    BY <1>1, <2>1 DEF SecretInv, SecretType, NoVisitorLost, Queued
  <2> QED BY <1>2, <2>2, <2>3, <2>4 DEF SecretInv
<1> QED BY <1>3, <1>4 DEF S!Register

LEMMA AcceptStep ==
  ASSUME SecretAssumption, SecretInv, NEW o \in Owner, S!Accept(o)
  PROVE  SecretInv'
<1> USE DEF S!sudp, S!far
<1> DEFINE h == Head(queue[o])
<1>1. /\ UNCHANGED <<listener, owner, asked, reply, live, user, dispatcher, loops, closed, farLoops,
                     farClosed>>
      /\ queue[o] # <<>> /\ queue' = [queue EXCEPT ![o] = Tail(queue[o])]
      /\ serving' = serving \union {h}
  BY DEF S!Accept
<1>2. queue[o] \in Seq(S!VisitConn) /\ Distinct(queue[o])
  BY DEF SecretInv, SecretType, OnePlace
<1>3. /\ Tail(queue[o]) \in Seq(S!VisitConn) /\ Len(Tail(queue[o])) = Len(queue[o]) - 1
      /\ Len(queue[o]) \in Nat
      /\ h \in S!VisitConn /\ S!Range(queue[o]) = S!Range(Tail(queue[o])) \union {h}
      /\ h \notin S!Range(Tail(queue[o])) /\ Distinct(Tail(queue[o]))
  BY <1>1, <1>2, QueueTake
<1> HIDE DEF h
<1>4. /\ queue' \in [Owner -> Seq(S!VisitConn)]
      /\ queue'[o] = Tail(queue[o]) /\ \A p \in Owner : p # o => queue'[p] = queue[p]
  BY <1>1, <1>3 DEF SecretInv, SecretType
<1>5. SecretType'
  BY <1>1, <1>3, <1>4 DEF SecretInv, SecretType
<1>6. NameHasOneOwner'
  BY <1>1, <1>3, <1>4 DEF SecretInv, NameHasOneOwner, SecretAssumption
<1>7. \A p \in Owner : S!Range(queue'[p]) = S!Range(queue[p]) \ {h}
  BY <1>3, <1>4 DEF SecretInv, OnePlace
<1>8. \A d : Queued(d)' <=> Queued(d) /\ d # h
  BY <1>7 DEF Queued
<1>9. Queued(h)
  BY <1>3 DEF Queued
<1>10. OnePlace'
  <2>1. \A p \in Owner : Distinct(queue'[p])
    BY <1>3, <1>4 DEF SecretInv, OnePlace
  <2>2. \A p, q \in Owner, c \in S!VisitConn :
          c \in S!Range(queue'[p]) /\ c \in S!Range(queue'[q]) => p = q
    BY <1>7 DEF SecretInv, OnePlace
  <2>3. \A d \in asked' : d \notin serving' /\ ~Queued(d)'
    BY <1>1, <1>8, <1>9 DEF SecretInv, OnePlace
  <2>4. \A d \in serving' : ~Queued(d)'
    BY <1>1, <1>8, <1>9 DEF SecretInv, OnePlace
  <2> QED BY <2>1, <2>2, <2>3, <2>4 DEF OnePlace, Distinct
<1>11. NoVisitorLost'
  BY <1>1, <1>8 DEF SecretInv, NoVisitorLost
<1>12. TunnelWhole' /\ (loops' # {} => dispatcher' = "work")
  BY <1>1 DEF SecretInv, TunnelWhole
<1> QED BY <1>5, <1>6, <1>10, <1>11, <1>12 DEF SecretInv

\* A visitor opens a connection, for a user or for packets.
LEMMA AskSteps ==
  ASSUME SecretAssumption, SecretInv, NEW c \in S!VisitConn, S!Ask(c),
         user' \in [Visitor -> {"none", "wait", "join"}], UNCHANGED <<loops, closed>>,
         \/ c # Packets /\ UNCHANGED dispatcher
         \/ c = Packets /\ dispatcher = "receive" /\ dispatcher' = "wait"
  PROVE  SecretInv'
<1> USE DEF S!far
<1>1. /\ c \notin live /\ c \notin asked /\ c \notin serving /\ ~Queued(c)
      /\ (c = Packets => farLoops = {})
      /\ live' = live \union {c} /\ asked' = asked \union {c}
      /\ reply' = [reply EXCEPT ![c] = "none"]
      /\ UNCHANGED <<listener, owner, queue, serving, farLoops, farClosed>>
  BY DEF S!Ask, S!Unused, Queued
<1>2. SecretType'
  BY <1>1 DEF SecretInv, SecretType
<1>3. NameHasOneOwner' /\ OnePlace'
  BY <1>1 DEF SecretInv, NameHasOneOwner, OnePlace, Queued
<1>4. NoVisitorLost'
  BY <1>1 DEF SecretInv, SecretType, NoVisitorLost, Queued
<1>5. TunnelWhole' /\ (loops' # {} => dispatcher' = "work")
  BY <1>1 DEF SecretInv, TunnelWhole
<1> QED BY <1>2, <1>3, <1>4, <1>5 DEF SecretInv

LEMMA SecretStep == SecretAssumption /\ SecretInv /\ [S!Next]_S!secretVars => SecretInv'
<1> SUFFICES ASSUME SecretAssumption, SecretInv, [S!Next]_S!secretVars PROVE SecretInv'
  OBVIOUS
<1> USE DEF S!frps, S!sudp, S!far
<1> DEFINE Quiet ==
      /\ UNCHANGED <<listener, owner, queue, asked, reply, serving>> /\ live' \subseteq live
      /\ user' \in [Visitor -> {"none", "wait", "join"}]
      /\ dispatcher' \in {"receive", "wait", "work", "end"}
      /\ loops' \subseteq {"reader", "sender"}
      /\ farLoops' \subseteq {"reader", "sender", "heartbeat"}
      /\ loops' # {} => dispatcher' = "work"
      /\ TunnelWhole'
<1>q. Quiet => SecretInv'
  BY QuietSecret
<1>1. CASE UNCHANGED S!secretVars
  <2>1. Quiet
    BY <1>1 DEF S!secretVars, SecretInv, SecretType, TunnelWhole
  <2> QED BY <1>q, <2>1
<1>2. ASSUME NEW o \in Owner, S!Run(o) \/ S!CloseChannel(o) \/ S!CloseListener(o) PROVE SecretInv'
  BY <1>2, OwnerSteps
<1>3. ASSUME NEW o \in Owner, S!Accept(o) PROVE SecretInv'
  BY <1>3, AcceptStep
<1>4. ASSUME NEW c \in S!VisitConn, S!Register(c) PROVE SecretInv'
  BY <1>4, RegisterSteps
<1>5. ASSUME NEW c \in S!VisitConn, S!ServeEnds(c) PROVE SecretInv'
  <2>1. /\ UNCHANGED <<listener, owner, queue, asked, reply, user, dispatcher, loops, farLoops>>
        /\ serving' = serving \ {c} /\ live' = live \ {c}
    BY <1>5 DEF S!ServeEnds
  <2> QED BY <2>1 DEF SecretInv, SecretType, NameHasOneOwner, OnePlace, NoVisitorLost, TunnelWhole,
             Queued
<1>6. ASSUME NEW c \in S!VisitConn, S!Breaks(c) PROVE SecretInv'
  <2>1. Quiet
    BY <1>6 DEF S!Breaks, SecretInv, SecretType, TunnelWhole
  <2> QED BY <1>q, <2>1
<1>7. ASSUME NEW c \in Visitor, S!Visit(c) PROVE SecretInv'
  <2>1. c \in S!VisitConn /\ c # Packets
    BY DEF S!VisitConn, SecretAssumption
  <2>2. user' \in [Visitor -> {"none", "wait", "join"}]
    BY <1>7 DEF S!Visit, SecretInv, SecretType
  <2>3. S!Ask(c) /\ UNCHANGED <<dispatcher, loops, closed>>
    BY <1>7 DEF S!Visit
  <2> QED BY <2>1, <2>2, <2>3, AskSteps
<1>8. ASSUME NEW c \in Visitor, S!Joined(c) \/ S!VisitEnds(c) PROVE SecretInv'
  <2>1. Quiet
    BY <1>8 DEF S!Joined, S!VisitEnds, SecretInv, SecretType, TunnelWhole
  <2> QED BY <1>q, <2>1
<1>9. CASE S!InWorkConn
  <2>1. Quiet
    BY <1>9 DEF S!InWorkConn, SecretInv, SecretType, TunnelWhole
  <2> QED BY <1>q, <2>1
<1>10. CASE S!FirstPacket
  <2>1. Packets \in S!VisitConn
    BY DEF S!VisitConn
  <2>2. user' \in [Visitor -> {"none", "wait", "join"}]
    BY <1>10 DEF S!FirstPacket, SecretInv, SecretType
  <2>3. S!Ask(Packets) /\ dispatcher = "receive" /\ dispatcher' = "wait" /\ UNCHANGED <<loops, closed>>
    BY <1>10 DEF S!FirstPacket
  <2> QED BY <2>1, <2>2, <2>3, AskSteps
<1>11. CASE S!DispatcherEnds \/ S!Connected \/ S!ConnectFails \/ S!WorkerEnds \/ S!CloseVisitor
            \/ S!CloseFar
  <2>1. Quiet
    BY <1>11 DEF S!DispatcherEnds, S!Connected, S!ConnectFails, S!WorkerEnds, S!CloseVisitor,
       S!CloseFar, SecretInv, SecretType, TunnelWhole
  <2> QED BY <1>q, <2>1
<1>12. CASE S!ReaderEnds \/ S!SenderEnds
  <2>1. Quiet
    BY <1>12 DEF S!ReaderEnds, S!SenderEnds, SecretInv, SecretType, TunnelWhole
  <2> QED BY <1>q, <2>1
<1>13. ASSUME NEW l \in {"reader", "sender", "heartbeat"}, S!FarLoopEnds(l) PROVE SecretInv'
  <2>1. Quiet
    BY <1>13 DEF S!FarLoopEnds, SecretInv, SecretType, TunnelWhole
  <2> QED BY <1>q, <2>1
<1> HIDE DEF Quiet
<1> QED
  BY <1>1, <1>2, <1>3, <1>4, <1>5, <1>6, <1>7, <1>8, <1>9, <1>10, <1>11, <1>12, <1>13, Zenon
  DEF S!Next

\* For any number of proxies that take and leave the name and of visitor connections: each
\* connection is handled once, by the proxy that has the name, and none that was told of
\* success is lost while it is open, whatever registrations, closes and full queues
\* happen in between.
THEOREM VisitorsAreKept ==
  ASSUME SecretAssumption
  PROVE  S!SecretSpec => [](NameHasOneOwner /\ OnePlace /\ NoVisitorLost)
<1>1. S!Init => SecretInv
  BY SecretInit
<1>2. SecretInv /\ [S!Next]_S!secretVars => SecretInv'
  BY SecretStep
<1>3. SecretInv => NameHasOneOwner /\ OnePlace /\ NoVisitorLost
  BY DEF SecretInv
<1> QED BY <1>1, <1>2, <1>3, PTL DEF S!SecretSpec

\* No half of a tunnel of packets is left behind with an open connection, whichever of
\* its five goroutines ends first.
THEOREM TunnelsAreWhole ==
  ASSUME SecretAssumption
  PROVE  S!SecretSpec => []TunnelWhole
<1>1. S!Init => SecretInv
  BY SecretInit
<1>2. SecretInv /\ [S!Next]_S!secretVars => SecretInv'
  BY SecretStep
<1>3. SecretInv => TunnelWhole
  BY DEF SecretInv
<1> QED BY <1>1, <1>2, <1>3, PTL DEF S!SecretSpec

-----------------------------------------------------------------------------
(* The tunnel of an xtcp visitor.                                          *)

\* As long as the visitor is open, the worker that makes the tunnel runs, and with
\* keep_tunnel_open the one that asks for it again.
TunnelWorkersRun ==
  ~cancelled => starter # "end" /\ (KeepTunnelOpen => retryer # "end")

\* The two workers of processTunnelStartEvents and keepTunnelOpenWorker end only with the
\* visitor, whatever fails in between: what TunnelReopens rests on.
THEOREM TunnelWorkers == X!Spec => []TunnelWorkersRun
<1>1. X!Init => TunnelWorkersRun
  BY DEF X!Init, TunnelWorkersRun
<1>2. TunnelWorkersRun /\ [X!Next]_X!vars => TunnelWorkersRun'
  BY DEF TunnelWorkersRun, X!vars, X!Next, X!Starter, X!Retry, X!ExchangeOK, X!TunnelInit,
     X!MakeFails, X!PauseEnds, X!StarterEnds, X!FirstTrigger, X!RetryOpens, X!RetryCloses,
     X!RetryTriggers, X!RetryEnds, X!TunnelBreaks, X!CloseVisitor, X!VisitArrives, X!VisitOpens,
     X!VisitCloses, X!VisitTriggers, X!VisitGivesUp, X!VisitEnds, X!Trigger
<1> QED BY <1>1, <1>2, PTL DEF X!Spec
=============================================================================
