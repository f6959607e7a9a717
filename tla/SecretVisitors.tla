--------------------------- MODULE SecretVisitors ---------------------------
(***************************************************************************)
(* Visitors of secret proxies.  frps keeps a queue of visitor connections  *)
(* for every stcp and sudp proxy (server/visitor/visitor.go,               *)
(* pkg/util/net/listener.go, server/proxy/stcp.go, server/proxy/sudp.go);  *)
(* an stcp visitor makes a connection for every user                       *)
(* (client/visitor/stcp.go), an sudp visitor keeps one for all its packets *)
(* (client/visitor/sudp.go) that ends in client/proxy/sudp.go.  One proxy  *)
(* name; what happens between the queue and the work connection is in      *)
(* module WorkConns, the data that is copied is left out.                  *)
(***************************************************************************)
EXTENDS Naturals, Sequences, SequencesExt

CONSTANTS
  Owner,     \* proxies of the one name, each run once
  Visitor,   \* connections of stcp visitors, each used again
  Packets,   \* the connection of the sudp visitor
  QueueCap   \* the capacity of InternalListener.acceptCh

VisitConn == Visitor \union {Packets}
Nobody == "nobody"

VARIABLES
  listener,   \* visitor.Manager.listeners of the name: an owner or Nobody
  owner,      \* owner[o]: "off", "up", "closing" or "over"
  queue,      \* queue[o]: InternalListener.acceptCh
  live,       \* the visitor connections that neither end has closed
  asked,      \* those whose NewVisitorConn frps has not handled yet
  reply,      \* reply[c]: "none", "ok" or "err"
  serving,    \* those that handleUserTCPConnection serves
  user,       \* user[c]: handleConn of an stcp visitor: "none", "wait" or "join"
  dispatcher, \* SUDPVisitor.dispatcher: "receive", "wait", "work" or "end"
  loops,      \* the loops of SUDPVisitor.worker: a subset of {"reader", "sender"}
  closed,     \* the sudp visitor is closed
  farLoops,   \* the goroutines of SUDPProxy.InWorkConn on the other client
  farClosed   \* that proxy is closed

frps == <<listener, owner, queue, asked, reply, serving>>
sudp == <<dispatcher, loops, closed>>
far == <<farLoops, farClosed>>
secretVars == <<frps, live, user, sudp, far>>

Init ==
  /\ listener = Nobody /\ owner = [o \in Owner |-> "off"]
  /\ queue = [o \in Owner |-> <<>>]
  /\ live = {} /\ asked = {} /\ serving = {}
  /\ reply = [c \in VisitConn |-> "none"] /\ user = [c \in Visitor |-> "none"]
  /\ dispatcher = "receive" /\ loops = {} /\ closed = FALSE
  /\ farLoops = {} /\ farClosed = FALSE

-----------------------------------------------------------------------------
\* STCPProxy.Run, SUDPProxy.Run: Manager.Listen refuses a name that is there.
Run(o) ==
  /\ owner[o] = "off"
  /\ IF listener = Nobody
       THEN listener' = o /\ owner' = [owner EXCEPT ![o] = "up"]
       ELSE owner' = [owner EXCEPT ![o] = "over"] /\ UNCHANGED listener
  /\ UNCHANGED <<queue, asked, reply, serving, live, user, sudp, far>>
\* Close: first the channel, then the entry of the name.
CloseChannel(o) ==
  /\ owner[o] = "up"
  /\ owner' = [owner EXCEPT ![o] = "closing"]
  /\ UNCHANGED <<listener, queue, asked, reply, serving, live, user, sudp, far>>
CloseListener(o) ==
  /\ owner[o] = "closing"
  /\ owner' = [owner EXCEPT ![o] = "over"]
  /\ listener' = Nobody
  /\ UNCHANGED <<queue, asked, reply, serving, live, user, sudp, far>>

\* RegisterVisitorConn and the answer: PutConn on a closed channel is an error, on a
\* full one it closes the connection and reports success.
Answer(c, r, ok) ==
  /\ c \in asked
  /\ asked' = asked \ {c} /\ reply' = [reply EXCEPT ![c] = r]
  /\ live' = IF ok THEN live ELSE live \ {c}
  /\ UNCHANGED <<listener, owner, serving, user, sudp, far>>
PutConn(c) ==
  /\ listener # Nobody
  /\ owner[listener] = "up" /\ Len(queue[listener]) < QueueCap
  /\ queue' = [queue EXCEPT ![listener] = Append(@, c)]
  /\ Answer(c, "ok", TRUE)
PutConnFull(c) ==
  /\ listener # Nobody
  /\ owner[listener] = "up" /\ Len(queue[listener]) = QueueCap
  /\ Answer(c, "ok", FALSE) /\ UNCHANGED queue
\* Nobody listens, the channel is closed, or the key, the user or the run id is wrong.
Refuse(c) == Answer(c, "err", FALSE) /\ UNCHANGED queue

\* The accept loop empties the queue, also one that was closed.
Accept(o) ==
  /\ queue[o] # <<>>
  /\ queue' = [queue EXCEPT ![o] = Tail(@)]
  /\ serving' = serving \union {Head(queue[o])}
  /\ UNCHANGED <<listener, owner, asked, reply, live, user, sudp, far>>
\* handleUserTCPConnection reaches the sudp proxy of the other client, which starts
\* its goroutines.
InWorkConn ==
  /\ Packets \in serving /\ Packets \in live /\ farLoops = {} /\ ~farClosed
  /\ farLoops' = {"reader", "sender", "heartbeat"}
  /\ UNCHANGED <<frps, live, user, sudp, farClosed>>
\* It returns when it gets no work connection or one of the joined ones is closed.
ServeEnds(c) ==
  /\ c \in serving
  /\ serving' = serving \ {c}
  /\ live' = live \ {c}
  /\ UNCHANGED <<listener, owner, queue, asked, reply, user, sudp, far>>

-----------------------------------------------------------------------------
\* STCPVisitor.handleConn
Unused(c) == /\ c \notin live \union asked \union serving
             /\ \A o \in Owner : c \notin Range(queue[o])
             /\ c = Packets => farLoops = {}
Ask(c) ==
  /\ Unused(c)
  /\ live' = live \union {c} /\ asked' = asked \union {c}
  /\ reply' = [reply EXCEPT ![c] = "none"]
  /\ UNCHANGED <<listener, owner, queue, serving, far>>
Visit(c) ==
  /\ user[c] = "none" /\ Ask(c)
  /\ user' = [user EXCEPT ![c] = "wait"]
  /\ UNCHANGED sudp
Joined(c) ==
  /\ user[c] = "wait" /\ reply[c] = "ok"
  /\ user' = [user EXCEPT ![c] = "join"]
  /\ UNCHANGED <<frps, live, sudp, far>>
\* The answer is an error or late, or the joined connections are closed.
VisitEnds(c) ==
  /\ user[c] \in {"wait", "join"}
  /\ user' = [user EXCEPT ![c] = "none"]
  /\ live' = live \ {c}
  /\ UNCHANGED <<frps, sudp, far>>

-----------------------------------------------------------------------------
\* SUDPVisitor.dispatcher: a first packet, then a connection for it.
FirstPacket ==
  /\ dispatcher = "receive" /\ ~closed /\ Ask(Packets)
  /\ dispatcher' = "wait"
  /\ UNCHANGED <<user, loops, closed>>
DispatcherEnds ==
  /\ dispatcher = "receive" /\ closed
  /\ dispatcher' = "end"
  /\ UNCHANGED <<frps, live, user, loops, closed, far>>
\* getNewVisitorConn; a connection that is refused is not closed by the visitor.
Connected ==
  /\ dispatcher = "wait" /\ reply[Packets] = "ok"
  /\ dispatcher' = "work" /\ loops' = {"reader", "sender"}
  /\ UNCHANGED <<frps, live, user, closed, far>>
ConnectFails ==
  /\ dispatcher = "wait"
  /\ dispatcher' = "receive"
  /\ UNCHANGED <<frps, live, user, loops, closed, far>>
\* The loops of worker: the reader ends with the connection, or after 60 seconds
\* without a message; the sender when a write fails, with the reader or with the
\* channel of packets.
ReaderEnds ==
  /\ "reader" \in loops
  /\ loops' = loops \ {"reader"} /\ live' = live \ {Packets}
  /\ UNCHANGED <<frps, user, dispatcher, closed, far>>
SenderWaitsForClose ==
  /\ "sender" \in loops
  /\ closed
  /\ loops' = loops \ {"sender"} /\ live' = live \ {Packets}
  /\ UNCHANGED <<frps, user, dispatcher, closed, far>>
SenderEnds ==
  /\ "sender" \in loops
  /\ closed \/ Packets \notin live \/ "reader" \notin loops
  /\ loops' = loops \ {"sender"} /\ live' = live \ {Packets}
  /\ UNCHANGED <<frps, user, dispatcher, closed, far>>
WorkerEnds ==
  /\ dispatcher = "work" /\ loops = {}
  /\ dispatcher' = IF closed THEN "end" ELSE "receive"
  /\ UNCHANGED <<frps, live, user, loops, closed, far>>
\* Close also closes sendCh: ForwardUserConn, which puts the packets of users there,
\* may then panic (as the forwarding loop of UDPTunnel does) and is not modelled.
CloseVisitor ==
  /\ ~closed
  /\ closed' = TRUE
  /\ UNCHANGED <<frps, live, user, dispatcher, loops, far>>

-----------------------------------------------------------------------------
\* SUDPProxy.Close; its heartbeat notices, and each goroutine that ends runs closeFn,
\* which closes the connection under the others.
CloseFar ==
  /\ ~farClosed
  /\ farClosed' = TRUE
  /\ UNCHANGED <<frps, live, user, sudp, farLoops>>
FarLoopEnds(l) ==
  /\ l \in farLoops
  /\ Packets \notin live \/ (l = "heartbeat" /\ farClosed)
  /\ farLoops' = farLoops \ {l} /\ live' = live \ {Packets}
  /\ UNCHANGED <<frps, user, sudp, farClosed>>
Breaks(c) ==
  /\ c \in live
  /\ live' = live \ {c}
  /\ UNCHANGED <<frps, user, sudp, far>>

Register(c) == PutConn(c) \/ PutConnFull(c) \/ Refuse(c)
Next ==
  \/ \E o \in Owner : Run(o) \/ CloseChannel(o) \/ CloseListener(o) \/ Accept(o)
  \/ \E c \in VisitConn : Register(c) \/ ServeEnds(c) \/ Breaks(c)
  \/ \E c \in Visitor : Visit(c) \/ Joined(c) \/ VisitEnds(c)
  \/ InWorkConn \/ FirstPacket \/ DispatcherEnds \/ Connected \/ ConnectFails
  \/ ReaderEnds \/ SenderEnds \/ WorkerEnds \/ CloseVisitor \/ CloseFar
  \/ \E l \in {"reader", "sender", "heartbeat"} : FarLoopEnds(l)

\* The goroutines of a tunnel run; a reader of a dead connection gets an error.
Fairness ==
  WF_secretVars(\/ FarLoopEnds("heartbeat") \/ (Packets \notin live /\ ReaderEnds)
                \/ SenderEnds \/ WorkerEnds)

SecretSpec == Init /\ [][Next]_secretVars /\ Fairness

-----------------------------------------------------------------------------
\* When the connection breaks or either end of the sudp tunnel is closed, the loops
\* at both ends wake each other up: the visitor's worker returns and the visitor can
\* take the next packet.
SudpEndsTogether ==
  (dispatcher = "work" /\ (Packets \notin live \/ closed \/ (farClosed /\ farLoops # {})))
    ~> dispatcher # "work"
=============================================================================
