------------------------------ MODULE UDPTunnel -----------------------------
(***************************************************************************)
(* A udp proxy: its server side (server/proxy/udp.go), its client side     *)
(* (client/proxy/udp.go) and the loops between packets and messages that   *)
(* both use (pkg/proto/udp/udp.go).  All packets travel in messages over   *)
(* one work connection, which is replaced when it breaks.  Packets have no *)
(* content here, and queues drop what they cannot take, so what matters is *)
(* which goroutines run, which channels are closed and which connection is *)
(* the current one.                                                        *)
(***************************************************************************)
EXTENDS Naturals, FiniteSets

CONSTANTS
  WorkConn   \* work connections, each used again once nobody has it

VARIABLES
  manager,   \* the goroutine of Run: [at, wc]
  isClosed,  \* UDPProxy.isClosed; checkCloseCh, readCh and sendCh are closed with it
  current,   \* UDPProxy.workConn, as a set of at most one
  forwarder, \* ForwardUserConn: "read", "send", "ended" or "panicked"
  releases,  \* how often Close has released the port
  open,      \* the work connections that neither end has closed
  reader,    \* reader[w]: workConnReaderFn on the server
  sender,    \* sender[w]: workConnSenderFn on the server
  cliConn,   \* the workConn of the client side, as a set of at most one
  cliClosed, \* closed of the client side; its readCh and sendCh too
  cliStage,  \* cliStage[w]: InWorkConn
  cliWriter, \* the connections that the client still writes packets and heartbeats to
  stopped    \* the wrapper of the client has closed the proxy

udpServer == <<manager, isClosed, current, forwarder, releases, reader, sender>>
udpClient == <<cliConn, cliClosed, cliStage, cliWriter, stopped>>
udpVars == <<udpServer, open, udpClient>>

Getting == [at |-> "get"]
Init ==
  /\ manager = Getting /\ isClosed = FALSE /\ current = {}
  /\ forwarder = "read" /\ releases = 0 /\ open = {}
  /\ reader = [w \in WorkConn |-> "off"] /\ sender = [w \in WorkConn |-> "off"]
  /\ cliConn = {} /\ cliClosed = FALSE /\ cliWriter = {}
  /\ cliStage = [w \in WorkConn |-> "none"] /\ stopped = FALSE

-----------------------------------------------------------------------------
(* The server.                                                             *)

\* GetWorkConnFromPool gives a connection over which StartWorkConn was written.
Free(w) == /\ w \notin open /\ w \notin current \union cliConn \union cliWriter
           /\ reader[w] = "off" /\ sender[w] = "off" /\ cliStage[w] = "none"
GetConn(w) ==
  /\ manager = Getting /\ Free(w)
  /\ manager' = [at |-> "got", wc |-> w]
  /\ open' = open \union {w}
  /\ cliStage' = [cliStage EXCEPT ![w] = "start"]
  /\ UNCHANGED <<isClosed, current, forwarder, releases, reader, sender,
                 cliConn, cliClosed, cliWriter, stopped>>
\* It fails: the loop ends if the proxy was closed meanwhile, else it tries again.
GetFails ==
  /\ manager = Getting /\ isClosed
  /\ manager' = [at |-> "end"]
  /\ UNCHANGED <<isClosed, current, forwarder, releases, reader, sender, open, udpClient>>
\* The new connection replaces the old one and gets its two goroutines, also when
\* the proxy was closed while the loop was waiting for it.
StartConn ==
  /\ manager.at = "got"
  /\ manager' = [manager EXCEPT !.at = "wait"]
  /\ open' = open \ current
  /\ current' = {manager.wc}
  /\ reader' = [reader EXCEPT ![manager.wc] = "read"]
  /\ sender' = [sender EXCEPT ![manager.wc] = "run"]
  /\ UNCHANGED <<isClosed, forwarder, releases, udpClient>>
\* WithEncryption fails.
SetupFails ==
  /\ manager.at = "got"
  /\ manager' = Getting
  /\ open' = (open \ current) \ {manager.wc}
  /\ UNCHANGED <<isClosed, current, forwarder, releases, reader, sender, udpClient>>
\* A value from checkCloseCh, or its end: the sender is cancelled.
Notified ==
  /\ manager.at = "wait"
  /\ \/ /\ reader[manager.wc] = "notify" /\ ~isClosed
        /\ reader' = [reader EXCEPT ![manager.wc] = "off"]
        /\ manager' = Getting
     \/ /\ isClosed
        /\ manager' = [at |-> "end"]
        /\ UNCHANGED reader
  /\ sender' = [sender EXCEPT ![manager.wc] = IF @ = "off" THEN "off" ELSE "cancelled"]
  /\ UNCHANGED <<isClosed, current, forwarder, releases, open, udpClient>>

\* A read error, or no message for 60 seconds.
ReadFailsSilently(w) ==
  /\ reader[w] = "read"
  /\ open' = open \ {w}
  /\ reader' = [reader EXCEPT ![w] = "off"]
  /\ UNCHANGED <<manager, isClosed, current, forwarder, releases, sender, udpClient>>
ReadFails(w) ==
  /\ reader[w] = "read"
  /\ open' = open \ {w}
  /\ reader' = [reader EXCEPT ![w] = IF isClosed THEN "off" ELSE "notify"]
  /\ UNCHANGED <<manager, isClosed, current, forwarder, releases, sender, udpClient>>
\* Sending to checkCloseCh or readCh of a closed proxy panics, which is caught.
ReaderEnds(w) ==
  /\ isClosed /\ reader[w] # "off"
  /\ reader[w] = "read" => w \in open
  /\ open' = open \ {w}
  /\ reader' = [reader EXCEPT ![w] = "off"]
  /\ UNCHANGED <<manager, isClosed, current, forwarder, releases, sender, udpClient>>
\* A write error closes the connection; a cancelled context or a closed sendCh does not.
SenderEnds(w) ==
  /\ sender[w] # "off"
  /\ sender' = [sender EXCEPT ![w] = "off"]
  /\ \/ open' = open \ {w}
     \/ (sender[w] = "cancelled" \/ isClosed) /\ UNCHANGED open
  /\ UNCHANGED <<manager, isClosed, current, forwarder, releases, reader, udpClient>>

\* UDPProxy.Close: once for the control and once when ForwardUserConn has returned;
\* the port is released each time.
Close ==
  /\ isClosed' = TRUE
  /\ open' = IF isClosed THEN open ELSE open \ current
  /\ releases' = releases + 1
ControlCloses ==
  /\ releases = 0 \/ (releases = 1 /\ forwarder = "ended")
  /\ Close
  /\ UNCHANGED <<manager, current, forwarder, reader, sender, udpClient>>
\* ForwardUserConn: a packet is read and then sent to sendCh.  It ends when reading
\* fails: Close has closed the socket, or the read fails by itself, and then the
\* proxy is closed while the control still has it.
PacketArrives ==
  /\ forwarder = "read" /\ ~isClosed
  /\ forwarder' = "send"
  /\ UNCHANGED <<manager, isClosed, current, releases, reader, sender, open, udpClient>>
PacketSent ==
  /\ forwarder = "send"
  /\ forwarder' = IF isClosed THEN "panicked" ELSE "read"
  /\ UNCHANGED <<manager, isClosed, current, releases, reader, sender, open, udpClient>>
ForwarderEnds ==
  /\ forwarder = "read"
  /\ forwarder' = "ended"
  /\ Close
  /\ UNCHANGED <<manager, current, reader, sender, udpClient>>

-----------------------------------------------------------------------------
(* The client.                                                             *)

\* UDPProxy.Close of the client
CliClose ==
  /\ cliClosed' = TRUE
  /\ open' = IF cliClosed THEN open ELSE open \ cliConn
\* Wrapper.InWorkConn starts InWorkConn unless the proxy was stopped before.
InWorkConn(w) ==
  /\ cliStage[w] = "start"
  /\ IF stopped THEN /\ cliStage' = [cliStage EXCEPT ![w] = "none"]
                     /\ open' = open \ {w}
                     /\ UNCHANGED cliClosed
     ELSE CliClose /\ cliStage' = [cliStage EXCEPT ![w] = "setup"]
  /\ UNCHANGED <<udpServer, cliConn, cliWriter, stopped>>
InWorkConnRuns(w) ==
  /\ cliStage[w] = "setup"
  /\ cliStage' = [cliStage EXCEPT ![w] = "none"]
  /\ \/ /\ cliConn' = {w} /\ cliClosed' = FALSE
        /\ cliWriter' = cliWriter \union {w}
        /\ UNCHANGED open
     \/ open' = open \ {w} /\ UNCHANGED <<cliConn, cliClosed, cliWriter>>
  /\ UNCHANGED <<udpServer, stopped>>
\* workConnSenderFn: after a write error the connection is left open, but no packet
\* and no heartbeat goes over it any more.
CliWriterEnds(w) ==
  /\ w \in cliWriter
  /\ cliWriter' = cliWriter \ {w}
  /\ UNCHANGED <<udpServer, open, cliConn, cliClosed, cliStage, stopped>>
StopClient ==
  /\ ~stopped
  /\ stopped' = TRUE
  /\ CliClose
  /\ UNCHANGED <<udpServer, cliConn, cliStage, cliWriter>>
\* The network
Breaks(w) ==
  /\ w \in open
  /\ open' = open \ {w}
  /\ UNCHANGED <<udpServer, udpClient>>

-----------------------------------------------------------------------------
\* Nothing comes over a connection that is closed or whose client writer is gone.
Silent(w) == w \notin open \/ (cliStage[w] = "none" /\ w \notin cliWriter)
SilenceNoticed(w) == Silent(w) /\ ReadFails(w)
Server ==
  \/ GetFails \/ StartConn \/ SetupFails \/ Notified
  \/ ControlCloses \/ PacketArrives \/ PacketSent \/ ForwarderEnds
  \/ \E w \in WorkConn : GetConn(w) \/ ReadFails(w) \/ ReaderEnds(w) \/ SenderEnds(w)
Client ==
  \/ StopClient
  \/ \E w \in WorkConn : \/ InWorkConn(w) \/ InWorkConnRuns(w) \/ CliWriterEnds(w)
                         \/ Breaks(w)
\* A panic of the forwarder is the end of frps.
Next == forwarder # "panicked" /\ (Server \/ Client)

\* The goroutine of Run goes on, and a reader that hears nothing meets its deadline.
Fairness == WF_udpVars(Notified \/ \E w \in WorkConn : SilenceNoticed(w))

UDPSpec == Init /\ [][Next]_udpVars /\ Fairness

-----------------------------------------------------------------------------
\* A udp proxy that is open does not stay with a dead work connection: when its
\* connection is closed, or is open but without the client's heartbeats, the loop of
\* Run asks for another one.
DeadConnReplaced ==
  (manager.at = "wait" /\ Silent(manager.wc) /\ ~isClosed) ~> (manager.at # "wait" \/ isClosed)

\* "Close readCh and sendCh at the end": while ForwardUserConn runs its channels are
\* open, so that it cannot panic.
ChannelsOutliveForwarding == forwarder # "panicked"
=============================================================================
