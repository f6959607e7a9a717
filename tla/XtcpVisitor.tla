----------------------------- MODULE XtcpVisitor ----------------------------
(***************************************************************************)
(* The tunnel of an xtcp visitor (client/visitor/xtcp.go): one session to  *)
(* the owner of the proxy, shared by all user connections and set up again *)
(* by one worker when somebody finds it missing or broken.  The hole       *)
(* itself, makeNatHole, is the subject of module NatHole and either        *)
(* succeeds or fails here.  The users and the keepTunnelOpen worker find   *)
(* the broken session, close it and ask for a new one in separate steps,   *)
(* while the worker may be putting the new one in place.                   *)
(***************************************************************************)
EXTENDS Naturals

CONSTANTS
  TunnelUser,      \* user connections, each used again when it has ended
  KeepTunnelOpen,  \* keep_tunnel_open is set
  Fallback         \* fallback_to is set

VARIABLES
  tunnel,   \* the TunnelSession: "none", "up" or "broken"
  starter,  \* processTunnelStartEvents
  retryer,  \* keepTunnelOpenWorker
  visit,    \* visit[u]: handleConn of a user connection
  stopped   \* sv.ctx is cancelled

vars == <<tunnel, starter, retryer, visit, stopped>>

\* Run starts the goroutines; the retry worker begins with a trigger.
Init ==
  /\ tunnel = "none" /\ starter = "receive" /\ stopped = FALSE
  /\ retryer = IF KeepTunnelOpen THEN "first" ELSE "end"
  /\ visit = [u \in TunnelUser |-> "none"]

-----------------------------------------------------------------------------
\* processTunnelStartEvents.  Its channel has no buffer: a trigger is taken only
\* while the loop is at its receive.
Trigger(taken) ==
  /\ taken => starter = "receive"
  /\ starter' = IF taken THEN "exchange" ELSE starter
\* PreCheck, Prepare and ExchangeInfo.  The select of the transporter's Do takes the
\* answer or the cancel of sv.ctx: with both there it may still take the answer.
ExchangeOK ==
  /\ starter = "exchange"
  /\ starter' = "punch"
  /\ UNCHANGED <<tunnel, retryer, visit, stopped>>
\* MakeHole and TunnelSession.Init: the new session takes the place of whatever
\* is there.
TunnelInit ==
  /\ starter = "punch"
  /\ tunnel' = "up" /\ starter' = "pause"
  /\ UNCHANGED <<retryer, visit, stopped>>
\* A failure anywhere in makeNatHole is logged and the loop goes on.
MakeFailsForGood ==
  /\ starter \in {"exchange", "punch"}
  /\ starter' = "end"
  /\ UNCHANGED <<tunnel, retryer, visit, stopped>>
MakeFails ==
  /\ starter \in {"exchange", "punch"}
  /\ starter' = "pause"
  /\ UNCHANGED <<tunnel, retryer, visit, stopped>>
\* At most one hole in ten seconds.
PauseEnds ==
  /\ starter = "pause"
  /\ starter' = "receive"
  /\ UNCHANGED <<tunnel, retryer, visit, stopped>>
StarterEnds ==
  /\ starter = "receive" /\ stopped
  /\ starter' = "end"
  /\ UNCHANGED <<tunnel, retryer, visit, stopped>>

-----------------------------------------------------------------------------
\* keepTunnelOpenWorker: the first send blocks, whether or not the visitor is
\* still open.
FirstTrigger ==
  /\ retryer = "first"
  /\ Trigger(TRUE)
  /\ retryer' = "tick"
  /\ UNCHANGED <<tunnel, visit, stopped>>
\* getTunnelConn in its three steps: OpenConn, Close of the session there is by
\* then, and the trigger, dropped unless the loop is receiving.
RetryOpens ==
  /\ retryer = "tick"
  /\ retryer' = IF tunnel = "up" THEN "tick" ELSE "close"
  /\ UNCHANGED <<tunnel, starter, visit, stopped>>
RetryCloses ==
  /\ retryer = "close"
  /\ tunnel' = "none" /\ retryer' = "trigger"
  /\ UNCHANGED <<starter, visit, stopped>>
RetryTriggers ==
  /\ retryer = "trigger"
  /\ Trigger(starter = "receive")
  /\ retryer' = "tick"
  /\ UNCHANGED <<tunnel, visit, stopped>>
RetryEnds ==
  /\ retryer = "tick" /\ stopped
  /\ retryer' = "end"
  /\ UNCHANGED <<tunnel, starter, visit, stopped>>

-----------------------------------------------------------------------------
\* worker and internalConnWorker accept a user connection.
VisitArrives(u) ==
  /\ visit[u] = "none" /\ ~stopped
  /\ visit' = [visit EXCEPT ![u] = "open"]
  /\ UNCHANGED <<tunnel, starter, retryer, stopped>>
\* openTunnel: getTunnelConn at once and at every tick, until there is a
\* connection, the visitor is closed or the time is up.
VisitOpens(u) ==
  /\ visit[u] = "open"
  /\ visit' = [visit EXCEPT ![u] = IF tunnel = "up" THEN "joined" ELSE "close"]
  /\ UNCHANGED <<tunnel, starter, retryer, stopped>>
VisitCloses(u) ==
  /\ visit[u] = "close"
  /\ tunnel' = "none" /\ visit' = [visit EXCEPT ![u] = "trigger"]
  /\ UNCHANGED <<starter, retryer, stopped>>
VisitTriggers(u) ==
  /\ visit[u] = "trigger"
  /\ Trigger(starter = "receive")
  /\ visit' = [visit EXCEPT ![u] = "open"]
  /\ UNCHANGED <<tunnel, retryer, stopped>>
\* No tunnel in time: the connection goes to the fallback visitor if there is one
\* that takes it, else it is closed.
VisitGivesUp(u) ==
  /\ visit[u] = "open"
  /\ \/ visit' = [visit EXCEPT ![u] = "none"]
     \/ Fallback /\ visit' = [visit EXCEPT ![u] = "moved"]
  /\ UNCHANGED <<tunnel, starter, retryer, stopped>>
\* The joined connections are closed, or the other visitor is done with it.
VisitEnds(u) ==
  /\ visit[u] \in {"joined", "moved"}
  /\ visit' = [visit EXCEPT ![u] = "none"]
  /\ UNCHANGED <<tunnel, starter, retryer, stopped>>

\* The peer is gone or the NAT forgot the hole.
TunnelBreaks ==
  /\ tunnel = "up"
  /\ tunnel' = "broken"
  /\ UNCHANGED <<starter, retryer, visit, stopped>>
\* Close: the listeners, the context and the session of that moment.
CloseVisitor ==
  /\ ~stopped
  /\ stopped' = TRUE /\ tunnel' = "none"
  /\ UNCHANGED <<starter, retryer, visit>>

-----------------------------------------------------------------------------
Starter == ExchangeOK \/ TunnelInit \/ MakeFails \/ PauseEnds \/ StarterEnds
Retry == FirstTrigger \/ RetryOpens \/ RetryCloses \/ RetryTriggers \/ RetryEnds
Next ==
  \/ Starter \/ Retry \/ TunnelBreaks \/ CloseVisitor
  \/ \E u \in TunnelUser : \/ VisitArrives(u) \/ VisitOpens(u) \/ VisitCloses(u)
                      \/ VisitTriggers(u) \/ VisitGivesUp(u) \/ VisitEnds(u)

\* The goroutines run, and a hole that is tried again and again is made some day.
Fairness ==
  /\ WF_vars(Starter) /\ SF_vars(ExchangeOK) /\ SF_vars(TunnelInit)
  /\ WF_vars(Retry)

Spec == Init /\ [][Next]_vars /\ Fairness

-----------------------------------------------------------------------------
\* With keep_tunnel_open a broken or missing tunnel comes back, although triggers
\* are dropped while the starter is busy and a slow getTunnelConn may close the
\* session that has just replaced the one it found broken.
TunnelReopens ==
  KeepTunnelOpen => ((tunnel # "up" /\ ~stopped) ~> (tunnel = "up" \/ stopped))
=============================================================================
