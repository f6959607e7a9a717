--------------------------- MODULE ServerMetrics ---------------------------
(***************************************************************************)
(* The statistics of frps: the events the control, the service and the     *)
(* proxies report (server/control.go, server/service.go, server/proxy),    *)
(* the aggregate that hands each to the memory and prometheus collectors,  *)
(* and the collectors (pkg/metrics, pkg/util/metric).                      *)
(*                                                                         *)
(* The events come from many goroutines: the manager or stoper of each     *)
(* control, the handler of each user connection, the forwarding loops of   *)
(* udp proxies, the dashboard, and the cleaner.  An event of the           *)
(* collectors is one step: its counters are atomic or behind a mutex.      *)
(* Between the step of the server it reports and the event, others run.    *)
(***************************************************************************)
EXTENDS Integers, FiniteSets

CONSTANTS
  Reg,          \* registrations of proxies, each by some control
  Shape,        \* their names and types: [Reg -> [name, type]]
  UserConn,     \* connections of users
  Client,       \* logins
  Parties,      \* which of them take part, a set of sets
  ReserveDays,  \* days a DateCounter keeps (7)
  ClearDays,    \* days after which the statistics of a closed proxy go (7)
  Midnight      \* hours since the start, [0..MaxDay -> Nat]

VARIABLES
  phase,        \* how far a registration is
  visitor,      \* how far a user connection is, and of which registration
  login,        \* how far a login is
  today,        \* the date
  total,        \* TotalTrafficIn and TotalTrafficOut
  curConns, clientCounts, typeCounts,  \* the counters of ServerStatistics
  stats,        \* ProxyStatistics, by name
  gauge,        \* prometheus: connectionCount, by name and type
  moved         \* history: the traffic reported on each day

counters == <<total, curConns, clientCounts, typeCounts, stats, gauge, moved>>
metricVars == <<phase, visitor, login, today, counters>>

Dir  == {"in", "out"}
ProxyName == {Shape[r].name : r \in Reg}
Type == {Shape[r].type : r \in Reg}
NoStats == [type |-> "none"]
OfName(r) == Shape[r].name
OfType(r) == Shape[r].type
Days == DOMAIN Midnight

\* The calendar: the midnights of local time come one after the other, mostly 24 hours
\* apart; when the clocks are set forward or back, 23 or 25.
Calendar ==
  /\ ReserveDays \in Nat \ {0}
  /\ Days \subseteq Nat /\ 0 \in Days /\ \A d \in Days : 0..d \subseteq Days
  /\ \A d \in Days : Midnight[d] \in Nat
  /\ \A d, e \in Days : e <= d => Midnight[e] <= Midnight[d]
\* What there is to count; no type of proxy is the one of NoStats.
Countable ==
  /\ IsFiniteSet(Reg) /\ IsFiniteSet(UserConn) /\ IsFiniteSet(Client)
  /\ "none" \notin Type
ASSUME MetricsAssumption == Calendar /\ Countable

\* ProxyStatistics, and its changes.
ProxyStats(type, conns, traffic, closedLast, closeDay) ==
  [type |-> type, curConns |-> conns, traffic |-> traffic,
   closedLast |-> closedLast, closeDay |-> closeDay]
Reopened(s) == ProxyStats(s.type, s.curConns, s.traffic, FALSE, s.closeDay)
Closed(s) == ProxyStats(s.type, s.curConns, s.traffic, TRUE, today)
WithConns(s, n) == ProxyStats(s.type, n, s.traffic, s.closedLast, s.closeDay)
WithTraffic(s, tr) == ProxyStats(s.type, s.curConns, tr, s.closedLast, s.closeDay)

-----------------------------------------------------------------------------
(* DateCounter.                                                            *)

NewDateCounter(d) == [date |-> d, counts |-> [i \in 0..(ReserveDays - 1) |-> 0]]

\* Mutant: the counter moves by one day however many have passed.
RotateOnce(c, d) ==
  LET days == IF d > c.date THEN 1 ELSE 0
  IN  [date |-> d,
       counts |-> [i \in DOMAIN c.counts |-> IF i < days THEN 0 ELSE c.counts[i - days]]]

\* Every operation of a counter first moves its counts to the date d: by the
\* hours between the two midnights, in whole days.
rotate(c, d) ==
  LET days == (Midnight[d] - Midnight[c.date]) \div 24
  IN  [date |-> d,
       counts |-> [i \in DOMAIN c.counts |-> IF i < days THEN 0 ELSE c.counts[i - days]]]

Inc(c) ==
  LET now == rotate(c, today)
  IN  [date |-> now.date, counts |-> [now.counts EXCEPT ![0] = @ + 1]]
Today(c) == [dir \in Dir |-> rotate(c[dir], today)]

-----------------------------------------------------------------------------
MetricsInit ==
  /\ \E party \in Parties :
       /\ phase = [r \in Reg |-> IF r \in party THEN "never" ELSE "closed"]
       /\ visitor = [c \in UserConn |-> [at |-> IF c \in party THEN "none" ELSE "over"]]
       /\ login = [c \in Client |-> IF c \in party THEN "none" ELSE "over"]
  /\ today = 0
  /\ total = [dir \in Dir |-> NewDateCounter(0)]
  /\ curConns = 0 /\ clientCounts = 0 /\ typeCounts = [t \in Type |-> 0]
  /\ stats = [n \in ProxyName |-> NoStats]
  /\ gauge = [k \in ProxyName \X Type |-> 0]
  /\ moved = [dir \in Dir |-> [d \in Days |-> 0]]

NextDay ==
  /\ today + 1 \in Days /\ today' = today + 1
  /\ UNCHANGED <<phase, visitor, login, counters>>

-----------------------------------------------------------------------------
(* Logins and proxies.                                                     *)

\* RegisterControl starts the control and counts the client afterwards; the
\* control's stoper may be faster.
RegisterControl(c) ==
  /\ login[c] = "none" /\ login' = [login EXCEPT ![c] = "started"]
  /\ UNCHANGED <<phase, visitor, today, counters>>

NewClient(c) ==
  /\ login[c] \in {"started", "left"}
  /\ login' = [login EXCEPT ![c] = IF @ = "started" THEN "counted" ELSE "over"]
  /\ clientCounts' = clientCounts + 1
  /\ UNCHANGED <<phase, visitor, today, total, curConns, typeCounts, stats, gauge, moved>>

CloseClient(c) ==
  /\ login[c] \in {"started", "counted"}
  /\ login' = [login EXCEPT ![c] = IF @ = "started" THEN "left" ELSE "over"]
  /\ clientCounts' = clientCounts - 1
  /\ UNCHANGED <<phase, visitor, today, total, curConns, typeCounts, stats, gauge, moved>>

\* RegisterProxy runs the proxy and takes its name, if nobody has it.
RunProxy(r) ==
  /\ phase[r] = "never"
  /\ \A q \in Reg : OfName(q) = OfName(r) => phase[q] \notin {"added", "running"}
  /\ phase' = [phase EXCEPT ![r] = "added"]
  /\ UNCHANGED <<visitor, login, today, counters>>

\* The manager reports the new proxy.  Statistics of an earlier proxy of this
\* name are continued if the type is the same, and dropped if not.
NewProxy(r) ==
  /\ phase[r] = "added" /\ phase' = [phase EXCEPT ![r] = "running"]
  /\ typeCounts' = [typeCounts EXCEPT ![OfType(r)] = @ + 1]
  /\ stats' = [stats EXCEPT ![OfName(r)] =
       IF @.type = OfType(r) THEN Reopened(@)
       ELSE ProxyStats(OfType(r), 0, [dir \in Dir |-> NewDateCounter(today)], FALSE, today)]
  /\ UNCHANGED <<visitor, login, today, total, curConns, clientCounts, gauge, moved>>

\* CloseProxy or the stoper closes the proxy and gives its name back ...
RemoveProxy(r) ==
  /\ phase[r] = "running" /\ phase' = [phase EXCEPT ![r] = "removed"]
  /\ UNCHANGED <<visitor, login, today, counters>>

\* Mutant: the counter of the type that the statistics have now is lowered.
CloseProxyByName(r) ==
  /\ phase[r] = "removed" /\ phase' = [phase EXCEPT ![r] = "closed"]
  /\ stats[OfName(r)] # NoStats
  /\ typeCounts' = [typeCounts EXCEPT ![stats[OfName(r)].type] = @ - 1]
  /\ stats' = [stats EXCEPT ![OfName(r)] = Closed(@)]
  /\ UNCHANGED <<visitor, login, today, total, curConns, clientCounts, gauge, moved>>

\* ... and then reports it, possibly after the next proxy of the name began.
CloseProxy(r) ==
  /\ phase[r] = "removed" /\ phase' = [phase EXCEPT ![r] = "closed"]
  /\ typeCounts' = [typeCounts EXCEPT ![OfType(r)] = @ - 1]
  /\ stats' = IF stats[OfName(r)] = NoStats THEN stats
              ELSE [stats EXCEPT ![OfName(r)] = Closed(@)]
  /\ UNCHANGED <<visitor, login, today, total, curConns, clientCounts, gauge, moved>>

\* clearUselessInfo, every twelve hours.
clearUselessInfo ==
  /\ stats' = [n \in ProxyName |->
       IF stats[n] # NoStats /\ stats[n].closedLast
          /\ Midnight[today] - Midnight[stats[n].closeDay] > 24 * ClearDays
       THEN NoStats ELSE stats[n]]
  /\ UNCHANGED <<phase, visitor, login, today, total, curConns, clientCounts, typeCounts, gauge, moved>>

-----------------------------------------------------------------------------
(* Traffic.                                                                *)

\* A connection is handed to a proxy that listens; its handler needs a while
\* to get a work connection.
Accept(c, r) ==
  /\ visitor[c].at = "none" /\ phase[r] \in {"added", "running"} /\ OfType(r) # "udp"
  /\ visitor' = [visitor EXCEPT ![c] = [at |-> "wait", reg |-> r]]
  /\ UNCHANGED <<phase, login, today, counters>>

AddConn(c, d) ==
  LET r == visitor[c].reg
  IN  /\ curConns' = curConns + d
      /\ stats' = IF stats[OfName(r)] = NoStats THEN stats
                  ELSE [stats EXCEPT ![OfName(r)] = WithConns(@, @.curConns + d)]
      /\ gauge' = [gauge EXCEPT ![<<OfName(r), OfType(r)>>] = @ + d]

OpenConnection(c) ==
  /\ visitor[c].at = "wait" /\ visitor' = [visitor EXCEPT ![c] = [at |-> "open", reg |-> @.reg]]
  /\ AddConn(c, 1)
  /\ UNCHANGED <<phase, login, today, total, clientCounts, typeCounts, moved>>

\* The end of Join: the connection is counted down, then its traffic reported.
CloseConnection(c) ==
  /\ visitor[c].at = "open" /\ visitor' = [visitor EXCEPT ![c] = [at |-> "left", reg |-> @.reg]]
  /\ AddConn(c, -1)
  /\ UNCHANGED <<phase, login, today, total, clientCounts, typeCounts, moved>>

\* AddTrafficIn and AddTrafficOut of one unit, for the directions given.
Move(n, dirs) ==
  LET Add(cs) == [dir \in Dir |-> IF dir \in dirs THEN Inc(cs[dir]) ELSE cs[dir]]
  IN  /\ total' = Add(total)
      /\ stats' = IF stats[n] = NoStats THEN stats
                  ELSE [stats EXCEPT ![n] = WithTraffic(@, Add(@.traffic))]
      /\ moved' = [dir \in Dir |->
                    [moved[dir] EXCEPT ![today] = IF dir \in dirs THEN @ + 1 ELSE @]]

AddTraffic(c) ==
  /\ visitor[c].at = "left" /\ visitor' = [visitor EXCEPT ![c] = [at |-> "over"]]
  /\ Move(OfName(visitor[c].reg), Dir)
  /\ UNCHANGED <<phase, login, today, curConns, clientCounts, typeCounts, gauge>>

\* A udp proxy reports each packet and no connections.
AddPacket(c, r, dir) ==
  /\ visitor[c].at = "none" /\ phase[r] \in {"added", "running"} /\ OfType(r) = "udp"
  /\ visitor' = [visitor EXCEPT ![c] = [at |-> "over"]]
  /\ Move(OfName(r), {dir})
  /\ UNCHANGED <<phase, login, today, curConns, clientCounts, typeCounts, gauge>>

-----------------------------------------------------------------------------
(* The dashboard: to read a date counter moves it to today.                *)

GetServer ==
  /\ total' = Today(total)
  /\ UNCHANGED <<phase, visitor, login, today, curConns, clientCounts, typeCounts, stats, gauge, moved>>

GetProxies(ns) ==
  /\ stats' = [n \in ProxyName |->
       IF n \in ns /\ stats[n] # NoStats
       THEN WithTraffic(stats[n], Today(stats[n].traffic)) ELSE stats[n]]
  /\ UNCHANGED <<phase, visitor, login, today, total, curConns, clientCounts, typeCounts, gauge, moved>>

GetProxiesByType(t) == GetProxies({n \in ProxyName : stats[n].type = t})
GetProxyTraffic(n)  == GetProxies({n})

-----------------------------------------------------------------------------
MetricsNext ==
  \/ NextDay \/ clearUselessInfo \/ GetServer
  \/ \E t \in Type : GetProxiesByType(t)
  \/ \E n \in ProxyName : GetProxyTraffic(n)
  \/ \E c \in Client : RegisterControl(c) \/ NewClient(c) \/ CloseClient(c)
  \/ \E r \in Reg : RunProxy(r) \/ NewProxy(r) \/ RemoveProxy(r) \/ CloseProxy(r)
  \/ \E c \in UserConn :
       \/ OpenConnection(c) \/ CloseConnection(c) \/ AddTraffic(c)
       \/ \E r \in Reg : Accept(c, r) \/ \E dir \in Dir : AddPacket(c, r, dir)

MetricsSpec == MetricsInit /\ [][MetricsNext]_metricVars

-----------------------------------------------------------------------------
(* Properties.                                                             *)

\* No two midnights up to date d are closer than the days between them.
WholeDays(d) ==
  \A x, y \in Days : x <= y /\ y <= d => (Midnight[y] - Midnight[x]) \div 24 = y - x
\* The traffic of day d is at least i times 24 hours old at the start of day t.
AsOldAs(i, d, t) == d <= t /\ 24 * i <= Midnight[t] - Midnight[d]

\* What the dashboard reads from a date counter, however many days pass between two
\* reports and whoever moved it last.  Up to the first day of 23 hours it is the
\* traffic that was reported on each of the last days.  From then on the traffic of a
\* day may be shown with that of the next, but all of today's is shown as today's, and
\* none as older than it is.
TrafficByDay ==
  \A dir \in Dir :
    LET counts == rotate(total[dir], today).counts
        h      == moved[dir]
    IN  /\ WholeDays(today) => \A i \in 0..(ReserveDays - 1) :
             counts[i] = IF i <= today THEN h[today - i] ELSE 0
        /\ counts[0] >= h[today]
        /\ \A i \in 0..(ReserveDays - 1) :
             counts[i] # 0 => \E d \in Days : h[d] # 0 /\ AsOldAs(i, d, today)

\* The proxies of a type between NewProxy and CloseProxy, the open connections,
\* those of a name and type and of a name, and the logins in a state.
RunningOf(t) == {r \in Reg : OfType(r) = t /\ phase[r] \in {"running", "removed"}}
OpenConns == {c \in UserConn : visitor[c].at = "open"}
OpenAt(n, t) == {c \in OpenConns : OfName(visitor[c].reg) = n /\ OfType(visitor[c].reg) = t}
OpenOf(n) == {c \in OpenConns : OfName(visitor[c].reg) = n}
Logins(s) == {c \in Client : login[c] = s}

\* The counters agree with the server although each event is reported after
\* the fact: the proxies of each type, the connections, those of prometheus by
\* name and type, and the clients.  A proxy's own CurConns never counts a
\* connection that is not there (it may miss one opened before NewProxy was
\* reported or under another type).
CountsMatch ==
  /\ \A t \in Type : typeCounts[t] = Cardinality(RunningOf(t))
  /\ curConns = Cardinality(OpenConns)
  /\ \A n \in ProxyName, t \in Type : gauge[<<n, t>>] = Cardinality(OpenAt(n, t))
  /\ \A n \in ProxyName : stats[n] # NoStats => stats[n].curConns <= Cardinality(OpenOf(n))
  /\ clientCounts = Cardinality(Logins("counted")) - Cardinality(Logins("left"))
=============================================================================
