--------------------------- MODULE Server_proofs ---------------------------
(***************************************************************************)
(* Proofs about the statistics of frps, for any number of proxies,         *)
(* connections, clients and days, and about the way of a configuration     *)
(* from the client to frps, for any files, offers and plugins.             *)
(***************************************************************************)
EXTENDS ServerMetrics, ProxyConfig, Sequences, FiniteSetTheorems, SequenceTheorems, TLAPS

-----------------------------------------------------------------------------
(***************************************************************************)
(* Traffic.  A date counter holds what was reported on the days up to its  *)
(* date, and nothing was reported since.  On which day it shows it depends *)
(* on the calendar.                                                        *)
(***************************************************************************)
Slots == 0..(ReserveDays - 1)
Counter == [date : Days, counts : [Slots -> Nat]]

\* The counts of c are those of the history h.
ByDay(c, h) == \A i \in Slots : c.counts[i] = IF i <= c.date THEN h[c.date - i] ELSE 0
NotOlder(c, h) ==
  \A i \in Slots : c.counts[i] # 0 => \E d \in Days : h[d] # 0 /\ AsOldAs(i, d, c.date)
Holds(c, h) ==
  /\ WholeDays(c.date) => ByDay(c, h)
  /\ c.counts[0] >= h[c.date]
  /\ NotOlder(c, h)
  /\ \A d \in Days : d > c.date => h[d] = 0

DayInv ==
  /\ today \in Days
  /\ total \in [Dir -> Counter] /\ moved \in [Dir -> [Days -> Nat]]
  /\ \A dir \in Dir : total[dir].date <= today /\ Holds(total[dir], moved[dir])

\* The days by which a counter moves.
LEMMA DaysMoved ==
  ASSUME Calendar, NEW d \in Days, NEW e \in Days, e <= d
  PROVE  LET n == (Midnight[d] - Midnight[e]) \div 24
         IN  /\ n \in Nat /\ 24 * n <= Midnight[d] - Midnight[e]
             /\ e = d => n = 0
             /\ WholeDays(d) => n = d - e /\ WholeDays(e)
<1> DEFINE h == Midnight[d] - Midnight[e]
<1>1. h \in Nat /\ (e = d => h = 0)
  BY DEF Calendar
<1>2. WholeDays(d) => h \div 24 = d - e
  BY DEF WholeDays, Calendar
<1>3. WholeDays(d) => WholeDays(e)
  <2>1. \A y \in Days : y <= e => y <= d
    BY DEF Calendar
  <2> QED BY <2>1 DEF WholeDays
<1> HIDE DEF h
<1>4. h \div 24 \in Nat /\ 24 * (h \div 24) <= h
  BY <1>1
<1> QED BY <1>1, <1>2, <1>3, <1>4 DEF h

\* A counter that is moved on holds the same history.
LEMMA RotateHolds ==
  ASSUME Calendar, NEW c \in Counter, NEW h \in [Days -> Nat], Holds(c, h),
         NEW d \in Days, c.date <= d
  PROVE  /\ rotate(c, d) \in Counter /\ rotate(c, d).date = d
         /\ Holds(rotate(c, d), h)
<1> DEFINE n == (Midnight[d] - Midnight[c.date]) \div 24
           k == [i \in Slots |-> IF i < n THEN 0 ELSE c.counts[i - n]]
<1>0. /\ ReserveDays \in Nat \ {0} /\ Days \subseteq Nat
      /\ c.date \in Days /\ c.date \in Nat /\ d \in Nat
      /\ c.counts \in [Slots -> Nat] /\ DOMAIN c.counts = Slots
  <2>1. c.date \in Days /\ c.counts \in [Slots -> Nat]
    BY DEF Counter
  <2>2. ReserveDays \in Nat \ {0} /\ Days \subseteq Nat
    BY DEF Calendar
  <2>3. c.date \in Nat /\ d \in Nat
    BY <2>1, <2>2
  <2>4. DOMAIN c.counts = Slots
    BY <2>1
  <2> QED BY <2>1, <2>2, <2>3, <2>4
<1>n. /\ n \in Nat /\ 24 * n <= Midnight[d] - Midnight[c.date]
      /\ c.date = d => n = 0
      /\ WholeDays(d) => n = d - c.date /\ WholeDays(c.date)
  BY <1>0, DaysMoved
<1>1. rotate(c, d) = [date |-> d, counts |-> k]
  BY <1>0, Zenon DEF rotate
<1> HIDE DEF n
<1>2. \A i \in Slots : i \in Nat /\ (i >= n => i - n \in Slots)
  BY <1>0, <1>n DEF Slots
<1>3. k \in [Slots -> Nat]
  <2> SUFFICES ASSUME NEW i \in Slots PROVE (IF i < n THEN 0 ELSE c.counts[i - n]) \in Nat
    OBVIOUS
  <2> QED BY <1>0, <1>n, <1>2
<1>k. \A i \in Slots : k[i] = IF i < n THEN 0 ELSE c.counts[i - n]
  OBVIOUS
<1> HIDE DEF k
<1>4. ASSUME WholeDays(d), NEW i \in Slots
      PROVE  k[i] = IF i <= d THEN h[d - i] ELSE 0
  <2>0. i \in Nat /\ n = d - c.date /\ ByDay(c, h)
    BY <1>n, <1>2, <1>4 DEF Holds
  <2>1. CASE i < n
    <3>1. d - i \in 0..d /\ d - i > c.date /\ i <= d
      BY <1>0, <2>0, <2>1
    <3>2. d - i \in Days
      BY <3>1 DEF Calendar
    <3>3. h[d - i] = 0
      BY <3>1, <3>2 DEF Holds
    <3> QED BY <1>k, <2>1, <3>1, <3>3
  <2>2. CASE i >= n
    <3>1. i - n \in Slots /\ (i - n <= c.date <=> i <= d) /\ c.date - (i - n) = d - i
      BY <1>0, <1>2, <2>0, <2>2
    <3>2. k[i] = c.counts[i - n]
      BY <1>k, <1>n, <2>0, <2>2
    <3>3. c.counts[i - n] = IF i - n <= c.date THEN h[c.date - (i - n)] ELSE 0
      BY <2>0, <3>1 DEF ByDay
    <3> QED BY <3>1, <3>2, <3>3
  <2> QED BY <1>n, <2>0, <2>1, <2>2
<1>5. \A e \in Days : e > d => h[e] = 0
  BY <1>0 DEF Holds
<1>6. k[0] >= h[d]
  <2>1. 0 \in Slots /\ 0 - n \in Int
    BY <1>0, <1>n DEF Slots
  <2>2. c.date # d => h[d] = 0
    BY <1>0 DEF Holds
  <2>3. CASE c.date # d
    BY <1>3, <2>1, <2>2, <2>3
  <2>4. CASE c.date = d
    <3>1. k[0] = c.counts[0 - n] /\ n = 0
      BY <1>k, <1>n, <2>1, <2>4
    <3> QED BY <2>4, <3>1 DEF Holds
  <2> QED BY <2>3, <2>4
<1>7. ASSUME NEW i \in Slots, k[i] # 0
      PROVE  \E e \in Days : h[e] # 0 /\ AsOldAs(i, e, d)
  <2>1. i \in Nat /\ i >= n /\ i - n \in Slots /\ c.counts[i - n] # 0
    BY <1>k, <1>n, <1>2, <1>7
  <2>2. PICK e \in Days : h[e] # 0 /\ AsOldAs(i - n, e, c.date)
    BY <2>1 DEF Holds, NotOlder
  <2>3. e <= c.date /\ 24 * (i - n) <= Midnight[c.date] - Midnight[e]
    BY <2>2 DEF AsOldAs
  <2>4. e \in Nat /\ Midnight[e] \in Int /\ Midnight[c.date] \in Int /\ Midnight[d] \in Int
    BY <1>0 DEF Calendar
  <2>5. e <= d /\ 24 * i <= Midnight[d] - Midnight[e]
    BY <1>0, <1>n, <2>1, <2>3, <2>4
  <2> QED BY <2>2, <2>5 DEF AsOldAs
<1>8. [date |-> d, counts |-> k] \in Counter
  BY <1>3 DEF Counter
<1>9. Holds([date |-> d, counts |-> k], h)
  BY <1>4, <1>5, <1>6, <1>7 DEF Holds, ByDay, NotOlder
<1> QED BY <1>1, <1>8, <1>9

\* One unit is added to the count of today and to the history of today.
LEMMA IncHolds ==
  ASSUME Calendar, NEW c \in Counter, NEW h \in [Days -> Nat], Holds(c, h),
         today \in Days, c.date <= today
  PROVE  LET h2 == [h EXCEPT ![today] = @ + 1]
         IN  /\ Inc(c) \in Counter /\ Inc(c).date = today
             /\ h2 \in [Days -> Nat] /\ Holds(Inc(c), h2)
<1> DEFINE b == rotate(c, today)
           k == [b.counts EXCEPT ![0] = b.counts[0] + 1]
           h2 == [h EXCEPT ![today] = h[today] + 1]
<1>1. b \in Counter /\ b.date = today /\ Holds(b, h)
  BY RotateHolds
<1>2. Inc(c) = [date |-> b.date, counts |-> k]
  BY DEF Inc
<1> HIDE DEF b
<1>3. 0 \in Slots /\ today \in Nat /\ Slots \subseteq Nat /\ Days \subseteq Nat
  BY DEF Slots, Calendar
<1>4. b.counts \in [Slots -> Nat]
  BY <1>1 DEF Counter
<1>5. k \in [Slots -> Nat] /\ k[0] = b.counts[0] + 1 /\ \A i \in Slots : i # 0 => k[i] = b.counts[i]
  BY <1>3, <1>4
<1>6. h2 \in [Days -> Nat] /\ h2[today] = h[today] + 1 /\ \A d \in Days : d # today => h2[d] = h[d]
  BY <1>3
<1> HIDE DEF k
<1>7. ASSUME WholeDays(today), NEW i \in Slots
      PROVE  k[i] = IF i <= today THEN h2[today - i] ELSE 0
  <2>1. b.counts[i] = IF i <= today THEN h[today - i] ELSE 0
    BY <1>1, <1>7 DEF Holds, ByDay
  <2>2. CASE i = 0
    BY <1>3, <1>5, <1>6, <2>1, <2>2
  <2>3. CASE i # 0 /\ i <= today
    <3>1. today - i \in Days /\ today - i # today
      BY <1>3, <2>3 DEF Calendar
    <3> QED BY <1>5, <1>6, <2>1, <2>3, <3>1
  <2>4. CASE i # 0 /\ ~(i <= today)
    BY <1>5, <2>1, <2>4
  <2> QED BY <2>2, <2>3, <2>4
<1>8. \A d \in Days : d > today => h2[d] = 0
  BY <1>1, <1>3, <1>6 DEF Holds
<1> HIDE DEF h2
<1>9. k[0] >= h2[today]
  <2>1. b.counts[0] >= h[today] /\ b.counts[0] \in Nat /\ h[today] \in Nat
    BY <1>1, <1>3, <1>4 DEF Holds
  <2> QED BY <1>5, <1>6, <2>1
<1>10. ASSUME NEW i \in Slots, k[i] # 0
       PROVE  \E d \in Days : h2[d] # 0 /\ AsOldAs(i, d, today)
  <2>1. CASE i = 0
    <3>1. Midnight[today] \in Int
      BY DEF Calendar
    <3>2. AsOldAs(0, today, today) /\ h2[today] # 0
      BY <1>3, <1>6, <3>1 DEF AsOldAs
    <3> QED BY <2>1, <3>2
  <2>2. CASE i # 0
    <3>1. PICK d \in Days : h[d] # 0 /\ AsOldAs(i, d, today)
      BY <1>1, <1>5, <1>10, <2>2 DEF Holds, NotOlder
    <3>2. h2[d] # 0
      BY <1>6, <3>1
    <3> QED BY <3>1, <3>2
  <2> QED BY <2>1, <2>2
<1>11. [date |-> today, counts |-> k] \in Counter
  BY <1>5 DEF Counter
<1>12. Holds([date |-> today, counts |-> k], h2)
  BY <1>7, <1>8, <1>9, <1>10 DEF Holds, ByDay, NotOlder
<1> QED BY <1>1, <1>2, <1>6, <1>11, <1>12 DEF h2

LEMMA DayInit == Calendar /\ MetricsInit => DayInv
<1> SUFFICES ASSUME Calendar, MetricsInit PROVE DayInv
  OBVIOUS
<1>1. /\ today = 0 /\ 0 \in Days
      /\ total = [dir \in Dir |-> NewDateCounter(0)]
      /\ moved = [dir \in Dir |-> [d \in Days |-> 0]]
  BY DEF MetricsInit, Calendar
<1>2. /\ NewDateCounter(0) \in Counter /\ NewDateCounter(0).date = 0
      /\ \A i \in Slots : NewDateCounter(0).counts[i] = 0
  BY <1>1 DEF NewDateCounter, Counter, Slots
<1>3. Holds(NewDateCounter(0), [d \in Days |-> 0])
  <2>1. ASSUME NEW i \in Slots, i <= 0
        PROVE  0 - i = 0
    BY <2>1 DEF Slots, Calendar
  <2>2. 0 \in Slots
    BY DEF Slots, Calendar
  <2>3. ByDay(NewDateCounter(0), [d \in Days |-> 0])
    BY <1>1, <1>2, <2>1 DEF ByDay
  <2>4. NotOlder(NewDateCounter(0), [d \in Days |-> 0])
    BY <1>2 DEF NotOlder
  <2> QED BY <1>1, <1>2, <2>2, <2>3, <2>4 DEF Holds
<1> QED BY <1>1, <1>2, <1>3 DEF DayInv

\* A report of the traffic of a proxy.
LEMMA DayMove ==
  ASSUME Calendar, DayInv, NEW n, NEW dirs, Move(n, dirs), today' = today
  PROVE  DayInv'
<1>1. /\ total' = [dir \in Dir |-> IF dir \in dirs THEN Inc(total[dir]) ELSE total[dir]]
      /\ moved' = [dir \in Dir |-> [moved[dir] EXCEPT ![today] = IF dir \in dirs THEN @ + 1 ELSE @]]
  BY Zenon DEF Move
<1>2. ASSUME NEW dir \in Dir
      PROVE  /\ total'[dir] \in Counter /\ moved'[dir] \in [Days -> Nat]
             /\ total'[dir].date <= today /\ Holds(total'[dir], moved'[dir])
  <2>1. /\ today \in Days /\ total[dir] \in Counter /\ moved[dir] \in [Days -> Nat]
        /\ total[dir].date <= today /\ Holds(total[dir], moved[dir]) /\ today <= today
    BY DEF DayInv, Calendar
  <2>2. CASE dir \in dirs
    <3>1. total'[dir] = Inc(total[dir]) /\ moved'[dir] = [moved[dir] EXCEPT ![today] = @ + 1]
      BY <1>1, <2>2
    <3> QED BY <2>1, <3>1, IncHolds
  <2>3. CASE dir \notin dirs
    <3>1. total'[dir] = total[dir] /\ moved'[dir] = [moved[dir] EXCEPT ![today] = moved[dir][today]]
      BY <1>1, <2>3
    <3>2. moved'[dir] = moved[dir]
      BY <2>1, <3>1
    <3> QED BY <2>1, <3>1, <3>2
  <2> QED BY <2>2, <2>3
<1>3. total' \in [Dir -> Counter] /\ moved' \in [Dir -> [Days -> Nat]]
  BY <1>1, <1>2
<1> QED BY <1>2, <1>3 DEF DayInv

LEMMA DayNext == Calendar /\ DayInv /\ [MetricsNext]_metricVars => DayInv'
<1> SUFFICES ASSUME Calendar, DayInv, [MetricsNext]_metricVars PROVE DayInv'
  OBVIOUS
<1> USE DEF counters
<1>1. CASE UNCHANGED <<today, total, moved>>
  BY <1>1 DEF DayInv
<1>2. CASE NextDay
  <2>1. today + 1 \in Days /\ today' = today + 1 /\ total' = total /\ moved' = moved
    BY <1>2 DEF NextDay
  <2>2. \A d \in Days : d \in Nat
    BY DEF Calendar
  <2>3. \A dir \in Dir : total[dir].date \in Days
    BY DEF DayInv, Counter
  <2> QED BY <2>1, <2>2, <2>3 DEF DayInv
<1>3. CASE GetServer
  <2>1. total' = [dir \in Dir |-> rotate(total[dir], today)] /\ moved' = moved /\ today' = today
    BY <1>3 DEF GetServer, Today
  <2>2. ASSUME NEW dir \in Dir
        PROVE  /\ total'[dir] \in Counter
               /\ total'[dir].date <= today /\ Holds(total'[dir], moved[dir])
    <3>1. /\ today \in Days /\ total[dir] \in Counter /\ moved[dir] \in [Days -> Nat]
          /\ total[dir].date <= today /\ Holds(total[dir], moved[dir]) /\ today <= today
      BY DEF DayInv, Calendar
    <3>2. total'[dir] = rotate(total[dir], today)
      BY <2>1
    <3> QED BY <3>1, <3>2, RotateHolds
  <2> QED BY <2>1, <2>2 DEF DayInv
<1>4. ASSUME NEW c \in UserConn, AddTraffic(c)
      PROVE  DayInv'
  BY <1>4, DayMove DEF AddTraffic
<1>5. ASSUME NEW c \in UserConn, NEW r \in Reg, NEW dir \in Dir, AddPacket(c, r, dir)
      PROVE  DayInv'
  BY <1>5, DayMove DEF AddPacket
<1>6. CASE UNCHANGED metricVars
  BY <1>1, <1>6 DEF metricVars
<1>7. CASE clearUselessInfo \/ \E ns : GetProxies(ns)
  BY <1>1, <1>7 DEF clearUselessInfo, GetProxies
<1>8. ASSUME NEW c \in Client, RegisterControl(c) \/ NewClient(c) \/ CloseClient(c)
      PROVE  DayInv'
  BY <1>1, <1>8 DEF RegisterControl, NewClient, CloseClient
<1>9. ASSUME NEW r \in Reg, RunProxy(r) \/ NewProxy(r) \/ RemoveProxy(r) \/ CloseProxy(r)
      PROVE  DayInv'
  BY <1>1, <1>9 DEF RunProxy, NewProxy, RemoveProxy, CloseProxy
<1>10. ASSUME NEW c \in UserConn,
              OpenConnection(c) \/ CloseConnection(c) \/ \E r \in Reg : Accept(c, r)
       PROVE  DayInv'
  BY <1>1, <1>10 DEF OpenConnection, CloseConnection, Accept
<1> QED BY <1>2, <1>3, <1>4, <1>5, <1>6, <1>7, <1>8, <1>9, <1>10
        DEF MetricsNext, GetProxiesByType, GetProxyTraffic

\* What a date counter answers (TrafficByDay), for any number of proxies and
\* connections, any ReserveDays and any calendar, days of 23 and 25 hours included: the
\* traffic of each of the last days up to the first short day, and from then on all of
\* today's as today's and none as older than it is (DateCounter.rotate and the
\* operations that call it).
THEOREM TrafficIsByDay == MetricsSpec => []TrafficByDay
<1> Calendar
  BY MetricsAssumption
<1>1. MetricsInit => DayInv
  BY DayInit
<1>2. DayInv /\ [MetricsNext]_metricVars => DayInv'
  BY DayNext
<1>3. DayInv => TrafficByDay
  <2> SUFFICES ASSUME DayInv, NEW dir \in Dir
               PROVE  LET counts == rotate(total[dir], today).counts
                          h      == moved[dir]
                      IN  /\ WholeDays(today) => \A i \in Slots :
                               counts[i] = IF i <= today THEN h[today - i] ELSE 0
                          /\ counts[0] >= h[today]
                          /\ \A i \in Slots : counts[i] # 0 =>
                               \E d \in Days : h[d] # 0 /\ AsOldAs(i, d, today)
    BY Zenon DEF TrafficByDay, Slots
  <2>1. /\ today \in Days /\ total[dir] \in Counter /\ moved[dir] \in [Days -> Nat]
        /\ total[dir].date <= today /\ Holds(total[dir], moved[dir])
    BY DEF DayInv
  <2>2. rotate(total[dir], today).date = today /\ Holds(rotate(total[dir], today), moved[dir])
    BY <2>1, RotateHolds
  <2> QED BY <2>2 DEF Holds, ByDay, NotOlder
<1> QED BY <1>1, <1>2, <1>3, PTL DEF MetricsSpec

-----------------------------------------------------------------------------
(***************************************************************************)
(* Counts.                                                                 *)
(***************************************************************************)
CountTypes ==
  /\ phase = [r \in Reg |-> phase[r]] /\ login = [c \in Client |-> login[c]]
  /\ visitor = [c \in UserConn |-> visitor[c]]
  /\ \A c \in UserConn : visitor[c].at \in {"wait", "open", "left"} => visitor[c].reg \in Reg
  /\ curConns \in Int /\ clientCounts \in Int /\ typeCounts \in [Type -> Int]
  /\ gauge \in [ProxyName \X Type -> Int]
  /\ stats = [n \in ProxyName |-> stats[n]]
  /\ \A n \in ProxyName : stats[n] # NoStats => stats[n].curConns \in Int

TypesMatch == \A t \in Type : typeCounts[t] = Cardinality(RunningOf(t))
ConnsMatch == curConns = Cardinality(OpenConns)
GaugeMatches == \A n \in ProxyName, t \in Type : gauge[<<n, t>>] = Cardinality(OpenAt(n, t))
StatsMatch ==
  \A n \in ProxyName : stats[n] # NoStats => stats[n].curConns <= Cardinality(OpenOf(n))
ClientsMatch == clientCounts = Cardinality(Logins("counted")) - Cardinality(Logins("left"))

CountInv ==
  CountTypes /\ TypesMatch /\ ConnsMatch /\ GaugeMatches /\ StatsMatch /\ ClientsMatch

\* One element more, one element less.
LEMMA OneMore ==
  ASSUME NEW S, IsFiniteSet(S), NEW A, A \subseteq S, NEW x \in S, x \notin A,
         NEW B, B = A \union {x}
  PROVE  Cardinality(A) \in Nat /\ Cardinality(B) = Cardinality(A) + 1
<1>1. IsFiniteSet(A)
  BY FS_Subset
<1> QED BY <1>1, FS_CardinalityType, FS_AddElement

LEMMA OneLess ==
  ASSUME NEW S, IsFiniteSet(S), NEW A, A \subseteq S, NEW x \in A, NEW B, B = A \ {x}
  PROVE  Cardinality(A) \in Nat /\ Cardinality(B) = Cardinality(A) - 1
<1>1. IsFiniteSet(A)
  BY FS_Subset
<1> QED BY <1>1, FS_CardinalityType, FS_RemoveElement

LEMMA Names ==
  /\ \A r \in Reg : OfName(r) \in ProxyName /\ OfType(r) \in Type
  /\ \A n \in ProxyName, t \in Type : <<n, t>> \in ProxyName \X Type
  /\ \A n, m, t, u : <<n, t>> = <<m, u>> <=> n = m /\ t = u
BY DEF OfName, OfType, ProxyName, Type

LEMMA Sizes ==
  ASSUME Countable
  PROVE  /\ \A t : IsFiniteSet(RunningOf(t)) /\ RunningOf(t) \subseteq Reg
         /\ IsFiniteSet(OpenConns) /\ OpenConns \subseteq UserConn
         /\ \A n, t : OpenAt(n, t) \subseteq UserConn /\ IsFiniteSet(OpenAt(n, t))
         /\ \A n : OpenOf(n) \subseteq UserConn /\ IsFiniteSet(OpenOf(n))
         /\ \A s : Logins(s) \subseteq Client /\ IsFiniteSet(Logins(s))
<1>1. /\ \A t : RunningOf(t) \subseteq Reg
      /\ OpenConns \subseteq UserConn
      /\ \A n, t : OpenAt(n, t) \subseteq UserConn
      /\ \A n : OpenOf(n) \subseteq UserConn
      /\ \A s : Logins(s) \subseteq Client
  BY DEF RunningOf, OpenConns, OpenAt, OpenOf, Logins
<1> QED BY <1>1, FS_Subset DEF Countable

LEMMA CountInit == Countable /\ MetricsInit => CountInv
<1> SUFFICES ASSUME Countable, MetricsInit PROVE CountInv
  OBVIOUS
<1>1. PICK party \in Parties :
        /\ phase = [r \in Reg |-> IF r \in party THEN "never" ELSE "closed"]
        /\ visitor = [c \in UserConn |-> [at |-> IF c \in party THEN "none" ELSE "over"]]
        /\ login = [c \in Client |-> IF c \in party THEN "none" ELSE "over"]
  BY DEF MetricsInit
<1>2. /\ curConns = 0 /\ clientCounts = 0 /\ typeCounts = [t \in Type |-> 0]
      /\ stats = [n \in ProxyName |-> NoStats]
      /\ gauge = [k \in ProxyName \X Type |-> 0]
  BY DEF MetricsInit
<1>3. /\ \A r \in Reg : phase[r] \in {"never", "closed"}
      /\ \A c \in UserConn : visitor[c].at \in {"none", "over"}
      /\ \A c \in Client : login[c] \in {"none", "over"}
  BY <1>1
<1>4. CountTypes
  BY <1>1, <1>2, <1>3 DEF CountTypes
<1>5. /\ \A t : RunningOf(t) = {} /\ OpenConns = {} /\ \A n : OpenAt(n, t) = {}
      /\ Logins("counted") = {} /\ Logins("left") = {}
  BY <1>3 DEF RunningOf, OpenConns, OpenAt, Logins
<1>6. Cardinality({}) = 0
  BY FS_EmptySet
<1>7. TypesMatch /\ ConnsMatch /\ ClientsMatch
  BY <1>2, <1>5, <1>6 DEF TypesMatch, ConnsMatch, ClientsMatch
<1>8. GaugeMatches /\ StatsMatch
  BY <1>2, <1>5, <1>6, Names DEF GaugeMatches, StatsMatch
<1> QED BY <1>4, <1>7, <1>8 DEF CountInv

\* Steps of the logins.
LEMMA LoginCounts ==
  ASSUME Countable, CountInv, NEW c \in Client,
         RegisterControl(c) \/ NewClient(c) \/ CloseClient(c)
  PROVE  CountInv'
<1> USE DEF counters
<1>1. UNCHANGED <<phase, visitor, curConns, typeCounts, stats, gauge>>
  BY DEF RegisterControl, NewClient, CloseClient
<1>2. TypesMatch' /\ ConnsMatch' /\ GaugeMatches' /\ StatsMatch'
  <2>1. /\ \A t : RunningOf(t)' = RunningOf(t) /\ \A n : OpenAt(n, t)' = OpenAt(n, t)
        /\ OpenConns' = OpenConns /\ \A n : OpenOf(n)' = OpenOf(n)
    BY <1>1 DEF RunningOf, OpenConns, OpenAt, OpenOf
  <2> QED BY <1>1, <2>1 DEF CountInv, TypesMatch, ConnsMatch, GaugeMatches, StatsMatch
<1>3. PICK x : login' = [login EXCEPT ![c] = x]
  BY DEF RegisterControl, NewClient, CloseClient
<1>4. /\ login' = [d \in Client |-> login'[d]] /\ login'[c] = x
      /\ \A d \in Client : d # c => login'[d] = login[d]
  BY <1>3 DEF CountInv, CountTypes
<1>5. /\ Logins("counted")' = {d \in Client : login'[d] = "counted"}
      /\ Logins("left")' = {d \in Client : login'[d] = "left"}
  BY DEF Logins
<1>6. \A s \in {"counted", "left"} : Logins(s) \subseteq Client /\ Cardinality(Logins(s)) \in Nat
  BY Sizes, FS_CardinalityType
<1> DEFINE k2 == Cardinality(Logins("counted")')
           l2 == Cardinality(Logins("left")')
<1>7. clientCounts' = k2 - l2 /\ clientCounts' \in Int
  <2> DEFINE k == Cardinality(Logins("counted"))
             l == Cardinality(Logins("left"))
  <2>0. clientCounts = k - l /\ k \in Nat /\ l \in Nat
    BY <1>6 DEF CountInv, ClientsMatch
  <2> HIDE DEF k, l, k2, l2
  <2>1. CASE RegisterControl(c)
    <3>1. login[c] = "none" /\ x = "started" /\ clientCounts' = clientCounts
      BY <2>1, <1>4 DEF RegisterControl, CountInv, CountTypes
    <3>2. Logins("counted")' = Logins("counted") /\ Logins("left")' = Logins("left")
      BY <3>1, <1>4, <1>5 DEF Logins
    <3> QED BY <3>1, <3>2, <2>0 DEF k, l, k2, l2
  <2>2. CASE NewClient(c) /\ login[c] = "started"
    <3>1. x = "counted" /\ clientCounts' = clientCounts + 1
      BY <2>2, <1>4 DEF NewClient, CountInv, CountTypes
    <3>2. /\ Logins("counted")' = Logins("counted") \union {c} /\ c \notin Logins("counted")
          /\ Logins("left")' = Logins("left")
      BY <2>2, <3>1, <1>4, <1>5 DEF Logins
    <3>3. Cardinality(Logins("counted")') = Cardinality(Logins("counted")) + 1
      BY <3>2, <1>6, OneMore DEF Countable
    <3>4. k2 = k + 1 /\ l2 = l
      BY <3>2, <3>3 DEF k, l, k2, l2
    <3> QED BY <3>1, <3>4, <2>0
  <2>3. CASE NewClient(c) /\ login[c] = "left"
    <3>1. x = "over" /\ clientCounts' = clientCounts + 1
      BY <2>3, <1>4 DEF NewClient, CountInv, CountTypes
    <3>2. /\ Logins("left")' = Logins("left") \ {c} /\ c \in Logins("left")
          /\ Logins("counted")' = Logins("counted")
      BY <2>3, <3>1, <1>4, <1>5 DEF Logins
    <3>3. Cardinality(Logins("left")') = Cardinality(Logins("left")) - 1
      BY <3>2, <1>6, OneLess DEF Countable
    <3>4. k2 = k /\ l2 = l - 1
      BY <3>2, <3>3 DEF k, l, k2, l2
    <3> QED BY <3>1, <3>4, <2>0
  <2>4. CASE CloseClient(c) /\ login[c] = "started"
    <3>1. x = "left" /\ clientCounts' = clientCounts - 1
      BY <2>4, <1>4 DEF CloseClient, CountInv, CountTypes
    <3>2. /\ Logins("left")' = Logins("left") \union {c} /\ c \notin Logins("left")
          /\ Logins("counted")' = Logins("counted")
      BY <2>4, <3>1, <1>4, <1>5 DEF Logins
    <3>3. Cardinality(Logins("left")') = Cardinality(Logins("left")) + 1
      BY <3>2, <1>6, OneMore DEF Countable
    <3>4. k2 = k /\ l2 = l + 1
      BY <3>2, <3>3 DEF k, l, k2, l2
    <3> QED BY <3>1, <3>4, <2>0
  <2>5. CASE CloseClient(c) /\ login[c] = "counted"
    <3>1. x = "over" /\ clientCounts' = clientCounts - 1
      BY <2>5, <1>4 DEF CloseClient, CountInv, CountTypes
    <3>2. /\ Logins("counted")' = Logins("counted") \ {c} /\ c \in Logins("counted")
          /\ Logins("left")' = Logins("left")
      BY <2>5, <3>1, <1>4, <1>5 DEF Logins
    <3>3. Cardinality(Logins("counted")') = Cardinality(Logins("counted")) - 1
      BY <3>2, <1>6, OneLess DEF Countable
    <3>4. k2 = k - 1 /\ l2 = l
      BY <3>2, <3>3 DEF k, l, k2, l2
    <3> QED BY <3>1, <3>4, <2>0
  <2> QED BY <2>1, <2>2, <2>3, <2>4, <2>5 DEF NewClient, CloseClient
<1>8. CountTypes'
  BY <1>1, <1>4, <1>7 DEF CountInv, CountTypes
<1> QED BY <1>2, <1>7, <1>8 DEF CountInv, ClientsMatch

\* No connection is opened or closed.
SameUsers ==
  /\ visitor' = [c \in UserConn |-> visitor'[c]]
  /\ \A c \in UserConn : visitor'[c].at \in {"wait", "open", "left"} => visitor'[c].reg \in Reg
  /\ OpenConns' = OpenConns /\ \A c \in OpenConns : visitor'[c] = visitor[c]

LEMMA StillUsers ==
  ASSUME CountInv, UNCHANGED visitor
  PROVE  SameUsers
BY DEF SameUsers, CountInv, CountTypes, OpenConns

\* Steps that leave open connections, logins and what they count alone.
LEMMA SameConns ==
  ASSUME Countable, CountInv, SameUsers,
         UNCHANGED <<login, curConns, clientCounts, gauge>>,
         \A n \in ProxyName :
           stats'[n] # NoStats => /\ stats'[n].curConns \in Int
                                  /\ \/ stats'[n].curConns = 0
                                     \/ stats[n] # NoStats /\ stats'[n].curConns = stats[n].curConns
  PROVE  ConnsMatch' /\ GaugeMatches' /\ StatsMatch' /\ ClientsMatch'
<1>0. OpenConns' = OpenConns /\ \A s : Logins(s)' = Logins(s)
  BY DEF SameUsers, Logins
<1>1. \A n : OpenOf(n)' = OpenOf(n) /\ \A t : OpenAt(n, t)' = OpenAt(n, t)
  BY <1>0 DEF OpenAt, OpenOf, SameUsers
<1>2. ConnsMatch' /\ ClientsMatch'
  BY <1>0 DEF CountInv, ConnsMatch, ClientsMatch
<1>3. GaugeMatches'
  BY <1>1 DEF CountInv, GaugeMatches
<1>4. \A n : Cardinality(OpenOf(n)) \in Nat
  BY Sizes, FS_CardinalityType
<1>5. ASSUME NEW n \in ProxyName, stats'[n] # NoStats
      PROVE  stats'[n].curConns <= Cardinality(OpenOf(n))
  <2>1. CASE stats'[n].curConns = 0
    BY <1>4, <2>1
  <2>2. CASE stats[n] # NoStats /\ stats'[n].curConns = stats[n].curConns
    BY <2>2 DEF CountInv, StatsMatch
  <2> QED BY <1>5, <2>1, <2>2
<1>6. StatsMatch'
  BY <1>1, <1>5 DEF StatsMatch
<1> QED BY <1>2, <1>3, <1>6

\* Steps of the registrations.
LEMMA ProxyCounts ==
  ASSUME Countable, CountInv, NEW r \in Reg,
         RunProxy(r) \/ NewProxy(r) \/ RemoveProxy(r) \/ CloseProxy(r)
  PROVE  CountInv'
<1> USE DEF counters
<1>1. UNCHANGED <<visitor, login, curConns, clientCounts, gauge>>
  BY DEF RunProxy, NewProxy, RemoveProxy, CloseProxy
<1>2. PICK x : phase' = [phase EXCEPT ![r] = x]
  BY DEF RunProxy, NewProxy, RemoveProxy, CloseProxy
<1>3. /\ phase' = [q \in Reg |-> phase'[q]] /\ phase'[r] = x
      /\ \A q \in Reg : q # r => phase'[q] = phase[q]
  BY <1>2 DEF CountInv, CountTypes
<1>4. /\ stats' = [n \in ProxyName |-> stats'[n]]
      /\ \A n \in ProxyName :
           stats'[n] # NoStats => /\ stats'[n].curConns \in Int
                                  /\ \/ stats'[n].curConns = 0
                                     \/ stats[n] # NoStats /\ stats'[n].curConns = stats[n].curConns
  <2>0. /\ stats = [n \in ProxyName |-> stats[n]] /\ OfName(r) \in ProxyName
        /\ \A n \in ProxyName : stats[n] # NoStats => stats[n].curConns \in Int
    BY Names DEF CountInv, CountTypes
  <2>1. CASE RunProxy(r) \/ RemoveProxy(r)
    <3>1. stats' = stats
      BY <2>1 DEF RunProxy, RemoveProxy
    <3> QED BY <2>0, <3>1
  <2>2. CASE NewProxy(r)
    <3> DEFINE old == stats[OfName(r)]
               new == IF old.type = OfType(r) THEN Reopened(old)
                      ELSE ProxyStats(OfType(r), 0, [dir \in Dir |-> NewDateCounter(today)], FALSE, today)
    <3>1. stats' = [stats EXCEPT ![OfName(r)] = new]
      BY <2>2, Zenon DEF NewProxy
    <3>2. new.curConns = 0 \/ (old # NoStats /\ new.curConns = old.curConns)
      <4>1. old.type = OfType(r) => old # NoStats
        BY Names DEF NoStats, Countable
      <4>2. Reopened(old).curConns = old.curConns
        BY DEF Reopened, ProxyStats
      <4>3. ProxyStats(OfType(r), 0, [dir \in Dir |-> NewDateCounter(today)], FALSE, today).curConns = 0
        BY DEF ProxyStats
      <4> QED BY <4>1, <4>2, <4>3
    <3>3. old # NoStats => old.curConns \in Int
      BY <2>0
    <3> HIDE DEF new
    <3>4. /\ stats' = [n \in ProxyName |-> stats'[n]] /\ stats'[OfName(r)] = new
          /\ \A n \in ProxyName : n # OfName(r) => stats'[n] = stats[n]
      BY <2>0, <3>1
    <3>5. new.curConns \in Int
      BY <3>2, <3>3
    <3> QED BY <2>0, <3>2, <3>4, <3>5
  <2>3. CASE CloseProxy(r)
    <3>1. CASE stats[OfName(r)] = NoStats
      <4>1. stats' = stats
        BY <2>3, <3>1 DEF CloseProxy
      <4> QED BY <2>0, <4>1
    <3>2. CASE stats[OfName(r)] # NoStats
      <4>1. stats' = [stats EXCEPT ![OfName(r)] = Closed(stats[OfName(r)])]
        BY <2>3, <3>2 DEF CloseProxy
      <4>2. Closed(stats[OfName(r)]).curConns = stats[OfName(r)].curConns
        BY DEF Closed, ProxyStats
      <4> QED BY <2>0, <3>2, <4>1, <4>2
    <3> QED BY <3>1, <3>2
  <2> QED BY <2>1, <2>2, <2>3
<1>5. ConnsMatch' /\ GaugeMatches' /\ StatsMatch' /\ ClientsMatch'
  BY <1>1, <1>4, StillUsers, SameConns
<1>6. typeCounts' \in [Type -> Int] /\ TypesMatch'
  <2> DEFINE u == OfType(r)
  <2>0. /\ \A t : RunningOf(t) \subseteq Reg /\ Cardinality(RunningOf(t)) \in Nat
        /\ \A t : RunningOf(t)' = {q \in Reg : OfType(q) = t /\ phase'[q] \in {"running", "removed"}}
        /\ typeCounts \in [Type -> Int] /\ u \in Type /\ IsFiniteSet(Reg)
    <3>1. \A t : RunningOf(t) \subseteq Reg /\ IsFiniteSet(RunningOf(t))
      BY Sizes
    <3>2. \A t : Cardinality(RunningOf(t)) \in Nat
      BY <3>1, FS_CardinalityType
    <3>3. \A t : RunningOf(t)' = {q \in Reg : OfType(q) = t /\ phase'[q] \in {"running", "removed"}}
      BY DEF RunningOf
    <3> QED BY <3>1, <3>2, <3>3, Names DEF CountInv, CountTypes, Countable
  <2>1. CASE RunProxy(r) \/ RemoveProxy(r)
    <3>1. /\ typeCounts' = typeCounts
          /\ phase[r] \in {"running", "removed"} <=> phase'[r] \in {"running", "removed"}
      BY <2>1, <1>3 DEF RunProxy, RemoveProxy, CountInv, CountTypes
    <3>2. \A t : RunningOf(t)' = RunningOf(t)
      BY <3>1, <1>3, <2>0 DEF RunningOf
    <3> QED BY <2>0, <3>1, <3>2 DEF CountInv, TypesMatch
  <2>2. CASE NewProxy(r)
    <3>1. /\ typeCounts' = [typeCounts EXCEPT ![u] = typeCounts[u] + 1]
          /\ phase[r] = "added" /\ phase'[r] = "running"
      BY <2>2, <1>3 DEF NewProxy, CountInv, CountTypes
    <3>2. /\ RunningOf(u)' = RunningOf(u) \union {r} /\ r \notin RunningOf(u)
          /\ \A t : t # u => RunningOf(t)' = RunningOf(t)
      BY <3>1, <1>3, <2>0 DEF RunningOf
    <3>3. Cardinality(RunningOf(u)') = Cardinality(RunningOf(u)) + 1
      BY <2>0, <3>2, OneMore
    <3> HIDE DEF u
    <3>4. /\ typeCounts' \in [Type -> Int] /\ typeCounts'[u] = typeCounts[u] + 1
          /\ \A t \in Type : t # u => typeCounts'[t] = typeCounts[t]
      BY <2>0, <3>1
    <3>5. \A t \in Type : typeCounts[t] = Cardinality(RunningOf(t))
      BY DEF CountInv, TypesMatch
    <3>6. typeCounts'[u] = Cardinality(RunningOf(u)')
      BY <2>0, <3>3, <3>4, <3>5
    <3>7. \A t \in Type : typeCounts'[t] = Cardinality(RunningOf(t)')
      BY <3>2, <3>4, <3>5, <3>6
    <3> QED BY <3>4, <3>7 DEF TypesMatch
  <2>3. CASE CloseProxy(r)
    <3>1. /\ typeCounts' = [typeCounts EXCEPT ![u] = typeCounts[u] - 1]
          /\ phase[r] = "removed" /\ phase'[r] = "closed"
      BY <2>3, <1>3 DEF CloseProxy, CountInv, CountTypes
    <3>2. /\ RunningOf(u)' = RunningOf(u) \ {r} /\ r \in RunningOf(u)
          /\ \A t : t # u => RunningOf(t)' = RunningOf(t)
      BY <3>1, <1>3, <2>0 DEF RunningOf
    <3>3. Cardinality(RunningOf(u)') = Cardinality(RunningOf(u)) - 1
      BY <2>0, <3>2, OneLess
    <3> HIDE DEF u
    <3>4. /\ typeCounts' \in [Type -> Int] /\ typeCounts'[u] = typeCounts[u] - 1
          /\ \A t \in Type : t # u => typeCounts'[t] = typeCounts[t]
      BY <2>0, <3>1
    <3>5. \A t \in Type : typeCounts[t] = Cardinality(RunningOf(t))
      BY DEF CountInv, TypesMatch
    <3>6. typeCounts'[u] = Cardinality(RunningOf(u)')
      BY <2>0, <3>3, <3>4, <3>5
    <3>7. \A t \in Type : typeCounts'[t] = Cardinality(RunningOf(t)')
      BY <3>2, <3>4, <3>5, <3>6
    <3> QED BY <3>4, <3>7 DEF TypesMatch
  <2> QED BY <2>1, <2>2, <2>3
<1>7. CountTypes'
  BY <1>1, <1>3, <1>4, <1>6 DEF CountInv, CountTypes
<1> QED BY <1>5, <1>6, <1>7 DEF CountInv

\* Steps that only read or forget statistics, or carry traffic.
LEMMA StatsCounts ==
  ASSUME Countable, CountInv, SameUsers,
         UNCHANGED <<phase, login, curConns, clientCounts, typeCounts, gauge>>,
         stats' = [n \in ProxyName |-> stats'[n]],
         \A n \in ProxyName :
           stats'[n] # NoStats => stats[n] # NoStats /\ stats'[n].curConns = stats[n].curConns
  PROVE  CountInv'
<1>1. \A n \in ProxyName : stats'[n] # NoStats => stats'[n].curConns \in Int
  BY DEF CountInv, CountTypes
<1>2. ConnsMatch' /\ GaugeMatches' /\ StatsMatch' /\ ClientsMatch'
  BY <1>1, SameConns
<1>3. TypesMatch'
  BY DEF CountInv, TypesMatch, RunningOf
<1>4. CountTypes'
  BY <1>1 DEF CountInv, CountTypes, SameUsers
<1> QED BY <1>2, <1>3, <1>4 DEF CountInv

\* Traffic is added to the statistics of a name.
LEMMA MoveKeepsConns ==
  ASSUME CountInv, NEW n, NEW dirs, Move(n, dirs), n \in ProxyName
  PROVE  /\ stats' = [m \in ProxyName |-> stats'[m]]
         /\ \A m \in ProxyName :
              stats'[m] # NoStats => stats[m] # NoStats /\ stats'[m].curConns = stats[m].curConns
<1>1. stats = [m \in ProxyName |-> stats[m]]
  BY DEF CountInv, CountTypes
<1>2. CASE stats[n] = NoStats
  <2>1. stats' = stats
    BY <1>2, Zenon DEF Move
  <2> QED BY <1>1, <2>1
<1>3. CASE stats[n] # NoStats
  <2>1. \E tr : stats' = [stats EXCEPT ![n] = WithTraffic(stats[n], tr)]
    BY <1>3, Zenon DEF Move
  <2>2. PICK tr : stats' = [stats EXCEPT ![n] = WithTraffic(stats[n], tr)]
    BY <2>1
  <2>3. WithTraffic(stats[n], tr).curConns = stats[n].curConns
    BY DEF WithTraffic, ProxyStats
  <2> QED BY <1>1, <1>3, <2>2, <2>3
<1> QED BY <1>2, <1>3

\* Steps of a user that neither open nor close its connection.
LEMMA UserCounts ==
  ASSUME Countable, CountInv, NEW c \in UserConn,
         \/ AddTraffic(c)
         \/ \E r \in Reg : Accept(c, r) \/ \E dir \in Dir : AddPacket(c, r, dir)
  PROVE  CountInv'
<1> USE DEF counters
<1>1. UNCHANGED <<phase, login, curConns, clientCounts, typeCounts, gauge>>
  BY DEF AddTraffic, Accept, AddPacket
<1>2. PICK x : /\ visitor' = [visitor EXCEPT ![c] = x] /\ visitor[c].at # "open"
               /\ x.at \in {"wait", "over"} /\ (x.at = "wait" => x.reg \in Reg)
  <2>1. CASE AddTraffic(c)
    <3>1. /\ visitor' = [visitor EXCEPT ![c] = [at |-> "over"]] /\ visitor[c].at # "open"
          /\ [at |-> "over"].at = "over"
      BY <2>1 DEF AddTraffic
    <3> QED BY <3>1
  <2>2. ASSUME NEW r \in Reg, Accept(c, r)
        PROVE  /\ visitor' = [visitor EXCEPT ![c] = [at |-> "wait", reg |-> r]]
               /\ visitor[c].at # "open" /\ [at |-> "wait", reg |-> r].reg \in Reg
               /\ [at |-> "wait", reg |-> r].at = "wait"
    BY <2>2 DEF Accept
  <2>3. ASSUME NEW r \in Reg, NEW dir \in Dir, AddPacket(c, r, dir)
        PROVE  /\ visitor' = [visitor EXCEPT ![c] = [at |-> "over"]] /\ visitor[c].at # "open"
               /\ [at |-> "over"].at = "over"
    BY <2>3 DEF AddPacket
  <2>4. "wait" # "over"
    OBVIOUS
  <2> QED BY <2>1, <2>2, <2>3, <2>4, Zenon
<1>3. SameUsers
  <2>1. visitor = [d \in UserConn |-> visitor[d]]
    BY DEF CountInv, CountTypes
  <2>2. /\ visitor' = [d \in UserConn |-> visitor'[d]] /\ visitor'[c] = x
        /\ \A d \in UserConn : d # c => visitor'[d] = visitor[d]
    <3>1. visitor' = [d \in UserConn |-> IF d = c THEN x ELSE visitor[d]]
      BY <1>2, <2>1
    <3> QED BY <3>1
  <2>3. OpenConns' = OpenConns
    BY <1>2, <2>2 DEF OpenConns
  <2>4. \A d \in OpenConns : visitor'[d] = visitor[d]
    BY <1>2, <2>2 DEF OpenConns
  <2>5. \A d \in UserConn : visitor'[d].at \in {"wait", "open", "left"} => visitor'[d].reg \in Reg
    BY <1>2, <2>2 DEF CountInv, CountTypes
  <2> QED BY <2>2, <2>3, <2>4, <2>5 DEF SameUsers
<1>4. /\ stats' = [n \in ProxyName |-> stats'[n]]
      /\ \A n \in ProxyName :
           stats'[n] # NoStats => stats[n] # NoStats /\ stats'[n].curConns = stats[n].curConns
  <2>1. CASE AddTraffic(c)
    <3>1. Move(OfName(visitor[c].reg), Dir) /\ visitor[c].reg \in Reg
      BY <2>1 DEF AddTraffic, CountInv, CountTypes
    <3>2. OfName(visitor[c].reg) \in ProxyName
      BY <3>1, Names
    <3> QED BY <3>1, <3>2, MoveKeepsConns
  <2>2. ASSUME NEW r \in Reg, Accept(c, r)
        PROVE  stats' = stats
    BY <2>2 DEF Accept
  <2>3. ASSUME NEW r \in Reg, NEW dir \in Dir, AddPacket(c, r, dir)
        PROVE  Move(OfName(r), {dir}) /\ OfName(r) \in ProxyName
    BY <2>3, Names DEF AddPacket
  <2>4. stats = [n \in ProxyName |-> stats[n]]
    BY DEF CountInv, CountTypes
  <2> QED BY <2>1, <2>2, <2>3, <2>4, MoveKeepsConns
<1> QED BY <1>1, <1>3, <1>4, StatsCounts

\* A connection of the registration r is counted up or down.
LEMMA AddConnCounts ==
  ASSUME Countable, CountInv, NEW c \in UserConn, NEW d \in Int, NEW r \in Reg,
         r = visitor[c].reg, AddConn(c, d),
         UNCHANGED <<phase, login, clientCounts, typeCounts>>,
         visitor' = [e \in UserConn |-> visitor'[e]],
         \A e \in UserConn : visitor'[e].at \in {"wait", "open", "left"} => visitor'[e].reg \in Reg,
         Cardinality(OpenConns') = Cardinality(OpenConns) + d,
         \A n \in ProxyName, t \in Type :
           Cardinality(OpenAt(n, t)') = Cardinality(OpenAt(n, t)) +
                                          (IF n = OfName(r) /\ t = OfType(r) THEN d ELSE 0),
         \A n \in ProxyName :
           Cardinality(OpenOf(n)') = Cardinality(OpenOf(n)) + (IF n = OfName(r) THEN d ELSE 0)
  PROVE  CountInv'
<1> DEFINE name == OfName(r)
           type == OfType(r)
<1>1. name \in ProxyName /\ type \in Type
  BY Names
<1>2. /\ \A n \in ProxyName : Cardinality(OpenOf(n)) \in Nat
      /\ \A n \in ProxyName, t \in Type : Cardinality(OpenAt(n, t)) \in Nat
      /\ Cardinality(OpenConns) \in Nat
  BY Sizes, FS_CardinalityType
<1>3. /\ curConns' = curConns + d
      /\ stats' = IF stats[name] = NoStats THEN stats
                  ELSE [stats EXCEPT ![name] = WithConns(stats[name], stats[name].curConns + d)]
      /\ gauge' = [gauge EXCEPT ![<<name, type>>] = gauge[<<name, type>>] + d]
  BY DEF AddConn
<1> HIDE DEF name, type
<1>4. curConns' \in Int /\ ConnsMatch'
  BY <1>2, <1>3 DEF CountInv, CountTypes, ConnsMatch
<1>5. gauge' \in [ProxyName \X Type -> Int] /\ GaugeMatches'
  <2>1. /\ gauge' \in [ProxyName \X Type -> Int]
        /\ gauge'[<<name, type>>] = gauge[<<name, type>>] + d
        /\ \A k \in ProxyName \X Type : k # <<name, type>> => gauge'[k] = gauge[k]
    BY <1>1, <1>3, Names DEF CountInv, CountTypes
  <2>2. ASSUME NEW n \in ProxyName, NEW t \in Type
        PROVE  gauge'[<<n, t>>] = Cardinality(OpenAt(n, t)')
    <3>1. gauge[<<n, t>>] = Cardinality(OpenAt(n, t))
      BY DEF CountInv, GaugeMatches
    <3>2. CASE n = name /\ t = type
      <4>1. gauge'[<<n, t>>] = Cardinality(OpenAt(n, t)) + d
        BY <2>1, <3>1, <3>2
      <4>2. Cardinality(OpenAt(n, t)') = Cardinality(OpenAt(n, t)) + d
        BY <3>2 DEF name, type
      <4> QED BY <4>1, <4>2
    <3>3. CASE ~(n = name /\ t = type)
      <4>1. gauge'[<<n, t>>] = gauge[<<n, t>>]
        BY <2>1, <3>3, Names
      <4>2. Cardinality(OpenAt(n, t)') = Cardinality(OpenAt(n, t)) + 0
        BY <3>3 DEF name, type
      <4> QED BY <1>2, <3>1, <4>1, <4>2
    <3> QED BY <3>2, <3>3
  <2> QED BY <2>1, <2>2 DEF GaugeMatches
<1>6. /\ stats' = [n \in ProxyName |-> stats'[n]]
      /\ \A n \in ProxyName : stats'[n] # NoStats =>
           /\ stats[n] # NoStats
           /\ stats'[n].curConns = IF n = name THEN stats[n].curConns + d ELSE stats[n].curConns
  <2>1. stats = [n \in ProxyName |-> stats[n]]
    BY DEF CountInv, CountTypes
  <2>2. CASE stats[name] = NoStats
    BY <1>3, <2>1, <2>2
  <2>3. CASE stats[name] # NoStats
    <3>1. WithConns(stats[name], stats[name].curConns + d).curConns = stats[name].curConns + d
      BY DEF WithConns, ProxyStats
    <3> QED BY <1>1, <1>3, <2>1, <2>3, <3>1
  <2> QED BY <2>2, <2>3
<1>7. ASSUME NEW n \in ProxyName, stats'[n] # NoStats
      PROVE  stats'[n].curConns \in Int /\ stats'[n].curConns <= Cardinality(OpenOf(n)')
  <2>1. stats[n].curConns \in Int /\ stats[n].curConns <= Cardinality(OpenOf(n))
    BY <1>6, <1>7 DEF CountInv, CountTypes, StatsMatch
  <2>2. CASE n = name
    <3>1. /\ stats'[n].curConns = stats[n].curConns + d
          /\ Cardinality(OpenOf(n)') = Cardinality(OpenOf(n)) + d
      BY <1>6, <1>7, <2>2 DEF name
    <3> QED BY <1>2, <2>1, <3>1
  <2>3. CASE n # name
    <3>1. /\ stats'[n].curConns = stats[n].curConns
          /\ Cardinality(OpenOf(n)') = Cardinality(OpenOf(n)) + 0
      BY <1>6, <1>7, <2>3 DEF name
    <3> QED BY <1>2, <2>1, <3>1
  <2> QED BY <2>2, <2>3
<1>8. StatsMatch'
  BY <1>7 DEF StatsMatch
<1>9. TypesMatch' /\ ClientsMatch'
  BY DEF CountInv, TypesMatch, ClientsMatch, RunningOf, Logins
<1>10. CountTypes'
  BY <1>4, <1>5, <1>6, <1>7 DEF CountInv, CountTypes
<1> QED BY <1>4, <1>5, <1>8, <1>9, <1>10 DEF CountInv

LEMMA OpenCounts ==
  ASSUME Countable, CountInv, NEW c \in UserConn, OpenConnection(c) \/ CloseConnection(c)
  PROVE  CountInv'
<1> DEFINE r == visitor[c].reg
           opens == OpenConnection(c)
           d == IF opens THEN 1 ELSE -1
           x == [at |-> IF opens THEN "open" ELSE "left", reg |-> r]
<1>1. /\ visitor[c].at = IF opens THEN "wait" ELSE "open"
      /\ visitor' = [visitor EXCEPT ![c] = x]
      /\ AddConn(c, d)
      /\ UNCHANGED <<phase, login, clientCounts, typeCounts>>
  <2>1. CASE opens
    BY <2>1 DEF OpenConnection
  <2>2. CASE ~opens
    <3>1. CloseConnection(c)
      BY <2>2
    <3> HIDE DEF opens
    <3> QED BY <2>2, <3>1 DEF CloseConnection
  <2> QED BY <2>1, <2>2
<1>2. r \in Reg /\ d \in Int
  BY <1>1 DEF CountInv, CountTypes
<1> HIDE DEF opens
<1>3. x.at = (IF opens THEN "open" ELSE "left") /\ x.reg = r
  OBVIOUS
<1> HIDE DEF x, r
<1>4. /\ visitor' = [e \in UserConn |-> visitor'[e]] /\ visitor'[c] = x
      /\ \A e \in UserConn : e # c => visitor'[e] = visitor[e]
  <2>1. visitor = [e \in UserConn |-> visitor[e]]
    BY DEF CountInv, CountTypes
  <2>2. visitor' = [e \in UserConn |-> IF e = c THEN x ELSE visitor[e]]
    BY <1>1, <2>1
  <2> QED BY <2>2
<1>5. \A e \in UserConn : visitor'[e].at \in {"wait", "open", "left"} => visitor'[e].reg \in Reg
  BY <1>2, <1>3, <1>4 DEF CountInv, CountTypes
<1>6. /\ OpenConns' = IF opens THEN OpenConns \union {c} ELSE OpenConns \ {c}
      /\ c \in OpenConns <=> ~opens
  BY <1>1, <1>3, <1>4 DEF OpenConns
<1>7. \A n, t :
        /\ OpenAt(n, t)' = IF n = OfName(r) /\ t = OfType(r)
                           THEN (IF opens THEN OpenAt(n, t) \union {c} ELSE OpenAt(n, t) \ {c})
                           ELSE OpenAt(n, t)
        /\ c \in OpenAt(n, t) <=> ~opens /\ n = OfName(r) /\ t = OfType(r)
  BY <1>3, <1>4, <1>6 DEF OpenAt, OpenConns, r
<1>8. \A n :
        /\ OpenOf(n)' = IF n = OfName(r)
                        THEN (IF opens THEN OpenOf(n) \union {c} ELSE OpenOf(n) \ {c})
                        ELSE OpenOf(n)
        /\ c \in OpenOf(n) <=> ~opens /\ n = OfName(r)
  BY <1>3, <1>4, <1>6 DEF OpenOf, OpenConns, r
<1>9. \A A, B : /\ A \subseteq UserConn /\ (c \in A <=> ~opens)
                /\ B = IF opens THEN A \union {c} ELSE A \ {c}
                => Cardinality(B) = Cardinality(A) + d
  <2> SUFFICES ASSUME NEW A, NEW B, A \subseteq UserConn, c \in A <=> ~opens,
                      B = IF opens THEN A \union {c} ELSE A \ {c}
               PROVE  Cardinality(B) = Cardinality(A) + d
    OBVIOUS
  <2>1. CASE opens
    <3>1. Cardinality(A) \in Nat /\ Cardinality(B) = Cardinality(A) + 1
      BY <2>1, OneMore DEF Countable
    <3> QED BY <2>1, <3>1
  <2>2. CASE ~opens
    <3>1. Cardinality(A) \in Nat /\ Cardinality(B) = Cardinality(A) - 1
      BY <2>2, OneLess DEF Countable
    <3> QED BY <2>2, <3>1
  <2> QED BY <2>1, <2>2
<1> HIDE DEF d
<1>10. Cardinality(OpenConns') = Cardinality(OpenConns) + d
  BY <1>6, <1>9, Sizes
<1>11. \A n \in ProxyName, t \in Type :
         Cardinality(OpenAt(n, t)') = Cardinality(OpenAt(n, t)) +
                                        (IF n = OfName(r) /\ t = OfType(r) THEN d ELSE 0)
  <2> SUFFICES ASSUME NEW n \in ProxyName, NEW t \in Type
               PROVE  Cardinality(OpenAt(n, t)') = Cardinality(OpenAt(n, t)) +
                                        (IF n = OfName(r) /\ t = OfType(r) THEN d ELSE 0)
    OBVIOUS
  <2>1. OpenAt(n, t) \subseteq UserConn /\ Cardinality(OpenAt(n, t)) \in Nat
    BY Sizes, FS_CardinalityType
  <2>2. CASE n = OfName(r) /\ t = OfType(r)
    BY <1>7, <1>9, <2>1, <2>2
  <2>3. CASE ~(n = OfName(r) /\ t = OfType(r))
    BY <1>7, <2>1, <2>3
  <2> QED BY <2>2, <2>3
<1>12. \A n \in ProxyName :
         Cardinality(OpenOf(n)') = Cardinality(OpenOf(n)) + (IF n = OfName(r) THEN d ELSE 0)
  <2> SUFFICES ASSUME NEW n \in ProxyName
               PROVE  Cardinality(OpenOf(n)') = Cardinality(OpenOf(n)) +
                                                  (IF n = OfName(r) THEN d ELSE 0)
    OBVIOUS
  <2>1. OpenOf(n) \subseteq UserConn /\ Cardinality(OpenOf(n)) \in Nat
    BY Sizes, FS_CardinalityType
  <2>2. CASE n = OfName(r)
    BY <1>8, <1>9, <2>1, <2>2
  <2>3. CASE n # OfName(r)
    BY <1>8, <2>1, <2>3
  <2> QED BY <2>2, <2>3
<1>13. r = visitor[c].reg
  BY DEF r
<1> QED BY <1>1, <1>2, <1>4, <1>5, <1>10, <1>11, <1>12, <1>13, AddConnCounts

LEMMA CountNext == Countable /\ CountInv /\ [MetricsNext]_metricVars => CountInv'
<1> SUFFICES ASSUME Countable, CountInv, [MetricsNext]_metricVars PROVE CountInv'
  OBVIOUS
<1> USE DEF counters
<1>1. CASE UNCHANGED <<phase, visitor, login, curConns, clientCounts, typeCounts, gauge, stats>>
  <2>1. stats' = [n \in ProxyName |-> stats'[n]]
    BY <1>1 DEF CountInv, CountTypes
  <2> QED BY <1>1, <2>1, StillUsers, StatsCounts
<1>2. CASE clearUselessInfo
  <2>1. /\ UNCHANGED <<phase, visitor, login, curConns, clientCounts, typeCounts, gauge>>
        /\ \E S : stats' = [n \in ProxyName |-> IF n \in S THEN NoStats ELSE stats[n]]
    <3> DEFINE S == {n \in ProxyName :
                       stats[n] # NoStats /\ stats[n].closedLast
                       /\ Midnight[today] - Midnight[stats[n].closeDay] > 24 * ClearDays}
    <3>1. stats' = [n \in ProxyName |-> IF n \in S THEN NoStats ELSE stats[n]]
      BY <1>2, Zenon DEF clearUselessInfo
    <3>2. UNCHANGED <<phase, visitor, login, curConns, clientCounts, typeCounts, gauge>>
      BY <1>2 DEF clearUselessInfo
    <3> HIDE DEF S
    <3> QED BY <3>1, <3>2
  <2>2. /\ stats' = [n \in ProxyName |-> stats'[n]]
        /\ \A n \in ProxyName :
             stats'[n] # NoStats => stats[n] # NoStats /\ stats'[n].curConns = stats[n].curConns
    BY <2>1
  <2> QED BY <2>1, <2>2, StillUsers, StatsCounts
<1>3. ASSUME NEW ns, GetProxies(ns)
      PROVE  CountInv'
  <2>1. /\ UNCHANGED <<phase, visitor, login, curConns, clientCounts, typeCounts, gauge>>
        /\ stats' = [n \in ProxyName |-> IF n \in ns /\ stats[n] # NoStats
                                         THEN WithTraffic(stats[n], Today(stats[n].traffic))
                                         ELSE stats[n]]
    BY <1>3 DEF GetProxies
  <2>2. /\ stats' = [n \in ProxyName |-> stats'[n]]
        /\ \A n \in ProxyName :
             stats'[n] # NoStats => stats[n] # NoStats /\ stats'[n].curConns = stats[n].curConns
    BY <2>1 DEF WithTraffic, ProxyStats
  <2> QED BY <2>1, <2>2, StillUsers, StatsCounts
<1>4. CASE NextDay \/ GetServer \/ UNCHANGED metricVars
  BY <1>1, <1>4 DEF NextDay, GetServer, metricVars
<1>5. ASSUME NEW c \in Client, RegisterControl(c) \/ NewClient(c) \/ CloseClient(c)
      PROVE  CountInv'
  BY <1>5, LoginCounts
<1>6. ASSUME NEW r \in Reg, RunProxy(r) \/ NewProxy(r) \/ RemoveProxy(r) \/ CloseProxy(r)
      PROVE  CountInv'
  BY <1>6, ProxyCounts
<1>7. ASSUME NEW c \in UserConn,
             \/ OpenConnection(c) \/ CloseConnection(c) \/ AddTraffic(c)
             \/ \E r \in Reg : Accept(c, r) \/ \E dir \in Dir : AddPacket(c, r, dir)
      PROVE  CountInv'
  <2>1. CASE OpenConnection(c) \/ CloseConnection(c)
    BY <2>1, OpenCounts
  <2>2. CASE \/ AddTraffic(c)
             \/ \E r \in Reg : Accept(c, r) \/ \E dir \in Dir : AddPacket(c, r, dir)
    BY <2>2, UserCounts
  <2> QED BY <1>7, <2>1, <2>2
<1> QED BY <1>2, <1>3, <1>4, <1>5, <1>6, <1>7 DEF MetricsNext, GetProxiesByType, GetProxyTraffic

\* The counters agree with the server (CountsMatch), for any number of proxies,
\* connections and logins and however late each event is reported (ServerStatistics,
\* ProxyStatistics and the prometheus gauges).
THEOREM CountersMatch == MetricsSpec => []CountsMatch
<1> Countable
  BY MetricsAssumption
<1>1. MetricsInit => CountInv
  BY CountInit
<1>2. CountInv /\ [MetricsNext]_metricVars => CountInv'
  BY CountNext
<1>3. CountInv => CountsMatch
  BY DEF CountInv, CountsMatch, TypesMatch, ConnsMatch, GaugeMatches, StatsMatch, ClientsMatch
<1> QED BY <1>1, <1>2, <1>3, PTL DEF MetricsSpec

-----------------------------------------------------------------------------
(***************************************************************************)
(* The way of a configuration from the client to frps.                     *)
(***************************************************************************)
\* The components are those of the ports that are set.
Started ==
  /\ server \in ServerConfs
  /\ at # "start" => Validate(server) /\ comps = {p \in {"http", "https", "tcpmux"} : server[p] > 0}

\* Domains are sequences on their whole way, and frps runs what it has validated.
Domained ==
  /\ at \in {"loaded", "sent", "plugged", "run"} => conf.domains \subseteq Seq(STRING)
  /\ at \in {"sent", "plugged"} =>
       "domains" \in DOMAIN message /\ message.domains \subseteq Seq(STRING)
Validated ==
  at = "run" => /\ ValidateForServer(conf)
                /\ conf.type \notin DomainTypes => conf.domains = {}

\* What the client has read, and will send, is what is written at its source.
Written(c) ==
  /\ c.type = IF Says("type", Unset) = Unset THEN "tcp" ELSE Says("type", Unset)
  /\ c.type \in PortTypes => c.remote = Says("remote", 0)
  /\ c.type \in DomainTypes =>
       c.domains = Says("domains", {}) /\ c.sub = Says("sub", Unset)
  /\ c.limit = Says("limit", Unset)
  /\ c.type = IF c.proxyType = Unset THEN "tcp" ELSE c.proxyType
Sendable(c) ==
  /\ c.type \in Types /\ c.limit # "bad"
  /\ Bytes(c.limit) > 0 => c.mode = Says("mode", "client") /\ c.mode \in {"client", "server"}
AsWritten ==
  /\ at \in {"loaded", "sent", "plugged"} =>
       Written(conf) /\ Sendable(conf) /\ limited = ClientLimiter(conf)
  /\ at \in {"sent", "plugged"} /\ ~edited => message = MarshalToMsg(conf)
  /\ ServedAsWritten

ConfInv == Started /\ Domained /\ Validated /\ AsWritten

\* Strings.
LEMMA UnsetFacts ==
  /\ "client" # Unset /\ "server" # Unset /\ "tcp" # Unset
  /\ Unset \notin Types /\ Bytes(Unset) = 0
  /\ Unset # "bad"
<1>1. "client" # Unset /\ "server" # Unset /\ "tcp" # Unset /\ Unset # "bad"
  BY Zenon DEF Unset
<1>2. Unset \notin Types
  BY Zenon DEF Unset, Types
<1>3. Bytes(Unset) = 0
  <2>1. Unset # "1MB"
    BY Zenon DEF Unset
  <2> QED BY <2>1, Zenon DEF Bytes
<1> QED BY <1>1, <1>2, <1>3

\* A name of a range, and the names a range makes.
LEMMA MadeFacts ==
  ASSUME ConfTypes, NEW file \in Files, NEW n \in DOMAIN Rendered(file)
  PROVE  /\ n \in MadeNames(file) <=> InRange(file, n)
         /\ n \in MadeNames(file) => ~IsRange(n) /\ IsRange(RangeOf(n))
         /\ n \in PlainNames(file) \union MadeNames(file)
<1>1. n \in PlainNames(file) \union MadeNames(file)
  BY DEF Rendered
<1>2. \A r \in DOMAIN file : /\ Len(r) = 2 => r = <<r[1], r[2]>>
                             /\ IsRange(r) => Len(r) = 2 /\ r[2] # RangePrefix
  BY Zenon DEF ConfTypes, IsRange, RangePrefix
<1>3. RangeOf(n) = <<RangePrefix, n[1]>> /\ RangeOf(n)[1] = RangePrefix /\ RangeOf(n)[2] = n[1]
  BY DEF RangeOf
<1>4. ASSUME n \in MadeNames(file)
      PROVE  InRange(file, n) /\ ~IsRange(n)
  <2>1. PICK r \in DOMAIN file \ PlainNames(file) :
          \E i \in 0..(Len(file[r].local) - 1) : n = <<r[2], i>>
    BY <1>4 DEF MadeNames
  <2>2. PICK i \in 0..(Len(file[r].local) - 1) : n = <<r[2], i>>
    BY <2>1
  <2>3. IsRange(r) /\ r[1] = RangePrefix
    BY DEF PlainNames, IsRange
  <2>4. r = <<RangePrefix, r[2]>> /\ r[2] # RangePrefix
    BY <1>2, <2>3
  <2>5. n[1] = r[2] /\ n[2] = i /\ Len(n) = 2
    BY <2>2
  <2>6. RangeOf(n) = r
    BY <1>3, <2>4, <2>5
  <2> QED BY <2>2, <2>4, <2>5, <2>6 DEF InRange, IsRange
<1>5. ASSUME InRange(file, n)
      PROVE  n \in MadeNames(file)
  <2> DEFINE r == RangeOf(n)
  <2>1. r \in DOMAIN file /\ n[2] \in 0..(Len(file[r].local) - 1) /\ Len(n) = 2
    BY <1>5 DEF InRange
  <2>2. r \in DOMAIN file \ PlainNames(file)
    BY <1>3, <2>1 DEF PlainNames, IsRange
  <2>3. CASE n \in PlainNames(file)
    <3>1. n \in DOMAIN file
      BY <2>3 DEF PlainNames
    <3>2. n = <<r[2], n[2]>>
      BY <1>2, <1>3, <2>1, <3>1
    <3> HIDE DEF r
    <3> QED BY <2>1, <2>2, <3>2 DEF MadeNames
  <2> QED BY <1>1, <2>3
<1>6. IsRange(RangeOf(n))
  BY <1>3 DEF IsRange
<1> QED BY <1>1, <1>4, <1>5, <1>6

\* The section that is rendered says what is written in the file.
LEMMA SectionSays ==
  ASSUME ConfTypes, NEW file \in Files, NEW n \in DOMAIN Rendered(file),
         \A m \in DOMAIN file : IsRange(m) => RangeOK(file[m]),
         NEW k, k # "local", NEW d
  PROVE  Key(Rendered(file)[n], k, d) = SaysInFile(file, n, k, d)
<1> DEFINE own == OwnSection(file, n)
           r == RangeOf(n)
           f == file[r]
           ports == [local |-> f.local[n[2] + 1], remote |-> f.remote[n[2] + 1]]
<1>1. Rendered(file)[n] = Over(MadeSection(file, n), own)
  BY MadeFacts DEF Rendered
<1>2. \A l : Key(<<>>, l, d) = d
  BY DEF Key
<1>3. ~IsRange(n) => Key(own, k, d) = IF n \in DOMAIN file THEN Key(file[n], k, d) ELSE d
  BY <1>2 DEF OwnSection, PlainNames
<1>4. CASE n \in MadeNames(file)
  <2>1. MadeSection(file, n) = Over(ports, f)
    BY <1>4 DEF MadeSection, RangeSection
  <2>2. InRange(file, n) /\ ~IsRange(n) /\ RangeOK(f)
    <3>1. InRange(file, n) /\ ~IsRange(n) /\ IsRange(RangeOf(n))
      BY <1>4, MadeFacts
    <3> QED BY <3>1 DEF InRange
  <2>3. DOMAIN ports = {"local", "remote"} /\ ports["remote"] = f.remote[n[2] + 1]
    OBVIOUS
  <2>4. {"local", "remote"} \subseteq DOMAIN f
    BY <2>2 DEF RangeOK
  <2> HIDE DEF ports, own, f
  <2>5. /\ DOMAIN Over(ports, f) = DOMAIN f
        /\ k \in DOMAIN f => Over(ports, f)[k] = IF k = "remote" THEN f.remote[n[2] + 1] ELSE f[k]
    BY <2>3, <2>4 DEF Over
  <2>6. Key(Rendered(file)[n], k, d) =
          IF k \in DOMAIN f THEN (IF k = "remote" THEN f.remote[n[2] + 1] ELSE f[k])
          ELSE Key(own, k, d)
    <3> DEFINE made == Over(ports, f)
    <3>1. Rendered(file)[n] = Over(made, own)
      BY <1>1, <2>1
    <3>2. /\ DOMAIN made = DOMAIN f
          /\ k \in DOMAIN f => made[k] = IF k = "remote" THEN f.remote[n[2] + 1] ELSE f[k]
      BY <2>5
    <3> HIDE DEF made
    <3>3. Key(Over(made, own), k, d) = IF k \in DOMAIN made THEN made[k] ELSE Key(own, k, d)
      BY DEF Over, Key
    <3>4. Key(Rendered(file)[n], k, d) = IF k \in DOMAIN made THEN made[k] ELSE Key(own, k, d)
      BY <3>1, <3>3, Zenon
    <3> QED BY <3>2, <3>4
  <2> QED BY <1>3, <2>2, <2>6 DEF SaysInFile, f
<1>5. CASE n \notin MadeNames(file)
  <2>1. MadeSection(file, n) = <<>> /\ DOMAIN <<>> = {}
    BY <1>5 DEF MadeSection
  <2>2. n \in PlainNames(file) /\ ~InRange(file, n)
    BY <1>5, MadeFacts
  <2>3. n \in DOMAIN file /\ ~IsRange(n)
    BY <2>2 DEF PlainNames
  <2> HIDE DEF own
  <2>4. Key(Rendered(file)[n], k, d) = Key(own, k, d)
    <3> DEFINE made == MadeSection(file, n)
    <3>1. Rendered(file)[n] = Over(made, own) /\ DOMAIN made = {}
      BY <1>1, <2>1
    <3> HIDE DEF made
    <3>2. Key(Over(made, own), k, d) = IF k \in DOMAIN made THEN made[k] ELSE Key(own, k, d)
      BY DEF Over, Key
    <3>3. Key(Rendered(file)[n], k, d) = IF k \in DOMAIN made THEN made[k] ELSE Key(own, k, d)
      BY <3>1, <3>2, Zenon
    <3> QED BY <3>1, <3>3
  <2> QED BY <1>3, <2>2, <2>3, <2>4 DEF SaysInFile
<1> QED BY <1>4, <1>5

\* Its domains are sequences.
LEMMA FileDomains ==
  ASSUME ConfTypes, NEW file \in Files, NEW n
  PROVE  SaysInFile(file, n, "domains", {}) \subseteq Seq(STRING)
<1>1. \A m \in DOMAIN file : "domains" \in DOMAIN file[m] => file[m]["domains"] \subseteq Seq(STRING)
  BY DEF ConfTypes, DomainsOK
<1>2. InRange(file, n) => RangeOf(n) \in DOMAIN file
  BY DEF InRange
<1> QED BY <1>1, <1>2 DEF SaysInFile, Key

\* The configuration made of a section.
LEMMA FromIniFacts ==
  ASSUME NEW s
  PROVE  /\ FromIni(s).type = IF Key(s, "type", Unset) = Unset THEN "tcp"
                                ELSE Key(s, "type", Unset)
         /\ FromIni(s).proxyType = Key(s, "type", Unset)
         /\ FromIni(s).remote = Key(s, "remote", 0)
         /\ FromIni(s).limit = Key(s, "limit", Unset)
         /\ FromIni(s).mode = Key(s, "mode", "client")
         /\ FromIni(s).domains = Key(s, "domains", {})
         /\ FromIni(s).sub = Key(s, "sub", Unset)
<1>1. TypeOf(s) = IF Key(s, "type", Unset) = Unset THEN "tcp" ELSE Key(s, "type", Unset)
  BY DEF TypeOf, Key
<1> QED BY <1>1 DEF FromIni

\* What is written at the source does not change.
LEMMA SaysStays ==
  ASSUME source' = source
  PROVE  \A k, d : Says(k, d)' = Says(k, d)
BY DEF Says

\* Marshalling at the client and unmarshalling at frps.
LEMMA FromMarshal ==
  ASSUME NEW c, c.limit # "bad", c.type = IF c.proxyType = Unset THEN "tcp" ELSE c.proxyType
  PROVE  LET m == FromMsg(MarshalToMsg(c))
         IN  /\ m.type = c.type /\ m.limit = c.limit
             /\ c.type \in PortTypes => m.remote = c.remote
             /\ c.type \in DomainTypes => m.domains = c.domains /\ m.sub = c.sub
             /\ c.mode \in {"client", "server"} => m.mode = c.mode
<1> DEFINE m == MarshalToMsg(c)
<1>1. /\ m.type = c.proxyType /\ m.limit = c.limit
      /\ m.mode = IF c.mode = "client" THEN Unset ELSE c.mode
      /\ m.remote = RemotePort(c.type, c.remote)
      /\ m.domains = CustomDomains(c.type, c.domains)
      /\ m.sub = SubDomain(c.type, c.sub)
  BY DEF MarshalToMsg
<1>2. c.type = IF m.type = Unset THEN "tcp" ELSE m.type
  BY <1>1
<1> HIDE DEF m
<1> DEFINE f == FromMsg(m)
<1>3. /\ f.type = c.type /\ f.limit = c.limit
      /\ f.mode = IF m.mode = Unset THEN "client" ELSE m.mode
      /\ f.remote = RemotePort(c.type, m.remote)
      /\ f.domains = CustomDomains(c.type, m.domains)
      /\ f.sub = SubDomain(c.type, m.sub)
  BY <1>1, <1>2 DEF FromMsg
<1> HIDE DEF f
<1>4. c.mode \in {"client", "server"} => f.mode = c.mode
  BY <1>1, <1>3, UnsetFacts
<1>5. c.type \in PortTypes => f.remote = c.remote
  BY <1>1, <1>3 DEF RemotePort
<1>6. c.type \in DomainTypes => f.domains = c.domains /\ f.sub = c.sub
  BY <1>1, <1>3 DEF CustomDomains, SubDomain
<1> QED BY <1>3, <1>4, <1>5, <1>6 DEF f, m

LEMMA ConfInit == ConfigInit => ConfInv
BY DEF ConfigInit, ConfInv, Started, Domained, Validated, AsWritten, ServedAsWritten

LEMMA ConfNewService == ConfInv /\ NewService => ConfInv'
BY DEF NewService, ConfInv, Started, Domained, Validated, AsWritten, ServedAsWritten, Validate

\* A configuration that is read from a file.
LEMMA ConfLoadFile ==
  ASSUME ConfTypes, ConfInv, NEW file \in Files, NEW start \in Starts, LoadFile(file, start)
  PROVE  ConfInv'
<1>1. PICK n \in DOMAIN Rendered(file) :
        /\ n \in start \/ start = {}
        /\ Key(Rendered(file)[n], "role", "server") = "server"
        /\ source' = [type |-> "file", file |-> file, name |-> n]
        /\ conf' = FromIni(Rendered(file)[n])
  BY DEF LoadFile
<1>2. /\ at = "up" /\ at' = "loaded" /\ limited' = ClientLimiter(conf')
      /\ UNCHANGED <<server, comps, message, edited>>
  BY DEF LoadFile
<1> DEFINE s == Rendered(file)[n]
<1>3. \A m \in DOMAIN file : IsRange(m) => RangeOK(file[m])
  BY DEF LoadFile, LoadOK
<1>4. ValidateForClient(FromIni(s))
  <2>1. \/ Key(s, "role", "server") = "server" /\ ValidateForClient(FromIni(s))
        \/ Key(s, "role", "server") = "visitor" /\ Key(s, "checks", TRUE)
    BY <1>1 DEF LoadFile, LoadOK
  <2> QED BY <1>1, <2>1
<1>5. \A k, d : Says(k, d)' = SaysInFile(file, n, k, d)
  BY <1>1 DEF Says
<1>6. \A k, d : k # "local" => Key(s, k, d) = SaysInFile(file, n, k, d)
  BY <1>3, SectionSays
<1> HIDE DEF s
<1>7. \A k, d : k # "local" => Says(k, d)' = Key(s, k, d)
  BY <1>5, <1>6
<1>8. conf' = FromIni(s)
  BY <1>1 DEF s
<1>9. Key(s, "domains", {}) \subseteq Seq(STRING)
  <2>1. Key(s, "domains", {}) = SaysInFile(file, n, "domains", {})
    BY <1>6
  <2> QED BY <2>1, FileDomains
<1>10. Domained' /\ Started' /\ Validated'
  BY <1>2, <1>8, <1>9, FromIniFacts DEF ConfInv, Domained, Started, Validated, Validate
<1>11. /\ Says("type", Unset)' = Key(s, "type", Unset)
       /\ Says("remote", 0)' = Key(s, "remote", 0)
       /\ Says("domains", {})' = Key(s, "domains", {})
       /\ Says("sub", Unset)' = Key(s, "sub", Unset)
       /\ Says("limit", Unset)' = Key(s, "limit", Unset)
       /\ Says("mode", "client")' = Key(s, "mode", "client")
  BY <1>7
<1>12. Written(conf)'
  BY <1>8, <1>11, FromIniFacts DEF Written
<1>13. Sendable(conf)'
  BY <1>4, <1>8, <1>11, FromIniFacts DEF Sendable, ValidateForClient
<1> QED BY <1>2, <1>10, <1>12, <1>13 DEF ConfInv, AsWritten, ServedAsWritten

\* A configuration that the API answers.
LEMMA ConfEasyStartup ==
  ASSUME ConfTypes, ConfInv, NEW o \in Offers, EasyStartup(o)
  PROVE  ConfInv'
<1>1. /\ at = "up" /\ at' = "loaded" /\ limited' = ClientLimiter(conf')
      /\ o.type \in {"tcp", "udp", "http", "https"}
      /\ source' = [type |-> "offer", offer |-> o]
      /\ UNCHANGED <<server, comps, message, edited>>
  BY DEF EasyStartup
<1>2. /\ conf'.type = o.type /\ conf'.proxyType = o.type /\ conf'.limit = Unset /\ conf'.sub = Unset
      /\ conf'.remote = RemotePort(o.type, o.remote)
      /\ conf'.domains = CustomDomains(o.type, o.domains)
  BY DEF EasyStartup
<1>3. \A k, d : Says(k, d)' = Key(o, k, d)
  BY <1>1 DEF Says
<1>4. /\ {"type", "remote", "domains"} \subseteq DOMAIN o
      /\ {"sub", "limit"} \intersect DOMAIN o = {}
      /\ o.domains \subseteq Seq(STRING)
  BY DEF ConfTypes, DomainsOK
<1>5. /\ Says("type", Unset)' = o.type /\ Says("remote", 0)' = o.remote
      /\ Says("domains", {})' = o.domains /\ Says("sub", Unset)' = Unset
      /\ Says("limit", Unset)' = Unset
  BY <1>3, <1>4 DEF Key
<1>6. o.type \in Types /\ o.type # Unset
  BY <1>1, UnsetFacts DEF Types
<1>7. Written(conf)'
  BY <1>2, <1>5, <1>6 DEF Written, RemotePort, CustomDomains
<1>8. Sendable(conf)'
  BY <1>2, <1>6, UnsetFacts DEF Sendable
<1>9. Domained' /\ Started' /\ Validated'
  BY <1>1, <1>2, <1>4 DEF ConfInv, Domained, Started, Validated, Validate, CustomDomains
<1> QED BY <1>1, <1>7, <1>8, <1>9 DEF ConfInv, AsWritten, ServedAsWritten

\* The proxy goes to frps, and through its plugins.
LEMMA ConfSent ==
  ASSUME ConfInv, SendNewProxy
  PROVE  ConfInv'
<1>1. /\ at = "loaded" /\ at' = "sent" /\ message' = MarshalToMsg(conf)
      /\ UNCHANGED <<server, comps, source, conf, limited, edited>>
  BY DEF SendNewProxy
<1>2. Written(conf)' /\ Sendable(conf)'
  BY <1>1, SaysStays DEF ConfInv, AsWritten, Written, Sendable
<1>3. "domains" \in DOMAIN message' /\ message'.domains \subseteq Seq(STRING)
  BY <1>1 DEF ConfInv, Domained, MarshalToMsg, CustomDomains
<1>4. Started' /\ Domained' /\ Validated'
  BY <1>1, <1>3 DEF ConfInv, Started, Domained, Validated, Validate
<1> QED BY <1>1, <1>2, <1>4 DEF ConfInv, AsWritten, ServedAsWritten

LEMMA ConfPlugged ==
  ASSUME ConfTypes, ConfInv, Plugins
  PROVE  ConfInv'
<1>1. at = "sent" /\ UNCHANGED <<server, comps, source, conf, limited>> /\ at' \in {"plugged", "refused"}
  BY DEF Plugins
<1>2. /\ "domains" \in DOMAIN message' /\ message'.domains \subseteq Seq(STRING)
      /\ edited' \/ (message' = message /\ edited' = edited)
  <2>1. CASE UNCHANGED <<message, edited>>
    BY <1>1, <2>1 DEF ConfInv, Domained
  <2>2. ASSUME NEW e \in Edits, message' = Over(e, message), edited' = TRUE
        PROVE  "domains" \in DOMAIN message' /\ message'.domains \subseteq Seq(STRING)
    <3>1. "domains" \in DOMAIN e => e["domains"] \subseteq Seq(STRING)
      BY DEF ConfTypes, DomainsOK
    <3>2. "domains" \in DOMAIN message /\ message["domains"] \subseteq Seq(STRING)
      BY <1>1 DEF ConfInv, Domained
    <3>3. "domains" \in DOMAIN message' /\ message'["domains"] \subseteq Seq(STRING)
      BY <2>2, <3>1, <3>2 DEF Over
    <3> QED BY <2>2, <3>3
  <2> QED BY <2>1, <2>2 DEF Plugins
<1>3. Written(conf)' /\ Sendable(conf)'
  BY <1>1, SaysStays DEF ConfInv, AsWritten, Written, Sendable
<1>4. Started' /\ Domained' /\ Validated'
  BY <1>1, <1>2 DEF ConfInv, Started, Domained, Validated, Validate
<1> QED BY <1>1, <1>2, <1>3, <1>4 DEF ConfInv, AsWritten, ServedAsWritten

\* frps makes the proxy.
LEMMA ConfRegistered ==
  ASSUME ConfInv, RegisterProxy
  PROVE  ConfInv'
<1>1. /\ at = "plugged" /\ at' = "run" /\ conf' = FromMsg(message)
      /\ UNCHANGED <<server, comps, source, message, edited>>
      /\ ValidateForServer(FromMsg(message))
      /\ limited' = limited \union
           IF Bytes(conf'.limit) > 0 /\ conf'.mode = "server" THEN {"server"} ELSE {}
  BY DEF RegisterProxy
<1>2. /\ conf'.domains = CustomDomains(conf'.type, message.domains)
  BY <1>1 DEF FromMsg
<1>3. Started'
  BY <1>1 DEF ConfInv, Started, Validate
<1>4. Domained'
  BY <1>1, <1>2 DEF ConfInv, Domained, CustomDomains
<1>5. Validated'
  <2>1. ValidateForServer(conf)'
    BY <1>1 DEF ValidateForServer, DomainOK, PortSet
  <2> QED BY <1>2, <2>1 DEF Validated, CustomDomains
<1>6. ASSUME ~edited
      PROVE  ServedAsWritten'
  <2>1. Written(conf) /\ Sendable(conf) /\ limited = ClientLimiter(conf) /\ message = MarshalToMsg(conf)
    BY <1>1, <1>6 DEF ConfInv, AsWritten
  <2>2. conf.limit # "bad" /\ conf.type = IF conf.proxyType = Unset THEN "tcp" ELSE conf.proxyType
    BY <2>1 DEF Sendable, Written
  <2>3. /\ conf'.type = conf.type /\ conf'.limit = conf.limit
        /\ conf.type \in PortTypes => conf'.remote = conf.remote
        /\ conf.type \in DomainTypes => conf'.domains = conf.domains /\ conf'.sub = conf.sub
        /\ conf.mode \in {"client", "server"} => conf'.mode = conf.mode
    BY <1>1, <2>1, <2>2, FromMarshal
  <2>4. \A k, d : Says(k, d)' = Says(k, d)
    BY <1>1, SaysStays
  <2>5. limited' = IF Bytes(Says("limit", Unset)) > 0 THEN {Says("mode", "client")} ELSE {}
    BY <1>1, <2>1, <2>3 DEF Written, Sendable, ClientLimiter
  <2> QED BY <1>1, <2>1, <2>3, <2>4, <2>5 DEF ServedAsWritten, Written
<1>7. ServedAsWritten'
  BY <1>1, <1>6 DEF ServedAsWritten
<1> QED BY <1>1, <1>3, <1>4, <1>5, <1>7 DEF ConfInv, AsWritten

LEMMA ConfNext == ConfTypes /\ ConfInv /\ [ConfigNext]_configVars => ConfInv'
<1> SUFFICES ASSUME ConfTypes, ConfInv, [ConfigNext]_configVars PROVE ConfInv'
  OBVIOUS
<1>1. CASE UNCHANGED configVars
  <2>1. source' = source /\ server' = server /\ at' = at /\ conf' = conf /\ message' = message
        /\ comps' = comps /\ limited' = limited /\ edited' = edited
    BY <1>1 DEF configVars
  <2>2. Written(conf)' = Written(conf) /\ Sendable(conf)' = Sendable(conf)
    BY <2>1, SaysStays DEF Written, Sendable
  <2>3. ServedAsWritten'
    BY <2>1, SaysStays DEF ConfInv, AsWritten, ServedAsWritten
  <2>4. Validated'
    BY <2>1 DEF ConfInv, Validated, ValidateForServer, DomainOK, PortSet
  <2>5. AsWritten'
    BY <2>1, <2>2, <2>3 DEF ConfInv, AsWritten
  <2> QED BY <2>1, <2>4, <2>5 DEF ConfInv, Started, Domained, Validate
<1>2. CASE Refuse
  BY <1>2 DEF Refuse, ConfInv, Started, Domained, Validated, AsWritten, ServedAsWritten, Validate
<1> QED BY <1>1, <1>2, ConfNewService, ConfSent, ConfPlugged, ConfRegistered, ConfEasyStartup,
           ConfLoadFile DEF ConfigNext

LEMMA ConfHolds == ConfTypes => (ConfigSpec => []ConfInv)
<1> SUFFICES ASSUME ConfTypes PROVE ConfigSpec => []ConfInv
  OBVIOUS
<1>1. ConfInv /\ [ConfigNext]_configVars => ConfInv'
  BY ConfNext
<1> QED BY <1>1, ConfInit, PTL DEF ConfigSpec

\* Whatever file, answer or plugin a proxy comes from, frps has the component it
\* needs (AcceptedIsSupported): ValidateForServer refuses a port that is zero, and
\* NewService makes a component for each that is positive.
THEOREM AcceptedAreSupported == ConfigSpec => []AcceptedIsSupported
<1> ConfTypes
  BY ConfAssumption
<1>1. ConfInv => AcceptedIsSupported
  <2> SUFFICES ASSUME ConfInv, at = "run"
               PROVE  /\ conf.type \in DomainTypes => conf.type \in comps
                      /\ conf.type = "tcpmux" => conf.multiplexer = "httpconnect"
    BY DEF AcceptedIsSupported
  <2>1. ValidateForServer(conf)
    BY DEF ConfInv, Validated
  <2>2. \A p \in {"http", "https", "tcpmux"} : server[p] \in Int
    BY DEF ConfInv, Started, ConfTypes
  <2>3. /\ Validate(server)
        /\ comps = {p \in {"http", "https", "tcpmux"} : server[p] > 0}
    BY DEF ConfInv, Started
  <2>4. conf.type \in DomainTypes => conf.type \in comps
    BY <2>1, <2>2, <2>3 DEF ValidateForServer, PortSet, Validate, DomainTypes
  <2> QED BY <2>1, <2>4 DEF ValidateForServer, MultiplexerOK
<1> QED BY <1>1, ConfHolds, PTL

\* No accepted custom domain is a name of subdomain_host (SubdomainsAreReserved),
\* for domains and hosts of any number of labels (DomainConf.validateForServer).
THEOREM SubdomainsReserved == ConfigSpec => []SubdomainsAreReserved
<1> ConfTypes
  BY ConfAssumption
<1>1. ConfInv => SubdomainsAreReserved
  <2> SUFFICES ASSUME ConfInv, at = "run", server.host # <<>>, NEW d \in conf.domains,
                      d # <<>>, Tail(d) = server.host
               PROVE  FALSE
    BY DEF SubdomainsAreReserved
  <2>1. d \in Seq(STRING)
    BY DEF ConfInv, Domained
  <2>2. server.host \in Seq(STRING)
    BY DEF ConfInv, Started, ConfTypes
  <2>3. conf.type \in DomainTypes /\ ValidateForServer(conf)
    BY DEF ConfInv, Validated
  <2>4. ~(Len(server.host) < Len(d) /\ Contains(d, server.host))
    BY <2>3 DEF ValidateForServer, DomainOK
  <2>5. Len(d) = Len(server.host) + 1
    BY <2>1
  <2>6. SubSeq(d, 1 + 1, 1 + Len(server.host)) = server.host
    <3>1. Tail(d) = SubSeq(d, 2, Len(d))
      BY <2>1, TailIsSubSeq
    <3>2. Len(d) = 1 + Len(server.host) /\ 2 = 1 + 1
      BY <2>2, <2>5
    <3> QED BY <3>1, <3>2, Zenon
  <2>7. 1 \in 0..(Len(d) - Len(server.host))
    BY <2>2, <2>5
  <2>8. Contains(d, server.host)
    BY <2>6, <2>7 DEF Contains
  <2> QED BY <2>2, <2>4, <2>5, <2>8
<1> QED BY <1>1, ConfHolds, PTL

\* Unless a plugin edits it, frps runs what is written at the client
\* (ServedAsWritten), for any file and any ranges in it: what renderRangeProxyTemplates,
\* the defaults, MarshalToMsg and NewProxyConfFromMsg do together.
THEOREM RunsAsWritten == ConfigSpec => []ServedAsWritten
<1> ConfTypes
  BY ConfAssumption
<1>1. ConfInv => ServedAsWritten
  BY DEF ConfInv, AsWritten
<1> QED BY <1>1, ConfHolds, PTL
=============================================================================
