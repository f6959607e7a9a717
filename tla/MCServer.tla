----------------------------- MODULE MCServer -----------------------------
(* The server beside its controls, for TLC: the work connections of a      *)
(* client, the configuration of the proxies it registers and the           *)
(* statistics.  The three share no state: a behaviour is one of one part,  *)
(* the other two stay in their initial state.                              *)
EXTENDS WorkConns, ProxyConfig, ServerMetrics, TLC

CONSTANTS t1, t2, t3, c1, c2
VARIABLES part

all == <<vars, configVars, metricVars, part>>

MCInit ==
  /\ part \in {"conns", "config", "metrics"}
  /\ Init
  /\ ConfigInit /\ (part = "config" \/ server = CHOOSE s \in ServerConfs : TRUE)
  /\ MetricsInit
  /\ part = "metrics" \/ /\ \A r \in Reg : phase[r] = "closed"
                         /\ \A c \in Client : login[c] = "over"
MCNext ==
  /\ \/ part = "conns" /\ Next /\ UNCHANGED <<configVars, metricVars>>
     \/ part = "config" /\ ConfigNext /\ UNCHANGED <<vars, metricVars>>
     \/ part = "metrics" /\ MetricsNext /\ UNCHANGED <<vars, configVars>>
  /\ UNCHANGED part
MCSpec == MCInit /\ [][MCNext]_all /\ Fairness

-----------------------------------------------------------------------------
Host == <<"h", "com">>
MCServerConfs ==
  [http : {-1, 0, 1}, https : {0, 1}, tcpmux : {-1, 0, 1}, host : {<<>>, Host}]

Domains == {{}, {<<"a", "h", "com">>}, {<<"h", "com">>, <<"a", "b">>}, {<<"x", "a", "h", "com", "b">>}}
Plain(t, l, m, r) ==
  [type |-> t, local |-> 1, remote |-> 2, limit |-> l, mode |-> m, role |-> r]
Named(t, d, s, m) ==
  [type |-> t, local |-> 1, domains |-> d, sub |-> s, multiplexer |-> m]
Range(ls, rs) == [type |-> "udp", local |-> ls, remote |-> rs, limit |-> "1MB"]
One(s) == (<<"a">> :> s)

\* Plain proxies with every limit and mode, domains of every kind, defaults, and
\* ranges that are alone, malformed, or meet a section of the same name.
MCFiles ==
  {One(Plain(t, l, m, "server")) : t \in {"tcp", "stcp"}, l \in {"", "1MB", "0.1B", "bad"},
                                   m \in {"client", "server", "both"}}
  \cup {One(Named(t, d, s, m)) : t \in {"http", "https", "tcpmux"}, d \in Domains,
                                 s \in {"", "s", "*"}, m \in {"", "httpconnect"}}
  \cup {One([local |-> 1]), One([type |-> "gone", local |-> 1]), One([type |-> "udp"]),
        One([type |-> "xtcp", local |-> 1, checks |-> FALSE]), One([plugin |-> TRUE]),
        One([role |-> "visitor", checks |-> FALSE]) @@ (<<"b">> :> [local |-> 1]),
        One(Plain("sudp", "", "client", "visitor")) @@ (<<"b">> :> [local |-> 1]),
        One(Plain("sudp", "", "client", "guest"))}
  \cup {(<<"range:", "a">> :> Range(ls, rs)) @@ (<<"a", 0>> :> Plain("tcp", "", "server", "server")) :
          ls \in {<<7, 8>>, <<>>}, rs \in {<<5, 6>>, <<5>>}}
  \cup {<<"range:", "b">> :> [local |-> <<7, 8>>, remote |-> <<6, 5>>],
        <<"range:", "b">> :> [local |-> <<7, 8>>],
        (<<"range:", "a">> :> Range(<<7>>, <<5>>)) @@ (<<"a", 2>> :> Plain("tcp", "1MB", "server", "server"))}
MCStarts == {{}, {<<"a">>, <<"a", 1>>}}
MCOffers == {[usable |-> u, type |-> t, local |-> 1, remote |-> 2, domains |-> d] :
               u \in BOOLEAN, t \in {"tcp", "https", "xtcp"}, d \in {{}, {<<"a", "b">>}}}
MCEdits == {[type |-> "tcpmux", multiplexer |-> "httpconnect"], [type |-> "", mode |-> "server"],
            [domains |-> {<<"z", "h", "com">>}], [limit |-> "bad", mode |-> "none"]}

LastDay == 3
MCShape ==
  [r \in Reg |-> [name |-> "n", type |-> CASE r = t1 -> "tcp" [] r = t2 -> "udp" [] r = t3 -> "http"]]
MCParties == {{}, Client, {t1, t2, c1, c2}, {t1, t3, c1}}
\* The first day has 25 hours and the third 23.
MCMidnight == [d \in 0..LastDay |-> IF d = 0 THEN 0 ELSE IF d = 3 THEN 72 ELSE 24 * d + 1]
=============================================================================
