----------------------------- MODULE ProxyConfig ----------------------------
(***************************************************************************)
(* The way of one proxy's configuration from the client's file, or the     *)
(* answer of the ME-Frp API, to the proxy that frps runs: pkg/config       *)
(* (client.go, proxy.go, types.go, server.go), cmd/frpc/sub/root.go, the   *)
(* NewProxy plugins of frps, and NewProxy at both ends.                    *)
(*                                                                         *)
(* An ini section is a record of the keys it has; a missing key is a       *)
(* missing field.  Names are sequences: <<"a">> is [a], <<"a", 0>> is      *)
(* [a_0] and <<"range:", "a">> is [range:a].  Domains are sequences of     *)
(* labels; the domains of an instance share whole labels or nothing.       *)
(***************************************************************************)
EXTENDS Integers, Sequences

CONSTANTS
  ServerConfs,  \* configurations of frps: ports http, https, tcpmux, and host
  Files,        \* client files: functions from section names to sections
  Starts,       \* values of start, {} for all
  Offers,       \* what the API answers to an easy startup
  Edits         \* what a plugin may write into a NewProxy message

\* Ports are integers, and domains sequences of labels; a name of a range is
\* "range:" and the name proper; offers have no subdomain and no limit.
DomainsOK(s) == "domains" \in DOMAIN s => s.domains \subseteq Seq(STRING)
ConfTypes ==
  /\ \A s \in ServerConfs :
       s.host \in Seq(STRING) /\ \A p \in {"http", "https", "tcpmux"} : s[p] \in Int
  /\ \A file \in Files : \A n \in DOMAIN file :
       /\ Len(n) = 2 => n = <<n[1], n[2]>>
       /\ n[1] = "range:" => Len(n) = 2 /\ n[2] # "range:"
       /\ DomainsOK(file[n])
  /\ \A o \in Offers : /\ {"type", "remote", "domains"} \subseteq DOMAIN o /\ DomainsOK(o)
                       /\ {"sub", "limit"} \intersect DOMAIN o = {}
  /\ \A e \in Edits : DomainsOK(e)
ASSUME ConfAssumption == ConfTypes

VARIABLES
  at,        \* how far the proxy is
  server,    \* the configuration of frps
  comps,     \* the components NewService made
  source,    \* where the client's configuration comes from
  conf,      \* the configuration at the client, then the one at frps
  message,   \* the NewProxy message
  limited,   \* the ends that limit the bandwidth
  edited     \* a plugin changed the message

configVars == <<at, server, comps, source, conf, message, limited, edited>>

Types == {"tcp", "udp", "http", "https", "tcpmux", "stcp", "sudp", "xtcp"}
DomainTypes == {"http", "https", "tcpmux"}
SecretTypes == {"stcp", "sudp", "xtcp"}
PortTypes   == {"tcp", "udp"}
Nothing == [type |-> "nil"]
Unset == ""

\* The fields of a type: a configuration, a message and the server's
\* configuration have those of their type and the zero value elsewhere.
RemotePort(t, p) == IF t \in PortTypes THEN p ELSE 0
CustomDomains(t, ds) == IF t \in DomainTypes THEN ds ELSE {}
SubDomain(t, sub) == IF t \in DomainTypes THEN sub ELSE Unset
Multiplexer(t, m) == IF t = "tcpmux" THEN m ELSE Unset

\* section.Key: the value of a key, or a default.
Key(s, k, default) == IF k \in DOMAIN s THEN s[k] ELSE default
\* The keys of s on top of those of t.
Over(s, t) == [k \in DOMAIN s \cup DOMAIN t |-> IF k \in DOMAIN s THEN s[k] ELSE t[k]]

\* BandwidthQuantity: "1MB" stands for a quantity of at least a byte, "0.1B" for
\* one that rounds to none, and "bad" for one with an unknown unit.
Bytes(q) == IF q = "1MB" THEN 1 ELSE 0

-----------------------------------------------------------------------------
(* frps starts.                                                            *)

Validate(s) == \A p \in {"http", "https", "tcpmux"} : s[p] >= 0

ConfigInit ==
  /\ at = "start" /\ server \in ServerConfs /\ comps = {}
  /\ source = Nothing /\ conf = Nothing /\ message = Nothing
  /\ limited = {} /\ edited = FALSE

\* NewService makes a component for each port that is set.
NewService ==
  /\ at = "start" /\ Validate(server)
  /\ comps' = {p \in {"http", "https", "tcpmux"} : server[p] > 0}
  /\ at' = "up"
  /\ UNCHANGED <<server, source, conf, message, limited, edited>>

-----------------------------------------------------------------------------
(* The client reads its configuration.                                     *)

RangePrefix == "range:"
IsRange(n) == n[1] = RangePrefix
RangeOf(n) == <<RangePrefix, n[1]>>
RangeOK(s) == /\ {"local", "remote"} \subseteq DOMAIN s
              /\ Len(s.local) = Len(s.remote) /\ s.local # <<>>

\* copySection, then the i-th port of each list.
RangeSection(s, i) == Over([local |-> s.local[i + 1], remote |-> s.remote[i + 1]], s)

\* The sections of a file as they are, and those a range makes, one per port.
PlainNames(file) == {n \in DOMAIN file : ~IsRange(n)}
MadeNames(file) ==
  UNION {{<<r[2], i>> : i \in 0..(Len(file[r].local) - 1)} : r \in DOMAIN file \ PlainNames(file)}
OwnSection(file, n) == IF n \in PlainNames(file) THEN file[n] ELSE <<>>
MadeSection(file, n) ==
  IF n \in MadeNames(file) THEN RangeSection(file[RangeOf(n)], n[2]) ELSE <<>>

\* renderRangeProxyTemplates: what a range makes goes on top of what the file has
\* under that name.
Rendered(file) ==
  [n \in PlainNames(file) \cup MadeNames(file) |->
     Over(MadeSection(file, n), OwnSection(file, n))]

\* stcp, xtcp and sudp proxies have the role "server", the default.
DefaultRole(t) == IF t \in SecretTypes THEN "server" ELSE Unset
RoleOK(c) == c.type \in SecretTypes => c.role = "server"

\* DefaultProxyConf, then the keys of the section: `type' is the type of the value,
\* proxyType its field ProxyType, which is left empty if the section has no type.
TypeOf(s) == IF Key(s, "type", Unset) = Unset THEN "tcp" ELSE s.type
FromIni(s) ==
  LET t == TypeOf(s)
  IN  [type |-> t, proxyType |-> Key(s, "type", Unset), plugin |-> Key(s, "plugin", FALSE),
       local |-> Key(s, "local", 0), remote |-> Key(s, "remote", 0),
       limit |-> Key(s, "limit", Unset), mode |-> Key(s, "mode", "client"),
       role |-> Key(s, "role", DefaultRole(t)),
       domains |-> Key(s, "domains", {}), sub |-> Key(s, "sub", Unset),
       multiplexer |-> Key(s, "multiplexer", Unset), checks |-> Key(s, "checks", TRUE)]

\* Custom domains or a subdomain are given: DomainConf.check.
HasDomain(c) == c.domains # {} \/ c.sub # Unset
MultiplexerOK(c) == c.type = "tcpmux" => c.multiplexer = "httpconnect"

\* The errors of NewProxyConfFromIni: decorate and ValidateForClient.  `checks'
\* stands for the local address without a plugin, proxy protocol and health check settings.
ValidateForClient(c) ==
  /\ c.type \in Types /\ c.limit # "bad" /\ c.mode \in {"client", "server"}
  /\ c.plugin \/ c.local > 0
  /\ c.checks
  /\ RoleOK(c) /\ MultiplexerOK(c)
  /\ c.type \in DomainTypes => HasDomain(c)

\* LoadAllProxyConfsFromIni: one bad section is an error of the whole file, one of
\* a visitor (NewVisitorConfFromIni) too.
LoadOK(file, start) ==
  /\ \A n \in DOMAIN file : IsRange(n) => RangeOK(file[n])
  /\ LET sections == Rendered(file)
     IN  \A n \in DOMAIN sections : n \in start \/ start = {} =>
           \/ Key(sections[n], "role", "server") = "server" /\ ValidateForClient(FromIni(sections[n]))
           \/ Key(sections[n], "role", "server") = "visitor" /\ Key(sections[n], "checks", TRUE)

\* The client's limiter; the mode of an easy startup is empty.
ClientLimiter(c) == IF Bytes(c.limit) > 0 /\ c.mode = "client" THEN {"client"} ELSE {}

\* One of the proxies of the file is started; a visitor is none.
LoadFile(file, start) ==
  /\ at = "up" /\ LoadOK(file, start)
  /\ \E n \in DOMAIN Rendered(file) :
       /\ n \in start \/ start = {}
       /\ Key(Rendered(file)[n], "role", "server") = "server"
       /\ source' = [type |-> "file", file |-> file, name |-> n]
       /\ conf' = FromIni(Rendered(file)[n])
  /\ limited' = ClientLimiter(conf')
  /\ at' = "loaded"
  /\ UNCHANGED <<server, comps, message, edited>>

\* fetchProxyConfig and createProxyConfig: neither defaults nor a validation.
EasyStartup(o) ==
  /\ at = "up" /\ o.usable /\ o.type \in {"tcp", "udp", "http", "https"}
  /\ source' = [type |-> "offer", offer |-> o]
  /\ conf' = [type |-> o.type, proxyType |-> o.type, plugin |-> FALSE, local |-> o.local, limit |-> Unset, mode |-> Unset, role |-> Unset,
              remote |-> RemotePort(o.type, o.remote),
              domains |-> CustomDomains(o.type, o.domains), sub |-> Unset,
              multiplexer |-> Unset, checks |-> TRUE]
  /\ limited' = ClientLimiter(conf')
  /\ at' = "loaded"
  /\ UNCHANGED <<server, comps, message, edited>>

-----------------------------------------------------------------------------
(* NewProxy, from the client to the plugins of frps.                       *)

\* Mutant: the mode never goes into the message.
MarshalWithoutMode(c) ==
  [type |-> c.proxyType, limit |-> c.limit, mode |-> Unset,
   remote |-> RemotePort(c.type, c.remote), domains |-> CustomDomains(c.type, c.domains),
   sub |-> SubDomain(c.type, c.sub), multiplexer |-> Multiplexer(c.type, c.multiplexer)]

\* The fields of the type, and the mode only if it is not the default.
MarshalToMsg(c) ==
  [type |-> c.proxyType, limit |-> c.limit, mode |-> IF c.mode = "client" THEN Unset ELSE c.mode,
   remote |-> RemotePort(c.type, c.remote), domains |-> CustomDomains(c.type, c.domains),
   sub |-> SubDomain(c.type, c.sub), multiplexer |-> Multiplexer(c.type, c.multiplexer)]

SendNewProxy ==
  /\ at = "loaded" /\ at' = "sent"
  /\ message' = MarshalToMsg(conf)
  /\ UNCHANGED <<server, comps, source, conf, limited, edited>>

\* Manager.NewProxy: each plugin leaves the message, changes it or rejects it.
Plugins ==
  /\ at = "sent"
  /\ \/ at' = "plugged" /\ UNCHANGED <<message, edited>>
     \/ \E e \in Edits : message' = Over(e, message) /\ edited' = TRUE /\ at' = "plugged"
     \/ at' = "refused" /\ UNCHANGED <<message, edited>>
  /\ UNCHANGED <<server, comps, source, conf, limited>>

-----------------------------------------------------------------------------
(* RegisterProxy of frps.                                                  *)

\* NewProxyConfFromMsg without the validation: the defaults of the type, then
\* the fields of the message.  The error of a bad quantity is dropped.
FromMsg(m) ==
  LET t == IF m.type = Unset THEN "tcp" ELSE m.type
  IN  [type |-> t, remote |-> RemotePort(t, m.remote),
       limit |-> IF m.limit = "bad" THEN Unset ELSE m.limit,
       mode |-> IF m.mode = Unset THEN "client" ELSE m.mode,
       domains |-> CustomDomains(t, m.domains), sub |-> SubDomain(t, m.sub),
       multiplexer |-> Multiplexer(t, m.multiplexer)]

Contains(d, h) == \E i \in 0..(Len(d) - Len(h)) : SubSeq(d, i + 1, i + Len(h)) = h

\* Mutant: only domains of two more labels are compared with the host.
DomainOKOffByOne(c) ==
  /\ HasDomain(c)
  /\ \A d \in c.domains :
       ~(server.host # <<>> /\ Len(server.host) + 1 < Len(d) /\ Contains(d, server.host))
  /\ c.sub # Unset => server.host # <<>> /\ c.sub # "*"

\* DomainConf.validateForServer.
DomainOK(c) ==
  /\ HasDomain(c)
  /\ \A d \in c.domains :
       ~(server.host # <<>> /\ Len(server.host) < Len(d) /\ Contains(d, server.host))
  /\ c.sub # Unset => server.host # <<>> /\ c.sub # "*"

\* "type [http] not support when vhost_http_port is not set"
PortSet(c) == server[c.type] # 0

\* Mutant: the port of tcpmux is not looked at.
ValidateForServerAnyPort(c) ==
  /\ c.type \in Types /\ c.mode \in {"client", "server"}
  /\ c.type \in DomainTypes => DomainOK(c) /\ (c.type = "tcpmux" \/ PortSet(c))
  /\ MultiplexerOK(c)

\* ValidateForServer of each type.
ValidateForServer(c) ==
  /\ c.type \in Types /\ c.mode \in {"client", "server"}
  /\ c.type \in DomainTypes => DomainOK(c) /\ PortSet(c)
  /\ MultiplexerOK(c)

\* NewProxyConfFromMsg and NewProxy, after the API has allowed the proxy.
RegisterProxy ==
  /\ at = "plugged" /\ ValidateForServer(FromMsg(message))
  /\ conf' = FromMsg(message)
  /\ limited' = limited \cup
       IF Bytes(conf'.limit) > 0 /\ conf'.mode = "server" THEN {"server"} ELSE {}
  /\ at' = "run"
  /\ UNCHANGED <<server, comps, source, message, edited>>

\* Any error is answered to the client.
Refuse ==
  /\ at = "plugged" /\ at' = "refused"
  /\ UNCHANGED <<server, comps, source, conf, message, limited, edited>>

-----------------------------------------------------------------------------
ConfigNext ==
  \/ NewService \/ SendNewProxy \/ Plugins \/ RegisterProxy \/ Refuse
  \/ \E o \in Offers : EasyStartup(o)
  \/ \E file \in Files, start \in Starts : LoadFile(file, start)

ConfigSpec == ConfigInit /\ [][ConfigNext]_configVars

-----------------------------------------------------------------------------
(* Properties.                                                             *)

\* Whatever a client sends and a plugin makes of it, Run finds what it needs:
\* the reverse proxy or muxer of the type is not nil, although one side of the
\* code tests the port for > 0 and the other for = 0.
AcceptedIsSupported ==
  at = "run" => /\ conf.type \in DomainTypes => conf.type \in comps
                /\ conf.type = "tcpmux" => conf.multiplexer = "httpconnect"

\* The names below subdomain_host are handed out as subdomains only: no
\* accepted custom domain is one a subdomain of another client would get.
SubdomainsAreReserved ==
  at = "run" /\ server.host # <<>> =>
    \A d \in conf.domains : d = <<>> \/ Tail(d) # server.host

\* What the section at the source says, without the code's defaults.
InRange(f, n) ==
  Len(n) = 2 /\ RangeOf(n) \in DOMAIN f /\ n[2] \in 0..(Len(f[RangeOf(n)].local) - 1)
SaysInFile(f, n, k, default) ==
  LET r == RangeOf(n)
  IN  IF InRange(f, n) /\ k \in DOMAIN f[r]
      THEN IF k = "remote" THEN f[r].remote[n[2] + 1] ELSE f[r][k]
      ELSE IF n \in DOMAIN f THEN Key(f[n], k, default) ELSE default
Says(k, default) ==
  IF source.type = "offer" THEN Key(source.offer, k, default)
  ELSE SaysInFile(source.file, source.name, k, default)

\* If no plugin interferes, frps runs what the client's file says, through
\* range expansion, defaults, marshalling and unmarshalling: its type, port and
\* names, with the bandwidth limited at the end that is asked for and only there.
ServedAsWritten ==
  at = "run" /\ ~edited =>
    /\ conf.type = (IF Says("type", Unset) = Unset THEN "tcp" ELSE Says("type", Unset))
    /\ conf.type \in PortTypes => conf.remote = Says("remote", 0)
    /\ conf.type \in DomainTypes =>
         conf.domains = Says("domains", {}) /\ conf.sub = Says("sub", Unset)
    /\ limited = IF Bytes(Says("limit", Unset)) > 0 THEN {Says("mode", "client")} ELSE {}
=============================================================================
