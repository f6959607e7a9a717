------------------------------- MODULE Routers ------------------------------
(***************************************************************************)
(* The table of routes of pkg/util/vhost/router.go and the lookup that     *)
(* HTTPReverseProxy.getVhost and Muxer.getListener share.  A domain is the *)
(* sequence of its labels, a location the sequence of its characters; an   *)
(* empty user stands for a route that does not ask for one.                *)
(***************************************************************************)
EXTENDS Naturals, Sequences, FiniteSets, FiniteSetsExt, SequencesExt

Star == "*"
AnyUser == ""
\* What a failed lookup returns; the payloads of routes are other values.
NoRoute == [payload |-> "noRoute"]
NoRoutes == <<>>

Key(domain, location, user) == [domain |-> domain, location |-> location, user |-> user]

\* strings.Compare(a, b) < 0
Less(a, b) ==
  \/ IsStrictPrefix(a, b)
  \/ \E n \in DOMAIN a \intersect DOMAIN b :
       a[n] < b[n] /\ \A m \in 1..(n - 1) : a[m] = b[m]

\* Routers.indexByDomain as one sequence of routes [key, payload]; the routes of
\* one domain and user are those with that domain and user in their key, in the
\* order of the sequence, which Add keeps sorted by descending location.
Exist(routes, key) == \E i \in DOMAIN routes : routes[i].key = key

AddAppends(routes, key, payload) == Append(routes, [key |-> key, payload |-> payload])
Add(routes, key, payload) ==
  LET less == {i \in DOMAIN routes : Less(routes[i].key.location, key.location)}
  IN  InsertAt(routes, Min(less \union {Len(routes) + 1}), [key |-> key, payload |-> payload])
\* As Add refuses a key that exists, Del finds one route at most.
Del(routes, key) ==
  IF Exist(routes, key)
    THEN RemoveAt(routes, CHOOSE i \in DOMAIN routes : routes[i].key = key) ELSE routes

\* Routers.Get: the first route of the domain and user whose location is a prefix
\* of the path.
Get(routes, host, path, user) ==
  LET hits == {i \in DOMAIN routes : /\ routes[i].key.domain = host
                                     /\ routes[i].key.user = user
                                     /\ IsPrefix(routes[i].key.location, path)}
  IN  IF hits = {} THEN NoRoute ELSE routes[Min(hits)]

\* The domains tried for a host: itself, then with its leading labels replaced by a
\* star as long as three labels are left, then the star alone.
DomainsTried(host) ==
  <<host>> \o [n \in 1..(IF Len(host) < 3 THEN 0 ELSE Len(host) - 2) |->
                 <<Star>> \o SubSeq(host, n + 1, Len(host))] \o << <<Star>> >>

\* getVhost: for every domain tried, the routes for the user and then those for any.
getVhost(routes, host, path, user) ==
  LET tries == [n \in 1..(2 * Len(DomainsTried(host))) |->
                  Get(routes, DomainsTried(host)[(n + 1) \div 2], path,
                      IF n % 2 = 1 THEN user ELSE AnyUser)]
      hits  == {n \in DOMAIN tries : tries[n] # NoRoute}
  IN  IF hits = {} THEN NoRoute ELSE tries[Min(hits)]

-----------------------------------------------------------------------------
\* The routes that match a request, and which of two of them is to be preferred:
\* more labels of the host, then the user, then the longer location.  A wildcard is
\* a star and a suffix of the host, of any length.
DomainMatches(domain, host) ==
  \/ domain = host
  \/ domain = <<Star>>
  \/ /\ Len(domain) >= 2 /\ domain[1] = Star
     /\ Len(domain) <= Len(host) /\ IsSuffix(Tail(domain), host)
\* *.com: the comment of getVhost lists it among the domains it tries; the loop stops
\* before it, with two labels left.
ShortWildcard(domain, host) == Len(domain) = 2 /\ domain[1] = Star /\ domain # host
Matches(key, host, path, user) ==
  /\ DomainMatches(key.domain, host)
  /\ key.user \in {user, AnyUser}
  /\ IsPrefix(key.location, path)
Labels(key, host) == IF key.domain = host THEN Len(host) + 1 ELSE Len(key.domain)
Preferred(k, l, host) ==
  \/ Labels(k, host) > Labels(l, host)
  \/ /\ k.domain = l.domain
     /\ \/ k.user # AnyUser /\ l.user = AnyUser
        \/ k.user = l.user /\ Len(k.location) >= Len(l.location)
=============================================================================
