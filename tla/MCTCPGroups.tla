---------------------------- MODULE MCTCPGroups ----------------------------
(* Instances of TCPGroups for TLC.                                         *)
EXTENDS TCPGroups, TLC

CONSTANTS n1, n2, n3, g1, k1, k2, a1, a2

Conf(n, g, k, r) == [name |-> n, group |-> g, key |-> k, port |-> r]

\* Two members of a group, one with the wrong key, a proxy that wants the
\* group's port for itself and one that leaves the choice to frps.
MixedConfigs ==
  {Conf(n1, g1, k1, a1), Conf(n2, g1, k1, a1), Conf(n2, g1, k2, a1),
   Conf(n2, NoGroup, k1, a1), Conf(n3, NoGroup, k1, NoPort)}

GroupConfigs == {Conf(n1, g1, k1, a1), Conf(n2, g1, k1, a1)}

\* A group that leaves the choice of its port to frps.
AnyPortConfigs == {Conf(n1, g1, k1, NoPort), Conf(n2, g1, k1, NoPort)}

Proxies == Permutations(Proxy)
=============================================================================
