------------------------------ MODULE MCNatHole -----------------------------
(* Hole punching for TLC: two attempts under way together between one pair of *)
(* NATs, and one attempt followed to its end between every pair.              *)
EXTENDS NatHole

A(i, p) == [ip |-> i, port |-> p]
PublicHost == [addrs |-> <<A(1, 7), A(1, 7)>>, local |-> {1}]
EasyHost   == [addrs |-> <<A(2, 65534), A(2, 65534)>>, local |-> {}]
HardRegular   == [addrs |-> <<A(3, 65532), A(3, 65535)>>, local |-> {}]
HardIrregular == [addrs |-> <<A(4, 90), A(4, 3)>>, local |-> {}]
MCNatKinds == {PublicHost, EasyHost, HardRegular, HardIrregular}

MCInit ==
  \/ Init /\ nat = [c |-> HardRegular, v |-> HardRegular]
  \/ InitWith(Attempt \ Followed)
MCSpec == MCInit /\ [][Next]_vars /\ Fairness
=============================================================================
