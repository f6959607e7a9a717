-------------------------- MODULE MCServerControl --------------------------
(* Instances of ServerControl for TLC.                                     *)
EXTENDS ServerControl, TLC

Msg(t, n) == [type |-> t, name |-> n]

\* Messages that matter to the name table.
ProxyMsgs == {Msg(t, n) : t \in {"NewProxy", "CloseProxy"}, n \in Name}

\* Messages of every type, on one name where the name is not looked at.
AllMsgs ==
  ProxyMsgs \cup {Msg(t, CHOOSE n \in Name : TRUE) : t \in {"Ping", "BadPing", "NatHole"}}

Logins == Permutations(Control)
=============================================================================
