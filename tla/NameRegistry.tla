---------------------------- MODULE NameRegistry ----------------------------
(***************************************************************************)
(* What the control sessions promise about proxy names: a name belongs to  *)
(* one session at a time, passes to another only by being given up, and a  *)
(* session that has closed owns nothing and takes nothing again.           *)
(***************************************************************************)
CONSTANTS Session, NoSession, Name

VARIABLES
  owner,   \* the session a name belongs to
  closed   \* the sessions that reported themselves closed

Init == owner = [n \in Name |-> NoSession] /\ closed = {}

Claim(s, n) ==
  /\ owner[n] = NoSession /\ s \notin closed
  /\ owner' = [owner EXCEPT ![n] = s]
  /\ UNCHANGED closed

GiveUp(n) ==
  /\ owner[n] # NoSession
  /\ owner' = [owner EXCEPT ![n] = NoSession]
  /\ UNCHANGED closed

Close(s) ==
  /\ s \notin closed /\ \A n \in Name : owner[n] # s
  /\ closed' = closed \cup {s}
  /\ UNCHANGED owner

Next ==
  \/ \E s \in Session, n \in Name : Claim(s, n)
  \/ \E n \in Name : GiveUp(n)
  \/ \E s \in Session : Close(s)

Spec == Init /\ [][Next]_<<owner, closed>>
=============================================================================
