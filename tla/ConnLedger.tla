----------------------------- MODULE ConnLedger -----------------------------
(***************************************************************************)
(* What frps promises about the work connections of a client: each is      *)
(* offered to the users once at most, one user gets it, a user has one at  *)
(* a time, and a connection that was given back, thrown away or refused is *)
(* never offered or given again.                                           *)
(***************************************************************************)
CONSTANTS Conn, Holder

VARIABLES
  fresh,    \* the connections that were neither offered nor refused yet
  offered,  \* those a user may get
  given     \* <<w, u>>: connection w is in the hands of user u

ledgerVars == <<fresh, offered, given>>

Init == fresh = Conn /\ offered = {} /\ given = {}

Offer(w) ==
  /\ w \in fresh
  /\ fresh' = fresh \ {w} /\ offered' = offered \union {w}
  /\ UNCHANGED given

Refuse(w) ==
  /\ w \in fresh
  /\ fresh' = fresh \ {w}
  /\ UNCHANGED <<offered, given>>

Give(w, u) ==
  /\ w \in offered /\ \A v \in Conn : <<v, u>> \notin given
  /\ offered' = offered \ {w} /\ given' = given \union {<<w, u>>}
  /\ UNCHANGED fresh

ThrowAway(w) ==
  /\ w \in offered
  /\ offered' = offered \ {w}
  /\ UNCHANGED <<fresh, given>>

GiveBack(w, u) ==
  /\ <<w, u>> \in given
  /\ given' = given \ {<<w, u>>}
  /\ UNCHANGED <<fresh, offered>>

Next ==
  \E w \in Conn :
    \/ Offer(w) \/ Refuse(w) \/ ThrowAway(w)
    \/ \E u \in Holder : Give(w, u) \/ GiveBack(w, u)

Spec == Init /\ [][Next]_ledgerVars
=============================================================================
