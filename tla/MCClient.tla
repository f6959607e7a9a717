------------------------------ MODULE MCClient ------------------------------
(* The client for TLC: the behaviours of ClientSession beside a wrapper that *)
(* is closed, and those of ProxyWrapper beside a service that has exited.    *)
EXTENDS ClientSession, ProxyWrapper

all == <<vars, wrapperVars>>

WrapperClosed ==
  /\ phase = "closed" /\ health = FALSE /\ statusOK = FALSE
  /\ failedTimes = 0
  /\ toServer = <<>> /\ toClient = <<>> /\ registered = FALSE
  /\ agreed = FALSE /\ late = FALSE /\ refused = FALSE
SessionExited ==
  /\ keeper = "exit" /\ cur = NoControl /\ new = NoControl /\ conn = {} /\ cut = {}
  /\ reader = [c \in Control |-> "off"] /\ handler = reader
  /\ writer = reader /\ worker = reader
  /\ readCh = [c \in Control |-> 0] /\ sendCh = readCh
  /\ proxies = [c \in Control |-> "none"]

MCInit == (Init /\ WrapperClosed) \/ (SessionExited /\ WrapperInit)
MCNext ==
  \/ Next /\ UNCHANGED wrapperVars
  \/ WrapperNext /\ UNCHANGED vars
MCSpec == MCInit /\ [][MCNext]_all /\ Fairness /\ WrapperFairness
=============================================================================
