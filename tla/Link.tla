-------------------------------- MODULE Link --------------------------------
(***************************************************************************)
(* What the Server promises in each direction between the deck and the     *)
(* crewmates: every message comes to its peer once, whole, and in the      *)
(* order in which the messages of that peer were sent.  It may lose one    *)
(* only when it has an excuse, and promises nothing once it is broken.     *)
(***************************************************************************)
EXTENDS Sequences

CONSTANTS
  Peers,      \* who is at the far end, or at the near one
  Messages    \* what is sent

VARIABLES
  inFlight,   \* sent and not delivered, for each peer
  got,        \* delivered, for each peer
  excused,    \* whether what comes next may be lost
  broken      \* whether the promise is void

vars == <<inFlight, got, broken>>

Init ==
  /\ inFlight = [k \in Peers |-> << >>]
  /\ got = [k \in Peers |-> << >>]
  /\ ~broken

Send(k, m) ==
  /\ inFlight' = [inFlight EXCEPT ![k] = Append(@, m)]
  /\ UNCHANGED <<got, broken>>

Deliver(k) ==
  /\ inFlight[k] # << >>
  /\ inFlight' = [inFlight EXCEPT ![k] = Tail(@)]
  /\ got' = [got EXCEPT ![k] = Append(@, Head(inFlight[k]))]
  /\ UNCHANGED broken

Lose(k) ==
  /\ excused
  /\ inFlight[k] # << >>
  /\ inFlight' = [inFlight EXCEPT ![k] = Tail(@)]
  /\ UNCHANGED <<got, broken>>

\* Whatever happens from now on is right.
Break == broken'

Next ==
  \/ \E k \in Peers : (\E m \in Messages : Send(k, m)) \/ Deliver(k) \/ Lose(k)
  \/ Break

Spec == Init /\ [][Next]_vars
=============================================================================
