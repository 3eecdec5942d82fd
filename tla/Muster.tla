------------------------------- MODULE Muster -------------------------------
(***************************************************************************)
(* What the ship deck promises about its crew, without threads, sockets or *)
(* queues: every crewmate is in one place, the deck moves one crewmate at  *)
(* a time, and the number it publishes for a cabin ("Current playing") is  *)
(* the number of crewmates in it.  ShipDeck implements this module.        *)
(***************************************************************************)
EXTENDS Naturals, FiniteSets

CONSTANTS
  Crew,     \* the crewmates
  Cabins,   \* the cabins they can be in
  Ashore,   \* the place of a crewmate that has not logged in
  Passage,  \* the place of the crewmate the deck is moving
  Gone      \* the place of a crewmate that has quit

VARIABLES
  place,    \* where each crewmate is
  playing   \* the number published for each cabin

vars == <<place, playing>>

Places == Cabins \cup {Ashore, Passage, Gone}

HeadCount(where) == [c \in Cabins |-> Cardinality({k \in Crew : where[k] = c})]

Init ==
  /\ place = [k \in Crew |-> Ashore]
  /\ playing = [c \in Cabins |-> 0]

\* Crewmate k goes to place p, and the published numbers follow.
Go(k, p) ==
  /\ place' = [place EXCEPT ![k] = p]
  /\ playing' = HeadCount(place')

\* The deck starts to move a crewmate only when it is moving nobody else.
PassageFree == \A k \in Crew : place[k] # Passage

Embark(k)    == place[k] = Ashore /\ PassageFree /\ Go(k, Passage)
CastOff(k)   == place[k] \in Cabins /\ PassageFree /\ Go(k, Passage)
Board(k, c)  == place[k] = Passage /\ Go(k, c)
Disembark(k) == place[k] \in Cabins /\ PassageFree /\ Go(k, Gone)

Next ==
  \E k \in Crew :
    \/ Embark(k)
    \/ CastOff(k)
    \/ \E c \in Cabins : Board(k, c)
    \/ Disembark(k)

Spec == Init /\ [][Next]_vars
=============================================================================
