----------------------------- MODULE MCShipDeck -----------------------------
(***************************************************************************)
(* Instances of ShipDeck for TLC.  A client's username is given by one of  *)
(* the functions below: everybody has a name of their own, or the first    *)
(* two clients share one.                                                  *)
(***************************************************************************)
EXTENDS ShipDeck

CONSTANTS k1, k2, k3, anne, bart, cora, lobby, brig, t1, t2

OwnNames    == [k \in Clients |-> CASE k = k1 -> anne [] k = k2 -> bart [] OTHER -> cora]
SharedNames == [k \in Clients |-> CASE k \in {k1, k2} -> anne [] OTHER -> bart]
=============================================================================
