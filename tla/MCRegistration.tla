--------------------------- MODULE MCRegistration ---------------------------
(***************************************************************************)
(* Instances of Registration for TLC: the two cabins server_main starts,   *)
(* a third, and two crewmates.                                             *)
(***************************************************************************)
EXTENDS Registration

CONSTANTS c1, c2, c3, k1, k2, Default, Lobby2, Lobby3

OwnTitles == [c \in Cabins |-> CASE c = c1 -> Default [] c = c2 -> Lobby2 [] OTHER -> Lobby3]
=============================================================================
