---------------------------- MODULE ServerProxy ----------------------------
(***************************************************************************)
(* The Server (src/server/Server.cpp) between the crewmates, other ships   *)
(* and the ship deck, frame by frame.  zmq::send_multipart gives a socket  *)
(* one frame at a time (src/include/zmq_addon.hpp), and two of the sockets *)
(* are written by two threads:                                             *)
(*   - server_router, by the deck's two listeners;                         *)
(*   - shipdeck_dealer, by the Server's client_listener and ship_listener. *)
(* The ship_listener also has one vector for what it reads from both its   *)
(* sockets in a round of its poll.                                         *)
(*                                                                         *)
(* The frames of a message after its routing id are one frame, its body.   *)
(* No queue is ever full here; ShipDeck is about those that are.           *)
(***************************************************************************)
EXTENDS Naturals, Sequences

LOCAL INSTANCE SequencesExt

CONSTANTS
  Clients,   \* routing ids that client_router knows
  Ships,     \* routing ids that ship_router knows
  Bodies     \* what is sent, by whomever, each body once (a bound)

ASSUME ProxyAssumption ==
  /\ Clients \cap (Ships \cup Bodies \cup {"S", "SHIP", ""}) = {}
  /\ Bodies \cap (Ships \cup {"S", "SHIP", ""}) = {}
  /\ Ships \cap {"S", ""} = {}

DeckThreads == {"server_listener", "services_listener"}
Threads     == DeckThreads \cup {"client_listener", "ship_listener"}
SocketOf(t) == IF t \in DeckThreads THEN "server_router" ELSE "shipdeck_dealer"

\* "S" is the routing id of the Server at server_router.
Frames == Clients \cup Ships \cup Bodies \cup {"S", "SHIP", ""}

VARIABLES
  unsaid,      \* the bodies nobody has sent yet
  fromClient,  \* dealer of each client -> client_router
  fromShips,   \* the other ships -> ship_router
  sending,     \* the frames each thread has yet to give its socket
  begun,       \* threads that have sent a part of their message
  partial,     \* the frames of the message a socket is in the middle of
  mixed,       \* history: sockets where a message began within another
  toDeck,      \* shipdeck_dealer -> server_router
  toServer,    \* server_router -> shipdeck_dealer
  round,       \* ship_listener: reqs, and whether the deck was ready too
  heard,       \* history: what the deck got, from each client
  inbox,       \* history: what each client got
  crashed      \* whether the process has died

outside == <<unsaid, fromClient, fromShips>>
wires   == <<begun, partial, mixed>>
traffic == <<outside, sending, wires, toDeck, toServer, round, heard, inbox>>
vars == <<traffic, crashed>>

NoRound == [reqs |-> << >>, reply |-> FALSE]

Idle(t) == sending[t] = << >>
-----------------------------------------------------------------------------
(* Crewmates and ships                                                     *)

Type(k, b) ==
  /\ b \in unsaid
  /\ unsaid' = unsaid \ {b}
  /\ fromClient' = [fromClient EXCEPT ![k] = Append(@, b)]
  /\ UNCHANGED <<fromShips, sending, wires, toDeck, toServer, round, heard, inbox>>

ShipSends(p, b) ==
  /\ b \in unsaid
  /\ unsaid' = unsaid \ {b}
  /\ fromShips' = Append(fromShips, <<p, b>>)
  /\ UNCHANGED <<fromClient, sending, wires, toDeck, toServer, round, heard, inbox>>
-----------------------------------------------------------------------------
(* Sending: the loop of zmq::send_multipart                                *)

\* A whole message m is given to socket s.  A ROUTER takes the first frame for
\* the peer's routing id, and drops the message if it knows no such peer.
Arrive(s, m) ==
  \/ s = "shipdeck_dealer" /\ toDeck' = Append(toDeck, m) /\ UNCHANGED toServer
  \/ /\ s = "server_router" /\ Head(m) = "S"
     /\ toServer' = Append(toServer, Tail(m))
     /\ UNCHANGED toDeck
  \/ s = "server_router" /\ Head(m) # "S" /\ UNCHANGED <<toDeck, toServer>>

\* Faulty variant: every frame is sent as the last of its message.
WriteFrame_NoMore(t) ==
  LET s == SocketOf(t)
  IN /\ sending[t] # << >>
     /\ sending' = [sending EXCEPT ![t] = Tail(@)]
     /\ Arrive(s, <<Head(sending[t])>>)
     /\ UNCHANGED <<outside, wires, round, heard, inbox>>

\* Thread t sends its next frame, with the flag for more unless it is the last.
WriteFrame(t) ==
  LET s    == SocketOf(t)
      m    == Append(partial[s], Head(sending[t]))
      more == Len(sending[t]) > 1
  IN /\ sending[t] # << >>
     /\ sending' = [sending EXCEPT ![t] = Tail(@)]
     /\ mixed' = IF t \notin begun /\ partial[s] # << >> THEN mixed \cup {s} ELSE mixed
     /\ \/ /\ more
           /\ begun' = begun \cup {t}
           /\ partial' = [partial EXCEPT ![s] = m]
           /\ UNCHANGED <<toDeck, toServer>>
        \/ /\ ~more
           /\ begun' = begun \ {t}
           /\ partial' = [partial EXCEPT ![s] = << >>]
           /\ Arrive(s, m)
     /\ UNCHANGED <<outside, round, heard, inbox>>
-----------------------------------------------------------------------------
(* The deck                                                                *)

\* A message of three parts for client k.
Header(k, b) == <<"S", k, b>>

\* Faulty variant: the deck takes the id of a client for what it says.
DeckTakes_OffByOne ==
  /\ Idle("server_listener")
  /\ toDeck # << >>
  /\ toDeck' = Tail(toDeck)
  /\ Len(Head(toDeck)) = 2 /\ Head(toDeck)[1] \in Clients
  /\ heard' = [heard EXCEPT ![Head(toDeck)[1]] = Append(@, Head(toDeck)[1])]
  /\ UNCHANGED <<sending, unsaid, fromClient, fromShips, wires, toServer, round, inbox>>

\* server_listener takes a message.  One of a crewmate is handled, with or
\* without a reply to a crewmate; what other ships send has no handler yet.
DeckTakes ==
  /\ Idle("server_listener")
  /\ toDeck # << >>
  /\ toDeck' = Tail(toDeck)
  /\ LET m == Head(toDeck) IN
       \/ /\ Len(m) = 2 /\ m[1] \in Clients
          /\ heard' = [heard EXCEPT ![m[1]] = Append(@, m[2])]
          /\ \/ UNCHANGED <<sending, unsaid>>
             \/ \E b \in unsaid :
                  /\ sending' = [sending EXCEPT !["server_listener"] = Header(m[1], b)]
                  /\ unsaid' = unsaid \ {b}
       \/ /\ ~(Len(m) = 2 /\ m[1] \in Clients)
          /\ UNCHANGED <<heard, sending, unsaid>>
  /\ UNCHANGED <<fromClient, fromShips, wires, toServer, round, inbox>>

\* The type of a message is read from behind its two routing ids (reqs[2]),
\* which nobody has counted.  What is left of a mixed message may have no
\* third frame: then the deck dies, or takes what it finds there for a type
\* that it does not know.
DeckCrashes ==
  /\ Idle("server_listener")
  /\ toDeck # << >> /\ Len(Head(toDeck)) < 2
  /\ crashed' = TRUE
  /\ UNCHANGED traffic

\* services_listener has a SEND of a cabin for client k.  Nothing in the
\* repository connects to its other socket, ships_pair.
Post(k, b) ==
  /\ Idle("services_listener")
  /\ b \in unsaid
  /\ unsaid' = unsaid \ {b}
  /\ sending' = [sending EXCEPT !["services_listener"] = Header(k, b)]
  /\ UNCHANGED <<fromClient, fromShips, wires, toDeck, toServer, round, heard, inbox>>
-----------------------------------------------------------------------------
(* The Server                                                              *)

\* Faulty variant: the message before it may not have been sent yet.
TakeInput_Hasty(k) ==
  /\ fromClient[k] # << >>
  /\ sending' = [sending EXCEPT !["client_listener"] = <<k, Head(fromClient[k])>>]
  /\ fromClient' = [fromClient EXCEPT ![k] = Tail(@)]
  /\ UNCHANGED <<unsaid, fromShips, wires, toDeck, toServer, round, heard, inbox>>

\* client_listener_task: a message of client k goes to the deck as it is.
TakeInput(k) ==
  /\ Idle("client_listener")
  /\ fromClient[k] # << >>
  /\ sending' = [sending EXCEPT !["client_listener"] = <<k, Head(fromClient[k])>>]
  /\ fromClient' = [fromClient EXCEPT ![k] = Tail(@)]
  /\ UNCHANGED <<unsaid, fromShips, wires, toDeck, toServer, round, heard, inbox>>

\* ship_listener_task, a round of the poll: the message of a ship is read into
\* reqs.  One whose routing id is SHIP is passed on, which empties its frames.
PollRound ==
  /\ Idle("ship_listener") /\ round = NoRound
  /\ \/ /\ fromShips = << >> /\ toServer # << >>
        /\ round' = [reqs |-> << >>, reply |-> TRUE]
        /\ UNCHANGED <<sending, fromShips>>
     \/ /\ fromShips # << >>
        /\ fromShips' = Tail(fromShips)
        /\ LET m    == Head(fromShips)
               both == toServer # << >>
           IN \/ /\ m[1] = "SHIP"
                 /\ sending' = [sending EXCEPT !["ship_listener"] = m]
                 /\ round' = IF both THEN [reqs |-> <<"", "">>, reply |-> TRUE] ELSE NoRound
              \/ /\ m[1] # "SHIP"
                 /\ UNCHANGED sending
                 /\ round' = IF both THEN [reqs |-> m, reply |-> TRUE] ELSE NoRound
  /\ UNCHANGED <<unsaid, fromClient, wires, toDeck, toServer, heard, inbox>>

\* Faulty variant: what a ship has sent is read behind the reply.
ForwardReply_Behind ==
  /\ Idle("ship_listener") /\ round.reply
  /\ toServer' = Tail(toServer)
  /\ LET m == Head(toServer) IN
       inbox' = IF Head(m) \in Clients
                THEN [inbox EXCEPT ![Head(m)] = Append(@, Tail(m) \o round.reqs)]
                ELSE inbox
  /\ round' = NoRound
  /\ UNCHANGED <<outside, sending, wires, toDeck, heard>>

\* ... and the message of the deck is read into reqs behind it.  What is in
\* reqs goes to client_router: to the client whose id its first frame is, or
\* nowhere.  No other thread sends there.
ForwardReply ==
  /\ Idle("ship_listener") /\ round.reply
  /\ toServer' = Tail(toServer)
  /\ LET m == round.reqs \o Head(toServer) IN
       inbox' = IF m # << >> /\ Head(m) \in Clients
                THEN [inbox EXCEPT ![Head(m)] = Append(@, Tail(m))]
                ELSE inbox
  /\ round' = NoRound
  /\ UNCHANGED <<outside, sending, wires, toDeck, heard>>
-----------------------------------------------------------------------------
Init ==
  /\ unsaid = Bodies
  /\ fromClient = [k \in Clients |-> << >>]
  /\ fromShips = << >>
  /\ sending = [t \in Threads |-> << >>]
  /\ begun = {} /\ mixed = {}
  /\ partial = [s \in {"server_router", "shipdeck_dealer"} |-> << >>]
  /\ toDeck = << >> /\ toServer = << >>
  /\ round = NoRound
  /\ heard = [k \in Clients |-> << >>]
  /\ inbox = [k \in Clients |-> << >>]
  /\ crashed = FALSE

\* A step of the deck, of the Server or of whoever talks to them.
Step ==
  \/ \E k \in Clients, b \in Bodies : Type(k, b) \/ Post(k, b)
  \/ \E p \in Ships, b \in Bodies : ShipSends(p, b)
  \/ \E t \in Threads : WriteFrame(t)
  \/ DeckTakes
  \/ \E k \in Clients : TakeInput(k)
  \/ PollRound
  \/ ForwardReply

\* The deck and the Server are one process.
Lives(A) == ~crashed /\ A /\ UNCHANGED crashed

Next == Lives(Step) \/ (~crashed /\ DeckCrashes)

Spec == Init /\ [][Next]_vars

\* The threads run, and client_router reads fairly from its peers.  Nobody is
\* obliged to send.
Fairness ==
  /\ \A t \in Threads : WF_vars(Lives(WriteFrame(t)))
  /\ WF_vars(Lives(DeckTakes)) /\ WF_vars(Lives(PollRound))
  /\ WF_vars(Lives(ForwardReply))
  /\ \A k \in Clients : SF_vars(Lives(TakeInput(k)))

FairSpec == Spec /\ Fairness
-----------------------------------------------------------------------------
(* Properties                                                              *)

TrafficOK ==
  /\ unsaid \subseteq Bodies
  /\ fromClient \in [Clients -> Seq(Bodies)]
  /\ fromShips \in Seq(Ships \X Bodies)
  /\ sending \in [Threads -> Seq(Frames)]
  /\ begun \subseteq Threads
  /\ partial \in [{"server_router", "shipdeck_dealer"} -> Seq(Frames)]
  /\ mixed \subseteq {"server_router", "shipdeck_dealer"}
  /\ toDeck \in Seq(Seq(Frames))
  /\ toServer \in Seq(Seq(Frames))
  /\ round \in [reqs : Seq(Frames), reply : BOOLEAN]
  /\ heard \in [Clients -> Seq(Bodies)]
  /\ inbox \in [Clients -> Seq(Seq(Frames))]

TypeOK == TrafficOK /\ crashed \in BOOLEAN

\* reqs[2] is there (Shipdeck.cpp:77), and the deck does not die of it, as long
\* as the Server's two threads have not mixed up shipdeck_dealer: no message of
\* a client or of a ship, nor what the ship listener makes of it, is too short.
CrashNeedsMixing == crashed => "shipdeck_dealer" \in mixed

\* The messages for, or of, client k in a queue, without its routing id.
Of(k, queue) ==
  LET of[i \in 0 .. Len(queue)] ==
        IF i = 0 THEN << >>
        ELSE IF queue[i] # << >> /\ Head(queue[i]) = k
             THEN Append(of[i - 1], Tail(queue[i]))
             ELSE of[i - 1]
  IN of[Len(queue)]

\* The message client_listener is sending, as long as the deck cannot see it.
Passing == LET m == sending["client_listener"] IN
             CASE Len(m) = 2 -> <<m>>
               [] Len(m) = 1 -> <<Append(partial["shipdeck_dealer"], m[1])>>
               [] OTHER      -> << >>

Up == INSTANCE Link WITH
        Peers <- Clients, Messages <- {<<b>> : b \in Bodies},
        inFlight <- [k \in Clients |-> Of(k, toDeck \o Passing)
                                         \o [i \in DOMAIN fromClient[k] |-> <<fromClient[k][i]>>]],
        got <- [k \in Clients |-> [i \in DOMAIN heard[k] |-> <<heard[k][i]>>]],
        excused <- FALSE,
        broken <- "shipdeck_dealer" \in mixed

Down == INSTANCE Link WITH
          Peers <- Clients, Messages <- {<<b>> : b \in Bodies},
          inFlight <- [k \in Clients |-> Of(k, toServer)],
          got <- inbox,
          excused <- round.reqs # << >>,
          broken <- "server_router" \in mixed

\* What crewmates send comes to the deck once, whole and in the order of each
\* (client_listener_task), unless two threads have mixed up shipdeck_dealer.
UpKeepsOrder == Up!Spec

\* What the deck sends comes to the client it is for, once and in order
\* (ship_listener_task); what was read behind a message of another ship is
\* lost, and nothing else is, unless two threads have mixed up server_router.
DownKeepsOrder == Down!Spec

\* Whatever a crewmate has sent comes to the deck, however busy the others are.
InputReachesDeck ==
  \A k \in Clients, b \in Bodies :
    Contains(fromClient[k], b) ~> Contains(heard[k], b) \/ "shipdeck_dealer" \in mixed

\* "zmq ensures atomic delivery of messages" (zmq_addon.hpp:213): a client gets
\* whole messages of the deck, and nothing else.
MessagesArriveWhole ==
  \A k \in Clients : \A i \in DOMAIN inbox[k] : Len(inbox[k][i]) = 1
=============================================================================
