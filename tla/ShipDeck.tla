------------------------------ MODULE ShipDeck ------------------------------
(***************************************************************************)
(* The ship deck (src/server/Shipdeck.cpp) after start-up, with the lobby  *)
(* cabins it routes for (src/server/LobbyCabin.cpp) and the crewmates that *)
(* talk to it.                                                             *)
(*                                                                         *)
(* Two threads of the deck share its maps without a lock:                  *)
(*   - server_listener_worker serves the crew: LOGIN, TEXT and commands;   *)
(*   - services_listener_worker serves the cabins: SEND.                   *)
(* A handler is one action, cut only where the other thread, or a cabin,   *)
(* can see what it has done so far: change_player_cabins publishes its     *)
(* effects in three places (the old cabin, the new cabin, the crewmate's   *)
(* own entry), and SEND checks the recipient's cabin before it sends.      *)
(*                                                                         *)
(* Every cabin is registered before the first state, as server_main        *)
(* intends; the module Registration is about how they get there.           *)
(***************************************************************************)
EXTENDS Naturals, Sequences, FiniteSets

LOCAL INSTANCE SequencesExt

CONSTANTS
  Clients,       \* client_id: the routing ids the Server gives connections
  Names,         \* usernames
  NoName,        \* "" as a username
  NameOf,        \* the username each client was started with
  Cabins,        \* cabin_id: the keys of cabin_id_to_info
  DefaultCabin,  \* cabin_name_to_id[default_cabin]
  NoCabin,       \* "" as a cabin_id
  NoClient,      \* "" as a client_id
  Texts,         \* the texts that will be typed, each of them once
  MaxCommands,   \* how many commands are typed (a bound of the model)
  MaxUint,       \* the largest uint32_t
  Hwm,           \* messages a ROUTER queues for a peer before it drops
  TornReads      \* whether a lookup that races with an insertion may miss

ASSUME ConstantsAssumption ==
  /\ IsFiniteSet(Clients) /\ NoClient \notin Clients
  /\ IsFiniteSet(Names) /\ NoName \notin Names
  /\ NameOf \in [Clients -> Names]
  /\ DefaultCabin \in Cabins /\ NoCabin \notin Cabins
  /\ Cabins \cap {"ashore", "passage", "gone"} = {}
  /\ MaxCommands \in Nat
  /\ MaxUint \in Nat /\ Cardinality(Clients) <= MaxUint
  /\ Hwm \in Nat \ {0}
  /\ TornReads \in BOOLEAN

VARIABLES
  client_map,       \* the keys of client_map: clients that logged in
  torn,             \* the clients whose entry there is an empty one
  curr_cabin,       \* client_info::curr_cabin
  c_online,         \* the clients whose client_info::c_online is true
  crew_name_to_id,  \* the last client that logged in with a username
  curr_playing,     \* cabin_info::curr_playing
  listener,         \* server_listener_thread: the move it is making
  services,         \* services_listener_thread: the SEND it is serving
  users,            \* LobbyCabin::users of each cabin
  toCabin,          \* cabins_router -> shipdeck_dealer of each cabin
  toDeck,           \* shipdeck_dealer of each cabin -> cabins_router
  toCrew,           \* server_router -> Server -> dealer of each client
  session,          \* each client process: out, waiting, in, left
  unsent,           \* the texts nobody has typed yet
  commands,         \* commands typed so far
  dropped           \* history: cabins and clients a ROUTER dropped from

deckVars == <<client_map, torn, curr_cabin, c_online, crew_name_to_id,
              curr_playing>>
vars == <<deckVars, listener, services, users, toCabin, toDeck, toCrew,
          session, unsent, commands, dropped>>
-----------------------------------------------------------------------------
(* Messages.  Frames that only address a message are the queue it is in.   *)

Join(u)       == [type |-> "JOIN", user |-> u]
Disconnect(u) == [type |-> "DISCONNECT", user |-> u]
RoomText(u, t) == [type |-> "TEXT", user |-> u, text |-> t]
Usernames     == Names \cup {NoName}
CabinMessage  == [type : {"JOIN", "DISCONNECT"}, user : Usernames]
                   \cup [type : {"TEXT"}, user : Usernames, text : Texts]

Send(to, from, t) == [to |-> to, from |-> from, text |-> t]
DeckMessage       == [to : Usernames, from : Usernames, text : Texts]

Ack  == [type |-> "ACK"]
Info == [type |-> "INFO"]
CrewText(from, t) == [type |-> "TEXT", from |-> from, text |-> t]
CrewMessage == [type : {"ACK", "INFO"}]
                 \cup [type : {"TEXT"}, from : Usernames, text : Texts]

Idle == [pc |-> "idle"]
Moving(pc, k, c) == [pc |-> pc, crew |-> k, target |-> c]
Serving(k, c, m) == [pc |-> "forward", crew |-> k, cabin |-> c,
                     from |-> m.from, text |-> m.text]
-----------------------------------------------------------------------------
(* A ROUTER drops a message for a peer it does not know (such as "") and   *)
(* for a peer whose queue is full; a sender is told nothing.               *)

\* cabins_router has a queue for each cabin.
Route(chan, peer, m) ==
  IF peer \in DOMAIN chan /\ Len(chan[peer]) < Hwm
  THEN [chan EXCEPT ![peer] = Append(@, m)]
  ELSE chan

Overflow(chan, peer) == {p \in {peer} \cap DOMAIN chan : Len(chan[p]) >= Hwm}

SendToCabin(c, m) ==
  /\ toCabin' = Route(toCabin, c, m)
  /\ dropped' = dropped \cup Overflow(toCabin, c)

\* server_router has one queue, to the Server, for the messages to all clients.
\* How many of them the Server has passed on is left open: the queue may be full
\* as soon as Hwm messages are on their way to whatever clients.
Underway == UNION {{k} \X DOMAIN toCrew[k] : k \in Clients}

SendToCrew(k, m) ==
  \/ /\ Len(toCrew[k]) < Hwm
     /\ toCrew' = [toCrew EXCEPT ![k] = Append(@, m)]
     /\ UNCHANGED dropped
  \/ /\ Cardinality(Underway) >= Hwm
     /\ dropped' = dropped \cup {k}
     /\ UNCHANGED toCrew

\* client_info::c_username; an empty entry has none.
Username(k) == IF k \in torn THEN NoName ELSE NameOf[k]

\* uint32_t arithmetic.
Increment(n) == IF n = MaxUint THEN 0 ELSE n + 1
Decrement(n) == IF n = 0 THEN MaxUint ELSE n - 1
-----------------------------------------------------------------------------
(* server_listener_thread                                                  *)

\* The listener takes a message of client k, which has seen its ACK.
TakesInput(k) == listener = Idle /\ session[k] = "in" /\ k \in client_map

TypesCommand(k) ==
  /\ TakesInput(k)
  /\ commands < MaxCommands
  /\ commands' = commands + 1

\* handle_crewmate_input, LOGIN: client k gets an entry, with a cabin, and its
\* name is given to an owner; the listener goes on to move it to a target.
LoginAs(k, cabin, owner, target) ==
  /\ listener = Idle /\ session[k] = "out" /\ k \notin client_map
  /\ client_map' = client_map \cup {k}
  /\ c_online' = c_online \cup {k}
  /\ curr_cabin' = [curr_cabin EXCEPT ![k] = cabin]
  /\ crew_name_to_id' = [crew_name_to_id EXCEPT ![NameOf[k]] = owner]
  /\ listener' = Moving("ack", k, target)
  /\ session' = [session EXCEPT ![k] = "waiting"]
  /\ UNCHANGED <<torn, curr_playing, services, users, toCabin, toDeck, toCrew,
                 unsent, commands, dropped>>

\* Faulty variants, for the runs to find: a name that is not recorded, a cabin
\* entered before the ACK.
Login_Unnamed(k)   == LoginAs(k, NoCabin, NoClient, DefaultCabin)
Login_InCabin(k)   == LoginAs(k, DefaultCabin, k, DefaultCabin)

Login(k) == LoginAs(k, NoCabin, k, DefaultCabin)

\* The ACK of a LOGIN; change_player_cabins then has no cabin to leave.
AckLogin ==
  /\ listener.pc = "ack"
  /\ SendToCrew(listener.crew, Ack)
  /\ listener' = Moving("board", listener.crew, listener.target)
  /\ UNCHANGED <<deckVars, services, users, toCabin, toDeck, session, unsent,
                 commands>>

\* Faulty variants: the old cabin is not counted down, or not told.
LeaveCabin_Uncounted(k) ==
  /\ UNCHANGED curr_playing
  /\ SendToCabin(curr_cabin[k], Disconnect(Username(k)))

LeaveCabin_Silent(k) ==
  /\ curr_playing' = [curr_playing EXCEPT ![curr_cabin[k]] = Decrement(@)]
  /\ UNCHANGED <<toCabin, dropped>>

\* change_player_cabins, first half: client k leaves its cabin.
LeaveCabin(k) ==
  /\ curr_playing' = [c \in Cabins |-> IF c = curr_cabin[k]
                                       THEN Decrement(curr_playing[c])
                                       ELSE curr_playing[c]]
  /\ SendToCabin(curr_cabin[k], Disconnect(Username(k)))

\* change_player_cabins, first half, for client k and cabin c or "".
StartMove(k, c) ==
  /\ LeaveCabin(k)
  /\ listener' = Moving("board", k, c)

\* /leave (to the default cabin) and /join: client k is moved to cabin c.
\* A /join of a name no cabin has returns without a change.
ChangeCabin(k, c) ==
  /\ TypesCommand(k)
  /\ c # curr_cabin[k]
  /\ StartMove(k, c)
  /\ UNCHANGED <<client_map, torn, curr_cabin, c_online, crew_name_to_id,
                 services, users, toDeck, toCrew, session, unsent>>

\* Faulty variant: set_offline is forgotten.
Quit_StaysOnline(k) ==
  /\ TakesInput(k)
  /\ StartMove(k, NoCabin)
  /\ session' = [session EXCEPT ![k] = "left"]
  /\ UNCHANGED <<client_map, torn, curr_cabin, c_online, crew_name_to_id,
                 services, users, toDeck, toCrew, unsent, commands>>

\* /quit: client k goes offline and leaves its cabin for none.  Its entry
\* stays in client_map and keeps the cabin it was in.
Quit(k) ==
  /\ TakesInput(k)
  /\ c_online' = c_online \ {k}
  /\ StartMove(k, NoCabin)
  /\ session' = [session EXCEPT ![k] = "left"]
  /\ UNCHANGED <<client_map, torn, curr_cabin, crew_name_to_id, services, users,
                 toDeck, toCrew, unsent, commands>>

\* Faulty variant: the client is not asked for, nor the cabin.
MayBoard_Anyone == listener.pc = "board"

\* change_player_cabins, second half: whoever is online is let into a cabin
\* that there is, ...
MayBoard ==
  /\ listener.pc = "board"
  /\ listener.crew \in c_online
  /\ listener.target \in Cabins

\* ... the new cabin is told, ...
BoardCabin ==
  /\ MayBoard
  /\ curr_playing' = [curr_playing EXCEPT ![listener.target] = Increment(@)]
  /\ SendToCabin(listener.target, Join(Username(listener.crew)))
  /\ listener' = Moving("settle", listener.crew, listener.target)
  /\ UNCHANGED <<client_map, torn, curr_cabin, c_online, crew_name_to_id,
                 services, users, toDeck, toCrew, session, unsent, commands>>

\* ... and then the client's own entry.
SettleIn ==
  /\ listener.pc = "settle"
  /\ curr_cabin' = [curr_cabin EXCEPT ![listener.crew] = listener.target]
  /\ listener' = Idle
  /\ UNCHANGED <<client_map, torn, c_online, crew_name_to_id, curr_playing,
                 services, users, toCabin, toDeck, toCrew, session, unsent,
                 commands, dropped>>

\* Anybody else, who has said /quit, is in no cabin.
StayOut ==
  /\ listener.pc = "board" /\ ~MayBoard
  /\ listener' = Idle
  /\ UNCHANGED <<deckVars, services, users, toCabin, toDeck, toCrew, session,
                 unsent, commands, dropped>>

\* /ping is answered with an ACK, /show and /showall with an INFO.
Answer(k, m) ==
  /\ TypesCommand(k)
  /\ SendToCrew(k, m)
  /\ UNCHANGED <<deckVars, listener, services, users, toCabin, toDeck, session,
                 unsent>>

\* handle_crewmate_input_text: the text goes to the cabin of its sender.
Text(k, t) ==
  /\ TakesInput(k)
  /\ t \in unsent
  /\ unsent' = unsent \ {t}
  /\ SendToCabin(curr_cabin[k], RoomText(Username(k), t))
  /\ UNCHANGED <<deckVars, listener, services, users, toDeck, toCrew, session,
                 commands>>
-----------------------------------------------------------------------------
(* services_listener_thread, handle_services_cabins_input                  *)

\* SEND of cabin c: it is served only if its recipient is in c.  The lookups
\* are operator[]: a recipient without an entry is given one.  An empty entry
\* knows no server, so that nothing reaches its client.
TakeSend(c) ==
  /\ services = Idle
  /\ toDeck[c] # << >>
  /\ LET m == Head(toDeck[c])
         k == crew_name_to_id[m.to]
         served == k \in Clients \ torn /\ curr_cabin[k] = c
     IN /\ client_map' = client_map \cup {k}
        /\ \/ served /\ services' = Serving(k, c, m)
           \/ ~served /\ services' = Idle
  /\ toDeck' = [toDeck EXCEPT ![c] = Tail(@)]
  /\ UNCHANGED <<torn, curr_cabin, c_online, crew_name_to_id, curr_playing,
                 listener, users, toCabin, toCrew, session, unsent, commands,
                 dropped>>

\* A SEND whose lookups race with a write of the listener, and which is dropped
\* because one of them misses what is there.
TornSend(c) ==
  /\ TornReads
  /\ services = Idle
  /\ toDeck[c] # << >>
  /\ toDeck' = [toDeck EXCEPT ![c] = Tail(@)]
  /\ UNCHANGED <<curr_playing, listener, services, users, toCabin, toCrew,
                 session, unsent, commands, dropped>>

\* LOGIN inserts into crew_name_to_id, and the name is missed: it is inserted
\* again, with no client, before or behind its own entry; so is client "".
MissName(c) ==
  /\ TornSend(c)
  /\ listener.pc = "ack"
  /\ LET u == Head(toDeck[c]).to
     IN crew_name_to_id' \in {crew_name_to_id,
                              [crew_name_to_id EXCEPT ![u] = NoClient]}
  /\ client_map' = client_map \cup {NoClient}
  /\ UNCHANGED <<torn, curr_cabin, c_online>>

\* LOGIN inserts into client_map, and the client is missed: an empty entry,
\* online and in no cabin, comes before its own.  (Behind it nobody sees one.)
MissClient(c) ==
  /\ TornSend(c)
  /\ listener.pc = "ack"
  /\ LET k == crew_name_to_id[Head(toDeck[c]).to]
     IN /\ k \in Clients
        /\ torn' = torn \cup {k}
        /\ curr_cabin' = [curr_cabin EXCEPT ![k] = NoCabin]
        /\ c_online' = c_online \cup {k}
  /\ UNCHANGED <<client_map, crew_name_to_id>>

\* set_cabin_id writes the string that the SEND compares.
MissCabin(c) ==
  /\ TornSend(c)
  /\ listener.pc = "settle"
  /\ listener.crew = crew_name_to_id[Head(toDeck[c]).to]
  /\ UNCHANGED <<client_map, torn, curr_cabin, c_online, crew_name_to_id>>

Forward ==
  /\ services.pc = "forward"
  /\ SendToCrew(services.crew, CrewText(services.from, services.text))
  /\ services' = Idle
  /\ UNCHANGED <<deckVars, listener, users, toCabin, toDeck, session, unsent,
                 commands>>
-----------------------------------------------------------------------------
(* LobbyCabin::handle_shipdeck_input, and the connection of a client       *)

\* Faulty variant: every SEND is addressed to the author of the text.
Broadcast_ToAuthor(m, order) ==
  [i \in DOMAIN order |-> Send(m.user, m.user, m.text)]

\* A SEND of text m for every user, in the order of the unordered_set.
Broadcast(m, order) ==
  [i \in DOMAIN order |-> Send(order[i], m.user, m.text)]

CabinInput(c) ==
  /\ toCabin[c] # << >>
  /\ LET m == Head(toCabin[c])
     IN \/ /\ m.type = "JOIN"
           /\ users' = [users EXCEPT ![c] = @ \cup {m.user}]
           /\ UNCHANGED toDeck
        \/ /\ m.type = "DISCONNECT"
           /\ users' = [users EXCEPT ![c] = @ \ {m.user}]
           /\ UNCHANGED toDeck
        \/ /\ m.type = "TEXT"
           /\ \E order \in SetToSeqs(users[c]) :
                toDeck' = [toDeck EXCEPT ![c] = @ \o Broadcast(m, order)]
           /\ UNCHANGED users
  /\ toCabin' = [toCabin EXCEPT ![c] = Tail(@)]
  /\ UNCHANGED <<deckVars, listener, services, toCrew, session, unsent,
                 commands, dropped>>

\* A client shows what it gets; the first message ends its constructor.
Receive(k) ==
  /\ session[k] \in {"waiting", "in"}
  /\ toCrew[k] # << >>
  /\ toCrew' = [toCrew EXCEPT ![k] = Tail(@)]
  /\ session' = [session EXCEPT ![k] = "in"]
  /\ UNCHANGED <<deckVars, listener, services, users, toCabin, toDeck, unsent,
                 commands, dropped>>
-----------------------------------------------------------------------------
Init ==
  /\ client_map = {} /\ torn = {} /\ c_online = {}
  /\ curr_cabin = [k \in Clients |-> NoCabin]
  /\ crew_name_to_id = [u \in Usernames |-> NoClient]
  /\ curr_playing = [c \in Cabins |-> 0]
  /\ listener = Idle /\ services = Idle
  /\ users = [c \in Cabins |-> {}]
  /\ toCabin = [c \in Cabins |-> << >>]
  /\ toDeck = [c \in Cabins |-> << >>]
  /\ toCrew = [k \in Clients |-> << >>]
  /\ session = [k \in Clients |-> "out"]
  /\ unsent = Texts /\ commands = 0
  /\ dropped = {}

ListenerMove == AckLogin \/ BoardCabin \/ SettleIn \/ StayOut

CrewInput(k) ==
  \/ Login(k)
  \/ \E c \in Cabins : ChangeCabin(k, c)
  \/ Quit(k)
  \/ Answer(k, Ack)
  \/ Answer(k, Info)
  \/ \E t \in Texts : Text(k, t)

Next ==
  \/ \E k \in Clients : CrewInput(k)
  \/ ListenerMove
  \/ \E c \in Cabins :
       TakeSend(c) \/ MissName(c) \/ MissClient(c) \/ MissCabin(c)
  \/ Forward
  \/ \E c \in Cabins : CabinInput(c)
  \/ \E k \in Clients : Receive(k)

Spec == Init /\ [][Next]_vars

\* Threads that have something to do are eventually scheduled, and a ROUTER
\* reads fairly from its peers.  Crewmates need never type anything.
Fairness ==
  /\ WF_vars(ListenerMove)
  /\ WF_vars(Forward)
  /\ \A c \in Cabins : SF_vars(TakeSend(c)) /\ WF_vars(CabinInput(c))
  /\ \A k \in Clients : WF_vars(Receive(k))

FairSpec == Spec /\ Fairness
-----------------------------------------------------------------------------
(* Properties                                                              *)

TypeOK ==
  /\ client_map \subseteq Clients \cup {NoClient}
  /\ torn \subseteq client_map \cap Clients /\ (TornReads \/ torn = {})
  /\ curr_cabin \in [Clients -> Cabins \cup {NoCabin}]
  /\ c_online \subseteq client_map \cap Clients
  /\ crew_name_to_id \in [Usernames -> client_map \cup {NoClient}]
  /\ curr_playing \in [Cabins -> 0 .. MaxUint]
  /\ listener \in {Idle}
       \cup [pc : {"ack", "board", "settle"}, crew : Clients, target : Cabins]
       \cup [pc : {"board"}, crew : Clients, target : {NoCabin}]
  /\ services \in {Idle} \cup [pc : {"forward"}, crew : Clients, cabin : Cabins,
                               from : Usernames, text : Texts]
  /\ users \in [Cabins -> SUBSET Usernames]
  /\ toCabin \in [Cabins -> Seq(CabinMessage)]
  /\ \A c \in Cabins : Len(toCabin[c]) <= Hwm
  /\ toDeck \in [Cabins -> Seq(DeckMessage)]
  /\ toCrew \in [Clients -> Seq(CrewMessage)]
  /\ \A k \in Clients : Len(toCrew[k]) <= Hwm
  /\ session \in [Clients -> {"out", "waiting", "in", "left"}]
  /\ unsent \subseteq Texts
  /\ commands \in 0 .. MaxCommands
  /\ dropped \subseteq Cabins \cup Clients

\* Where the deck has put client k, counting a half-made move by what the
\* cabins have been told of it.
Whereabouts(k) ==
  CASE k \notin client_map                     -> "ashore"
    [] k \in client_map \ c_online             -> "gone"
    [] k \in c_online /\ listener.pc \in {"ack", "board"} /\ listener.crew = k
                                              -> "passage"
    [] k \in c_online /\ listener.pc = "settle" /\ listener.crew = k
                                              -> listener.target
    [] OTHER                                  -> curr_cabin[k]

Place == [k \in Clients |-> Whereabouts(k)]

\* "Current playing" of a cabin (cabin_info::zmq_info) is the number of
\* crewmates in it, whatever moves and quits came before: it is never off by
\* one and never wraps around.
PlayingCountsCrew ==
  \A c \in Cabins :
    curr_playing[c] = Cardinality({k \in Clients : Whereabouts(k) = c})

\* Client k has not had a message yet, or the next one is its ACK.
AckFirst(k) ==
  session[k] \in {"out", "waiting"} /\ toCrew[k] # << >>
    => session[k] = "waiting" /\ Head(toCrew[k]) = Ack

\* The first message a client gets is the ACK its constructor waits for, even
\* when a text for a namesake is already on its way, and whatever entries torn
\* lookups have made; unless server_router has dropped one of its messages.
FirstReplyIsAck == \A k \in Clients \ dropped : AckFirst(k)

\* "SHIP", "ACK" is what the client asserts of its first message
\* (Client.cpp:60), dropped or not.
FirstReplyIsAlwaysAck == \A k \in Clients : AckFirst(k)

\* The operator[] lookups of SEND make no entry: every name in a message of a
\* cabin is that of a client that has one, also when the message has been under
\* way while crewmates quit, moved or logged in under the same name.
NoPhantomCrew == NoClient \notin client_map

\* What the properties above rest on.  Whoever talks to the deck is online, and
\* is in a cabin unless the listener is moving it; the listener moves to a cabin
\* whoever is online, ...
CrewAccounted ==
  /\ \A k \in Clients :
       /\ session[k] = "out" <=> k \notin client_map
       /\ session[k] \in {"waiting", "in"} => k \in c_online
       /\ k \in c_online \ torn => \/ curr_cabin[k] \in Cabins
                                   \/ listener.pc # "idle" /\ listener.crew = k
  /\ listener.pc # "idle" => listener.crew \in client_map
  /\ listener.pc \in {"ack", "settle"} => listener.crew \in c_online
  /\ listener.pc = "board" =>
       (listener.crew \in c_online <=> listener.target \in Cabins)

\* ... every name a cabin holds, or is about to read, is that of a client; ...
Known(u) == crew_name_to_id[u] \in client_map \ {NoClient}

NamesKnown ==
  /\ NoPhantomCrew
  /\ \A k \in client_map : Known(NameOf[k])
  /\ \A c \in Cabins :
       /\ \A u \in users[c] : Known(u)
       /\ \A i \in DOMAIN toCabin[c] : Known(toCabin[c][i].user)
       /\ \A i \in DOMAIN toDeck[c] : Known(toDeck[c][i].to)

\* ... and a client that waits has the ACK first, or has nothing and is
\* nowhere that a cabin's SEND could reach it.
OutOfReach(k) ==
  /\ toCrew[k] = << >>
  /\ curr_cabin[k] = NoCabin
  /\ services.pc = "forward" => services.crew # k

RepliesOrdered ==
  \A k \in Clients :
    /\ session[k] = "out" => OutOfReach(k)
    /\ session[k] = "waiting" =>
         \/ k \in dropped
         \/ listener.pc = "ack" /\ listener.crew = k /\ OutOfReach(k)
         \/ toCrew[k] # << >> /\ Head(toCrew[k]) = Ack

\* The messages on their way to cabin c that say where user u is.
Moves(c, u) ==
  {i \in DOMAIN toCabin[c] : /\ toCabin[c][i].type \in {"JOIN", "DISCONNECT"}
                             /\ toCabin[c][i].user = u}

\* Whether cabin c will have user u once it has read what is on its way.
WillHold(c, u) ==
  IF Moves(c, u) = {}
  THEN u \in users[c]
  ELSE \E i \in Moves(c, u) : /\ \A j \in Moves(c, u) : j <= i
                              /\ toCabin[c][i].type = "JOIN"

HasNamesake(k) == \E other \in Clients \ {k} : NameOf[other] = NameOf[k]

\* The users a lobby keeps follow the deck's map: as soon as a cabin has read
\* its messages it broadcasts to exactly the crewmates the deck has put in it,
\* unless the ROUTER has dropped one of them or two clients share a username.
LobbyFollowsDeck ==
  \A c \in Cabins \ dropped, k \in Clients :
    HasNamesake(k) \/ (WillHold(c, NameOf[k]) <=> Whereabouts(k) = c)

\* "cabins cannot send to user in other cabins!" (Shipdeck.cpp:188): the
\* recipient of the text being forwarded is in the cabin that sent it.
NoForeignText ==
  services.pc = "forward" => curr_cabin[services.crew] = services.cabin

\* Text t is the latest message to cabin c, and client k is in c.
Posted(t, c, k) ==
  /\ toCabin[c] # << >>
  /\ LET m == toCabin[c][Len(toCabin[c])] IN m.type = "TEXT" /\ m.text = t
  /\ Whereabouts(k) = c

Heard(t, k) == \E i \in DOMAIN toCrew[k] : /\ toCrew[k][i].type = "TEXT"
                                           /\ toCrew[k][i].text = t

\* "send text to all the users in the cabin" (Shipdeck.cpp:309): a text typed
\* in a cabin is forwarded to everyone who is in it and stays, unless a full
\* queue has dropped a message.
TextReachesCrew ==
  \A t \in Texts, c \in Cabins, k \in Clients :
    Posted(t, c, k) ~> \/ Heard(t, k)
                       \/ Whereabouts(k) # c
                       \/ dropped \cap {c, k} # {}

\* The deck keeps its muster roll as the module Muster promises.
Roll == INSTANCE Muster WITH
          Crew <- Clients, Ashore <- "ashore", Passage <- "passage",
          Gone <- "gone", playing <- curr_playing,
          place <- Place

\* Every step of the two threads is a step of the muster roll or none: with
\* client_map, curr_cabin, c_online and curr_playing written at different
\* moments, the deck still moves one crewmate at a time (change_player_cabins).
FollowsMuster == Roll!Spec
=============================================================================
