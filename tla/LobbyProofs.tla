----------------------------- MODULE LobbyProofs -----------------------------
(***************************************************************************)
(* The lobbies of ShipDeck follow the deck, for every crew, every cabins   *)
(* and queues of any length.                                               *)
(***************************************************************************)
EXTENDS ShipDeckProofs, SequenceTheorems

LOCAL INSTANCE SequencesExt

\* Moves and WillHold for a queue q and a set of users S.
MovesIn(q, u) ==
  {i \in DOMAIN q : q[i].type \in {"JOIN", "DISCONNECT"} /\ q[i].user = u}

Holds(q, S, u) ==
  IF MovesIn(q, u) = {}
  THEN u \in S
  ELSE \E i \in MovesIn(q, u) : /\ \A j \in MovesIn(q, u) : j <= i
                                /\ q[i].type = "JOIN"

LEMMA WillHoldIsHolds ==
  /\ \A c, u : WillHold(c, u) <=> Holds(toCabin[c], users[c], u)
  /\ \A c, u : WillHold(c, u)' <=> Holds(toCabin'[c], users'[c], u)
BY DEF WillHold, Moves, Holds, MovesIn

\* A message behind the others says where its user will be, and nothing of
\* anybody else.
LEMMA AppendHolds ==
  ASSUME NEW q \in Seq(CabinMessage), NEW m \in CabinMessage, NEW S, NEW u
  PROVE  /\ m.user # u \/ m.type = "TEXT"
              => (Holds(Append(q, m), S, u) <=> Holds(q, S, u))
         /\ m.user = u /\ m.type = "JOIN" => Holds(Append(q, m), S, u)
         /\ m.user = u /\ m.type = "DISCONNECT" => ~Holds(Append(q, m), S, u)
<1> DEFINE r == Append(q, m)
           n == Len(q) + 1
<1>1. /\ Len(q) \in Nat /\ DOMAIN q = 1 .. Len(q) /\ DOMAIN r = 1 .. n
      /\ n \notin DOMAIN q /\ r[n] = m /\ \A i \in DOMAIN q : r[i] = q[i]
  OBVIOUS
<1>2. \A i \in DOMAIN r : i \in DOMAIN q \/ i = n
  BY <1>1
<1>3. DOMAIN q \subseteq DOMAIN r /\ \A i \in DOMAIN r : i <= n
  BY <1>1
<1>4. ASSUME m.user # u \/ m.type = "TEXT"
      PROVE  Holds(r, S, u) <=> Holds(q, S, u)
  <2>1. MovesIn(r, u) = MovesIn(q, u)
    BY <1>1, <1>2, <1>3, <1>4 DEF MovesIn
  <2>2. \A i \in MovesIn(q, u) : r[i] = q[i]
    BY <1>1 DEF MovesIn
  <2> QED
    BY <2>1, <2>2 DEF Holds
<1>5. ASSUME m.user = u, m.type \in {"JOIN", "DISCONNECT"}
      PROVE  n \in MovesIn(r, u) /\ \A i \in MovesIn(r, u) : i <= n
  BY <1>1, <1>3, <1>5 DEF MovesIn
<1>6. ASSUME m.user = u, m.type = "JOIN" PROVE Holds(r, S, u)
  BY <1>1, <1>5, <1>6 DEF Holds
<1>7. ASSUME m.user = u, m.type = "DISCONNECT" PROVE ~Holds(r, S, u)
  <2>1. n \in MovesIn(r, u) /\ \A i \in MovesIn(r, u) : i <= n
    BY <1>5, <1>7
  <2>2. ASSUME NEW i \in MovesIn(r, u), \A j \in MovesIn(r, u) : j <= i
        PROVE  r[i].type # "JOIN"
    <3>1. i = n
      BY <1>1, <2>1, <2>2 DEF MovesIn
    <3> QED
      BY <1>1, <1>7, <3>1
  <2> QED
    BY <2>1, <2>2 DEF Holds
<1> QED
  BY <1>4, <1>6, <1>7

\* A cabin that reads a message knows what the message said.
LEMMA ReadHolds ==
  ASSUME NEW q \in Seq(CabinMessage), q # << >>, NEW S, NEW T, NEW u,
         Head(q).type = "JOIN" => T = S \cup {Head(q).user},
         Head(q).type = "DISCONNECT" => T = S \ {Head(q).user},
         Head(q).type = "TEXT" => T = S
  PROVE  Holds(Tail(q), T, u) <=> Holds(q, S, u)
<1> DEFINE r == Tail(q)
           m == Head(q)
<1>1. /\ Len(q) \in Nat \ {0} /\ DOMAIN q = 1 .. Len(q)
      /\ Len(r) = Len(q) - 1 /\ DOMAIN r = 1 .. Len(q) - 1
      /\ m = q[1] /\ m \in CabinMessage
      /\ \A i \in 1 .. Len(q) - 1 : r[i] = q[i + 1]
  OBVIOUS
<1>2. \A i \in 1 .. Len(q) - 1 : i + 1 \in DOMAIN q /\ i \in DOMAIN r
  BY <1>1
<1>3. \A i \in DOMAIN q : i = 1 \/ (i - 1 \in DOMAIN r /\ i = (i - 1) + 1)
  BY <1>1
<1>4. \A i \in DOMAIN r : i \in MovesIn(r, u) <=> i + 1 \in MovesIn(q, u)
  BY <1>1, <1>2 DEF MovesIn
<1>5. 1 \in MovesIn(q, u) <=> m.type \in {"JOIN", "DISCONNECT"} /\ m.user = u
  BY <1>1 DEF MovesIn
<1>6. m.type \in {"JOIN", "DISCONNECT", "TEXT"}
  BY <1>1 DEF CabinMessage
<1>7. MovesIn(q, u) \subseteq DOMAIN q /\ MovesIn(r, u) \subseteq DOMAIN r
  BY DEF MovesIn
<1>8. CASE MovesIn(r, u) = {}
  <2>1. MovesIn(q, u) \subseteq {1}
    BY <1>3, <1>4, <1>7, <1>8
  <2>2. Holds(r, T, u) <=> u \in T
    BY <1>8 DEF Holds
  <2>3. CASE 1 \in MovesIn(q, u)
    <3>1. MovesIn(q, u) = {1}
      BY <2>1, <2>3
    <3>2. Holds(q, S, u) <=> q[1].type = "JOIN"
      BY <3>1 DEF Holds
    <3>3. u \in T <=> m.type = "JOIN"
      BY <1>5, <1>6, <2>3
    <3> QED
      BY <1>1, <2>2, <3>2, <3>3
  <2>4. CASE 1 \notin MovesIn(q, u)
    <3>1. MovesIn(q, u) = {}
      BY <2>1, <2>4
    <3>2. Holds(q, S, u) <=> u \in S
      BY <3>1 DEF Holds
    <3>3. u \in T <=> u \in S
      BY <1>5, <1>6, <2>4
    <3> QED
      BY <2>2, <3>2, <3>3
  <2> QED
    BY <2>3, <2>4
<1>9. CASE MovesIn(r, u) # {}
  <2>1. MovesIn(q, u) # {}
    BY <1>4, <1>7, <1>9
  <2>2. ASSUME NEW i \in MovesIn(r, u), \A j \in MovesIn(r, u) : j <= i,
               r[i].type = "JOIN"
        PROVE  Holds(q, S, u)
    <3>1. i \in DOMAIN r /\ i + 1 \in MovesIn(q, u) /\ q[i + 1] = r[i]
      BY <1>1, <1>4, <1>7
    <3>2. \A j \in MovesIn(q, u) : j <= i + 1
      BY <1>1, <1>3, <1>4, <1>7, <2>2, <3>1
    <3> QED
      BY <2>1, <2>2, <3>1, <3>2 DEF Holds
  <2>3. ASSUME NEW i \in MovesIn(q, u), \A j \in MovesIn(q, u) : j <= i,
               q[i].type = "JOIN"
        PROVE  Holds(r, T, u)
    <3>1. PICK k \in MovesIn(r, u) : TRUE
      BY <1>9
    <3>2. k \in DOMAIN r /\ k + 1 <= i
      BY <1>4, <1>7, <2>3
    <3>3. i - 1 \in DOMAIN r /\ i = (i - 1) + 1
      BY <1>1, <1>3, <1>7, <3>2
    <3>4. i - 1 \in MovesIn(r, u) /\ r[i - 1] = q[i]
      BY <1>1, <1>4, <3>3
    <3>5. \A j \in MovesIn(r, u) : j <= i - 1
      BY <1>1, <1>4, <1>7, <2>3, <3>3
    <3> QED
      BY <1>9, <2>3, <3>4, <3>5 DEF Holds
  <2> QED
    BY <1>9, <2>1, <2>2, <2>3 DEF Holds
<1> QED
  BY <1>8, <1>9
-----------------------------------------------------------------------------
(* One step of the deck                                                    *)

\* LobbyFollowsDeck, said with Holds and the place function.
Follows(c, k) ==
  HasNamesake(k) \/ (Holds(toCabin[c], users[c], NameOf[k]) <=> Place[k] = c)

LEMMA LobbyIsFollows ==
  /\ LobbyFollowsDeck <=> \A c \in Cabins \ dropped, k \in Clients : Follows(c, k)
  /\ LobbyFollowsDeck' <=> \A c \in Cabins \ dropped', k \in Clients : Follows(c, k)'
<1>1. /\ \A k \in Clients : Place[k] = Whereabouts(k)
      /\ \A k \in Clients : Place'[k] = Whereabouts(k)'
  BY DEF Place
<1>2. \A k \in Clients : HasNamesake(k)' <=> HasNamesake(k)
  BY DEF HasNamesake
<1> QED
  BY <1>1, <1>2, WillHoldIsHolds DEF LobbyFollowsDeck, Follows

\* Nothing is said and nobody moves into a cabin or out of one.
LEMMA QuietLobby ==
  ASSUME LobbyFollowsDeck, UNCHANGED <<toCabin, users>>, dropped \subseteq dropped',
         \A k \in Clients, c \in Cabins : Place'[k] = c <=> Place[k] = c
  PROVE  LobbyFollowsDeck'
<1>1. ASSUME NEW c \in Cabins \ dropped', NEW k \in Clients
      PROVE  Follows(c, k)'
  <2>1. Follows(c, k)
    BY <1>1, LobbyIsFollows
  <2> QED
    BY <1>1, <2>1 DEF Follows, HasNamesake
<1> QED
  BY <1>1, LobbyIsFollows

\* What a message to cabin c does to the queues.
LEMMA Routed ==
  ASSUME TypeOK, NEW c, NEW m \in CabinMessage, SendToCabin(c, m),
         NEW d \in Cabins \ dropped'
  PROVE  /\ d \in Cabins \ dropped /\ toCabin[d] \in Seq(CabinMessage)
         /\ toCabin'[d] = IF d = c THEN Append(toCabin[d], m) ELSE toCabin[d]
<1>1. /\ toCabin \in [Cabins -> Seq(CabinMessage)] /\ d \in Cabins /\ d \in DOMAIN toCabin
      /\ Len(toCabin[d]) \in Nat /\ Hwm \in Nat
  BY ConstantsAssumption DEF TypeOK, ConstantsAssumption
<1>2. toCabin' = Route(toCabin, c, m) /\ dropped' = dropped \cup Overflow(toCabin, c)
  BY DEF SendToCabin
<1>3. CASE d = c
  <2>1. d \notin Overflow(toCabin, c)
    BY <1>2
  <2>2. Len(toCabin[d]) < Hwm
    BY <1>1, <1>3, <2>1 DEF Overflow
  <2> QED
    BY <1>1, <1>2, <1>3, <2>2 DEF Route
<1>4. CASE d # c
  BY <1>1, <1>2, <1>4 DEF Route
<1> QED
  BY <1>3, <1>4

\* Cabin c is told that client k has come or gone, and so it has.
LEMMA ToldLobby ==
  ASSUME TypeOK, LobbyFollowsDeck, NEW k \in Clients, NEW c \in Cabins, NEW m, NEW p,
         SendToCabin(c, m), UNCHANGED users, Moved(Place, Place', k, p),
         \/ m = Join(NameOf[k]) /\ p = c /\ Place[k] \notin Cabins
         \/ m = Disconnect(NameOf[k]) /\ Place[k] = c /\ p \notin Cabins
  PROVE  LobbyFollowsDeck'
<1>1. m \in CabinMessage /\ m.user = NameOf[k] /\ m.type \in {"JOIN", "DISCONNECT"}
  <2>1. NameOf[k] \in Usernames
    BY MessageTypes
  <2>2. m = Join(NameOf[k]) \/ m = Disconnect(NameOf[k])
    OBVIOUS
  <2>3. m \in CabinMessage
    BY <2>1, <2>2, MessageTypes
  <2> QED
    BY <2>2, <2>3 DEF Join, Disconnect
<1>2. ASSUME NEW d \in Cabins \ dropped', NEW j \in Clients, ~HasNamesake(j)
      PROVE  Holds(toCabin'[d], users'[d], NameOf[j]) <=> Place'[j] = d
  <2>1. /\ d \in Cabins \ dropped /\ toCabin[d] \in Seq(CabinMessage)
        /\ toCabin'[d] = IF d = c THEN Append(toCabin[d], m) ELSE toCabin[d]
    BY <1>1, Routed
  <2>2. Holds(toCabin[d], users[d], NameOf[j]) <=> Place[j] = d
    BY <1>2, <2>1, LobbyIsFollows DEF Follows
  <2>3. CASE d # c
    <3>1. Place'[j] = d <=> Place[j] = d
      BY <2>3 DEF Moved
    <3> QED
      BY <2>1, <2>2, <2>3, <3>1
  <2>4. CASE d = c /\ j = k
    <3>1. m.type = "JOIN" => Place'[j] = d
      BY <2>4 DEF Moved, Join, Disconnect
    <3>2. m.type = "DISCONNECT" => Place'[j] # d
      BY <2>4 DEF Moved, Join, Disconnect
    <3> QED
      BY <1>1, <2>1, <2>4, <3>1, <3>2, AppendHolds
  <2>5. CASE d = c /\ j # k
    <3>1. NameOf[j] # NameOf[k] /\ Place'[j] = Place[j]
      BY <1>2, <2>5 DEF HasNamesake, Moved
    <3>2. Holds(Append(toCabin[d], m), users[d], NameOf[j])
            <=> Holds(toCabin[d], users[d], NameOf[j])
      BY <1>1, <2>1, <3>1, AppendHolds
    <3> QED
      BY <2>1, <2>2, <2>5, <3>1, <3>2
  <2> QED
    BY <2>3, <2>4, <2>5
<1> QED
  BY <1>2, LobbyIsFollows DEF Follows, HasNamesake

\* A text says nothing of who is where.
LEMMA TextLobby ==
  ASSUME TypeOK, LobbyFollowsDeck, NEW k \in Clients, NEW t \in Texts, Text(k, t)
  PROVE  LobbyFollowsDeck'
<1> DEFINE m == RoomText(Username(k), t)
<1>1. m \in CabinMessage /\ m.type = "TEXT"
  BY MessageTypes DEF RoomText
<1>2. SendToCabin(curr_cabin[k], m) /\ users' = users /\ Place' = Place
  BY QuietPlace DEF Text, deckVars
<1>3. ASSUME NEW d \in Cabins \ dropped', NEW j \in Clients, ~HasNamesake(j)
      PROVE  Holds(toCabin'[d], users'[d], NameOf[j]) <=> Place'[j] = d
  <2>1. /\ d \in Cabins \ dropped /\ toCabin[d] \in Seq(CabinMessage)
        /\ toCabin'[d] = IF d = curr_cabin[k] THEN Append(toCabin[d], m) ELSE toCabin[d]
    BY <1>1, <1>2, Routed
  <2>2. Holds(toCabin[d], users[d], NameOf[j]) <=> Place[j] = d
    BY <1>3, <2>1, LobbyIsFollows DEF Follows
  <2>3. Holds(Append(toCabin[d], m), users[d], NameOf[j])
          <=> Holds(toCabin[d], users[d], NameOf[j])
    BY <1>1, <2>1, AppendHolds
  <2> QED
    BY <1>2, <2>1, <2>2, <2>3
<1> QED
  BY <1>3, LobbyIsFollows DEF Follows, HasNamesake

\* A cabin reads a message.
LEMMA CabinInputLobby ==
  ASSUME TypeOK, LobbyFollowsDeck, NEW c \in Cabins, CabinInput(c)
  PROVE  LobbyFollowsDeck'
<1> DEFINE m == Head(toCabin[c])
<1>1. /\ toCabin \in [Cabins -> Seq(CabinMessage)] /\ toCabin[c] \in Seq(CabinMessage)
      /\ users \in [Cabins -> SUBSET Usernames] /\ toCabin[c] # << >>
  BY DEF TypeOK, CabinInput
<1>2. /\ toCabin' = [toCabin EXCEPT ![c] = Tail(@)] /\ dropped' = dropped
      /\ Place' = Place
  BY QuietPlace DEF CabinInput, deckVars
<1>3. /\ m.type = "JOIN" => users' = [users EXCEPT ![c] = @ \cup {m.user}]
      /\ m.type = "DISCONNECT" => users' = [users EXCEPT ![c] = @ \ {m.user}]
      /\ m.type = "TEXT" => users' = users
      /\ m.type \in {"JOIN", "DISCONNECT", "TEXT"}
  BY DEF CabinInput
<1>4. ASSUME NEW d \in Cabins, NEW u
      PROVE  Holds(toCabin'[d], users'[d], u) <=> Holds(toCabin[d], users[d], u)
  <2>1. CASE d = c
    <3>1. toCabin'[d] = Tail(toCabin[c])
      BY <1>1, <1>2, <2>1
    <3>2. /\ m.type = "JOIN" => users'[c] = users[c] \cup {m.user}
          /\ m.type = "DISCONNECT" => users'[c] = users[c] \ {m.user}
          /\ m.type = "TEXT" => users'[c] = users[c]
      BY <1>1, <1>3
    <3>3. Holds(Tail(toCabin[c]), users'[c], u) <=> Holds(toCabin[c], users[c], u)
      BY <1>1, <3>2, ReadHolds
    <3> QED
      BY <2>1, <3>1, <3>3
  <2>2. CASE d # c
    <3>1. toCabin'[d] = toCabin[d] /\ users'[d] = users[d]
      BY <1>1, <1>2, <1>3, <2>2
    <3> QED
      BY <3>1
  <2> QED
    BY <2>1, <2>2
<1> QED
  BY <1>2, <1>4, LobbyIsFollows DEF Follows, HasNamesake

LEMMA LobbyStep ==
  ASSUME ~TornReads
  PROVE  TypeOK /\ CrewAccounted /\ LobbyFollowsDeck /\ [Next]_vars
           => LobbyFollowsDeck'
<1> SUFFICES ASSUME TypeOK, CrewAccounted, LobbyFollowsDeck, [Next]_vars
             PROVE  LobbyFollowsDeck'
  OBVIOUS
<1>0. {"ashore", "passage", "gone"} \cap Cabins = {}
  BY ConstantsAssumption DEF ConstantsAssumption
<1>u. \A k \in Clients : Username(k) = NameOf[k]
  BY DEF TypeOK, Username
<1>q. ASSUME UNCHANGED <<toCabin, users>>, dropped \subseteq dropped', Place' = Place
      PROVE  LobbyFollowsDeck'
  BY <1>q, QuietLobby
<1>1. ASSUME NEW k \in Clients, Login(k) PROVE LobbyFollowsDeck'
  <2>1. Place[k] = "ashore" /\ Moved(Place, Place', k, "passage")
    BY <1>1, LoginPlace
  <2>2. \A j \in Clients, c \in Cabins : Place'[j] = c <=> Place[j] = c
    BY <1>0, <2>1 DEF Moved
  <2> QED
    BY <1>1, <2>2, QuietLobby DEF Login, LoginAs
<1>2. ASSUME AckLogin PROVE LobbyFollowsDeck'
  BY <1>2, <1>q, AckLoginPlace DEF AckLogin, SendToCrew
<1>3. ASSUME NEW k \in Clients, NEW c \in Cabins, ChangeCabin(k, c)
      PROVE  LobbyFollowsDeck'
  <2>1. /\ Place[k] = curr_cabin[k] /\ curr_cabin[k] \in Cabins
        /\ Moved(Place, Place', k, "passage")
    BY <1>3, ChangeCabinPlace
  <2>2. SendToCabin(curr_cabin[k], Disconnect(NameOf[k])) /\ users' = users
    BY <1>3, <1>u DEF ChangeCabin, StartMove, LeaveCabin
  <2> QED
    BY <1>0, <2>1, <2>2, ToldLobby
<1>4. ASSUME BoardCabin PROVE LobbyFollowsDeck'
  <2>1. /\ listener.crew \in Clients /\ listener.target \in Cabins
        /\ Place[listener.crew] = "passage"
        /\ Moved(Place, Place', listener.crew, listener.target)
    BY <1>4, BoardCabinPlace
  <2>2. SendToCabin(listener.target, Join(NameOf[listener.crew])) /\ users' = users
    BY <1>4, <1>u, <2>1 DEF BoardCabin
  <2> QED
    BY <1>0, <2>1, <2>2, ToldLobby
<1>5. ASSUME SettleIn PROVE LobbyFollowsDeck'
  BY <1>5, <1>q, SettleInPlace DEF SettleIn
<1>6. ASSUME NEW k \in Clients, Quit(k) PROVE LobbyFollowsDeck'
  <2>1. /\ Place[k] = curr_cabin[k] /\ curr_cabin[k] \in Cabins
        /\ Moved(Place, Place', k, "gone")
    BY <1>6, QuitPlace
  <2>2. SendToCabin(curr_cabin[k], Disconnect(NameOf[k])) /\ users' = users
    BY <1>6, <1>u DEF Quit, StartMove, LeaveCabin
  <2> QED
    BY <1>0, <2>1, <2>2, ToldLobby
<1>7. ASSUME NEW k \in Clients, NEW m \in {Ack, Info}, Answer(k, m)
      PROVE  LobbyFollowsDeck'
  BY <1>7, <1>q, QuietPlace DEF Answer, SendToCrew, deckVars
<1>8. ASSUME NEW k \in Clients, NEW t \in Texts, Text(k, t) PROVE LobbyFollowsDeck'
  BY <1>8, TextLobby
<1>9. ASSUME NEW c \in Cabins, TakeSend(c) PROVE LobbyFollowsDeck'
  BY <1>9, <1>q, TakeSendPlace DEF TakeSend
<1>10. ASSUME Forward PROVE LobbyFollowsDeck'
  BY <1>10, <1>q, QuietPlace DEF Forward, SendToCrew, deckVars
<1>11. ASSUME NEW c \in Cabins, CabinInput(c) PROVE LobbyFollowsDeck'
  BY <1>11, CabinInputLobby
<1>12. ASSUME NEW k \in Clients, Receive(k) PROVE LobbyFollowsDeck'
  BY <1>12, <1>q, QuietPlace DEF Receive, deckVars
<1>14. ASSUME StayOut PROVE LobbyFollowsDeck'
  BY <1>14, <1>q, StayOutPlace DEF StayOut, deckVars
<1>13. CASE UNCHANGED vars
  BY <1>13, <1>q, QuietPlace DEF vars, deckVars
<1> QED
  BY <1>1, <1>2, <1>3, <1>4, <1>5, <1>6, <1>7, <1>8, <1>9, <1>10, <1>11, <1>12,
     <1>13, <1>14
     DEF Next, CrewInput, ListenerMove, MissName, MissClient, MissCabin, TornSend

\* LobbyFollowsDeck: a lobby broadcasts to exactly the crewmates the deck has
\* put in its cabin once it has read what is on its way to it, however long its
\* queue and however quickly they move, unless a message to it was dropped or
\* two crewmates share a name (handle_shipdeck_input, change_player_cabins), if no
\* lookup is torn.
THEOREM LobbiesFollow ==
  ASSUME ~TornReads
  PROVE  Spec => []LobbyFollowsDeck
<1>1. Init => LobbyFollowsDeck
  <2> SUFFICES ASSUME Init PROVE LobbyFollowsDeck
    OBVIOUS
  <2>1. \A k \in Clients : Place[k] = "ashore"
    BY DEF Init, Place, Whereabouts
  <2>2. \A c \in Cabins : \A u : ~Holds(toCabin[c], users[c], u)
    BY DEF Init, Holds, MovesIn
  <2> QED
    BY <2>1, <2>2, LobbyIsFollows, ConstantsAssumption DEF Follows, ConstantsAssumption
<1>2. TypeOK /\ CrewAccounted /\ LobbyFollowsDeck /\ [Next]_vars => LobbyFollowsDeck'
  BY LobbyStep
<1> QED
  BY <1>1, <1>2, TypeCorrect, CrewIsAccounted, PTL DEF Spec
=============================================================================
