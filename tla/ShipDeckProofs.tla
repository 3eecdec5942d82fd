--------------------------- MODULE ShipDeckProofs ---------------------------
(***************************************************************************)
(* Theorems about ShipDeck, for every set of clients, cabins, names and    *)
(* texts and every value of the bounds.  Those that torn lookups refute    *)
(* assume that there are none.                                             *)
(***************************************************************************)
EXTENDS ShipDeck, FiniteSetTheorems, TLAPS

LOCAL INSTANCE SequencesExt

-----------------------------------------------------------------------------
(* Type correctness                                                        *)

\* A ROUTER keeps a queue a queue, and within its high-water mark.
LEMMA RouteType ==
  ASSUME NEW P, NEW M, NEW chan \in [P -> Seq(M)], NEW peer, NEW m \in M,
         \A p \in P : Len(chan[p]) <= Hwm
  PROVE  /\ Route(chan, peer, m) \in [P -> Seq(M)]
         /\ \A p \in P : Len(Route(chan, peer, m)[p]) <= Hwm
         /\ Overflow(chan, peer) \subseteq P
<1>1. CASE peer \in DOMAIN chan /\ Len(chan[peer]) < Hwm
  <2>1. Append(chan[peer], m) \in Seq(M) /\ Len(Append(chan[peer], m)) = Len(chan[peer]) + 1
    BY <1>1
  <2>2. Len(chan[peer]) + 1 <= Hwm
    BY <1>1, ConstantsAssumption DEF ConstantsAssumption
  <2> QED
    BY <1>1, <2>1, <2>2 DEF Route, Overflow
<1>2. CASE ~(peer \in DOMAIN chan /\ Len(chan[peer]) < Hwm)
  BY <1>2 DEF Route, Overflow
<1> QED
  BY <1>1, <1>2

\* The tail of a nonempty queue.
LEMMA TailType ==
  ASSUME NEW M, NEW s \in Seq(M), s # << >>
  PROVE  Head(s) \in M /\ Tail(s) \in Seq(M) /\ Len(Tail(s)) = Len(s) - 1
  OBVIOUS

\* A text becomes one SEND for each user, whatever the order.
LEMMA BroadcastType ==
  ASSUME NEW S \in SUBSET Usernames, NEW order \in SetToSeqs(S), NEW m \in CabinMessage,
         m.type = "TEXT"
  PROVE  /\ Broadcast(m, order) \in Seq(DeckMessage)
         /\ \A i \in DOMAIN Broadcast(m, order) : Broadcast(m, order)[i].to \in S
<1>1. IsFiniteSet(S) /\ Cardinality(S) \in Nat
  <2>1. IsFiniteSet(Names) /\ IsFiniteSet({NoName})
    BY ConstantsAssumption, FS_Singleton DEF ConstantsAssumption
  <2>2. IsFiniteSet(Usernames)
    BY <2>1, FS_Union DEF Usernames
  <2> QED
    BY <2>2, FS_Subset, FS_CardinalityType
<1>2. order \in [1 .. Cardinality(S) -> S]
  BY DEF SetToSeqs
<1>3. m.user \in Usernames /\ m.text \in Texts
  BY DEF CabinMessage
<1>4. Broadcast(m, order) \in [1 .. Cardinality(S) -> DeckMessage]
  BY <1>2, <1>3 DEF Broadcast, DeckMessage, Send
<1> QED
  BY <1>1, <1>2, <1>4 DEF Broadcast, Send

\* A message for a cabin, and a message for a client, keep every type.
LEMMA SendToCabinType ==
  ASSUME TypeOK, NEW c, NEW m \in CabinMessage, SendToCabin(c, m)
  PROVE  /\ toCabin' \in [Cabins -> Seq(CabinMessage)]
         /\ \A d \in Cabins : Len(toCabin'[d]) <= Hwm
         /\ dropped' \subseteq Cabins \cup Clients
<1>1. toCabin \in [Cabins -> Seq(CabinMessage)] /\ (\A d \in Cabins : Len(toCabin[d]) <= Hwm)
  BY DEF TypeOK
<1>2. /\ Route(toCabin, c, m) \in [Cabins -> Seq(CabinMessage)]
      /\ \A d \in Cabins : Len(Route(toCabin, c, m)[d]) <= Hwm
      /\ Overflow(toCabin, c) \subseteq Cabins
  BY <1>1, RouteType
<1> QED
  BY <1>2 DEF SendToCabin, TypeOK

LEMMA SendToCrewType ==
  ASSUME TypeOK, NEW k \in Clients, NEW m \in CrewMessage, SendToCrew(k, m)
  PROVE  /\ toCrew' \in [Clients -> Seq(CrewMessage)]
         /\ \A j \in Clients : Len(toCrew'[j]) <= Hwm
         /\ dropped' \subseteq Cabins \cup Clients
<1>1. toCrew \in [Clients -> Seq(CrewMessage)] /\ (\A j \in Clients : Len(toCrew[j]) <= Hwm)
  BY DEF TypeOK
<1>2. /\ Append(toCrew[k], m) \in Seq(CrewMessage)
      /\ Len(Append(toCrew[k], m)) = Len(toCrew[k]) + 1
      /\ Len(toCrew[k]) \in Nat /\ Hwm \in Nat
  BY <1>1, ConstantsAssumption DEF ConstantsAssumption
<1>3. CASE /\ Len(toCrew[k]) < Hwm
           /\ toCrew' = [toCrew EXCEPT ![k] = Append(@, m)]
           /\ dropped' = dropped
  BY <1>1, <1>2, <1>3 DEF TypeOK
<1>4. CASE toCrew' = toCrew /\ dropped' = dropped \cup {k}
  BY <1>1, <1>4 DEF TypeOK
<1> QED
  BY <1>3, <1>4 DEF SendToCrew

\* The messages of the deck are messages.
LEMMA MessageTypes ==
  /\ \A u \in Usernames : Join(u) \in CabinMessage /\ Disconnect(u) \in CabinMessage
  /\ \A u \in Usernames, t \in Texts : RoomText(u, t) \in CabinMessage
  /\ Ack \in CrewMessage /\ Info \in CrewMessage
  /\ \A u \in Usernames, t \in Texts : CrewText(u, t) \in CrewMessage
  /\ \A k \in Clients : Username(k) \in Usernames /\ NameOf[k] \in Usernames
BY ConstantsAssumption
   DEF ConstantsAssumption, Join, Disconnect, RoomText, CabinMessage, Ack, Info,
       CrewText, CrewMessage, Username, Usernames

\* A client leaves its cabin: the counts stay uint32_t.
LEMMA LeaveCabinType ==
  ASSUME TypeOK, NEW k \in Clients, LeaveCabin(k)
  PROVE  /\ curr_playing' \in [Cabins -> 0 .. MaxUint]
         /\ toCabin' \in [Cabins -> Seq(CabinMessage)]
         /\ \A d \in Cabins : Len(toCabin'[d]) <= Hwm
         /\ dropped' \subseteq Cabins \cup Clients
<1>1. Disconnect(Username(k)) \in CabinMessage
  BY MessageTypes
<1>2. curr_playing' \in [Cabins -> 0 .. MaxUint]
  <2>1. \A n \in 0 .. MaxUint : Decrement(n) \in 0 .. MaxUint
    BY ConstantsAssumption DEF Decrement, ConstantsAssumption
  <2> QED
    BY <2>1 DEF LeaveCabin, TypeOK
<1>3. SendToCabin(curr_cabin[k], Disconnect(Username(k)))
  BY DEF LeaveCabin
<1> QED
  BY <1>1, <1>2, <1>3, SendToCabinType

\* A listener that is at work is moving a client to a cabin or, at the end of a
\* /quit, to none.
LEMMA MovingType ==
  ASSUME TypeOK, listener.pc # "idle"
  PROVE  /\ listener.pc \in {"ack", "board", "settle"}
         /\ listener.crew \in Clients
         /\ listener.target \in Cabins \cup {NoCabin}
         /\ listener.pc \in {"ack", "settle"} => listener.target \in Cabins
BY DEF TypeOK, Idle

Listening ==
  {Idle} \cup [pc : {"ack", "board", "settle"}, crew : Clients, target : Cabins]
         \cup [pc : {"board"}, crew : Clients, target : {NoCabin}]

LEMMA MovingInType ==
  /\ \A pc \in {"ack", "board", "settle"}, k \in Clients, c \in Cabins :
       Moving(pc, k, c) \in Listening
  /\ \A k \in Clients : Moving("board", k, NoCabin) \in Listening
  /\ Idle \in Listening
BY DEF Moving, Listening

\* Every step keeps the types.
LEMMA TypeStep == TypeOK /\ [Next]_vars => TypeOK'
<1> SUFFICES ASSUME TypeOK, [Next]_vars PROVE TypeOK'
  OBVIOUS
<1> USE ConstantsAssumption DEF ConstantsAssumption
<1>1. ASSUME NEW k \in Clients, Login(k) PROVE TypeOK'
  <2>1. /\ client_map' = client_map \cup {k} /\ c_online' = c_online \cup {k}
        /\ torn' = torn
        /\ curr_cabin' = [curr_cabin EXCEPT ![k] = NoCabin]
        /\ crew_name_to_id' = [crew_name_to_id EXCEPT ![NameOf[k]] = k]
        /\ listener' = Moving("ack", k, DefaultCabin)
        /\ session' = [session EXCEPT ![k] = "waiting"]
    BY <1>1 DEF Login, LoginAs
  <2>2. crew_name_to_id' \in [Usernames -> client_map' \cup {NoClient}]
    BY <2>1 DEF TypeOK
  <2>3. listener' \in Listening
    BY <2>1, MovingInType
  <2>4. session' \in [Clients -> {"out", "waiting", "in", "left"}]
    BY <2>1 DEF TypeOK
  <2>5. curr_cabin' \in [Clients -> Cabins \cup {NoCabin}]
    BY <2>1 DEF TypeOK
  <2> QED
    BY <1>1, <2>1, <2>2, <2>3, <2>4, <2>5 DEF Login, LoginAs, TypeOK, Listening
<1>2. ASSUME AckLogin PROVE TypeOK'
  <2>1. SendToCrew(listener.crew, Ack)
    BY <1>2 DEF AckLogin
  <2>a. listener.crew \in Clients
    BY <1>2, MovingType DEF AckLogin
  <2>2. /\ toCrew' \in [Clients -> Seq(CrewMessage)]
        /\ \A j \in Clients : Len(toCrew'[j]) <= Hwm
        /\ dropped' \subseteq Cabins \cup Clients
    BY <2>1, <2>a, SendToCrewType, MessageTypes
  <2>3. listener' \in Listening
    BY <1>2, MovingType, MovingInType DEF AckLogin
  <2> QED
    BY <1>2, <2>2, <2>3 DEF AckLogin, TypeOK, deckVars, Listening
<1>3. ASSUME NEW k \in Clients, NEW c \in Cabins, ChangeCabin(k, c) PROVE TypeOK'
  <2>1. /\ LeaveCabin(k) /\ commands < MaxCommands /\ commands' = commands + 1
        /\ listener' \in Listening
    BY <1>3, MovingInType DEF ChangeCabin, TypesCommand, StartMove
  <2>2. commands' \in 0 .. MaxCommands
    BY <2>1 DEF TypeOK
  <2>3. /\ curr_playing' \in [Cabins -> 0 .. MaxUint]
        /\ toCabin' \in [Cabins -> Seq(CabinMessage)]
        /\ \A d \in Cabins : Len(toCabin'[d]) <= Hwm
        /\ dropped' \subseteq Cabins \cup Clients
    BY <2>1, LeaveCabinType
  <2> QED
    BY <1>3, <2>1, <2>2, <2>3 DEF ChangeCabin, TypeOK, Listening
<1>4. ASSUME BoardCabin PROVE TypeOK'
  <2>1. listener.crew \in Clients /\ listener.target \in Cabins
    BY <1>4, MovingType DEF BoardCabin, MayBoard
  <2>2. curr_playing' \in [Cabins -> 0 .. MaxUint]
    <3>1. \A n \in 0 .. MaxUint : Increment(n) \in 0 .. MaxUint
      BY DEF Increment
    <3> QED
      BY <1>4, <2>1, <3>1 DEF BoardCabin, TypeOK
  <2>3. Join(Username(listener.crew)) \in CabinMessage
    BY <2>1, MessageTypes
  <2>4. /\ toCabin' \in [Cabins -> Seq(CabinMessage)]
        /\ \A d \in Cabins : Len(toCabin'[d]) <= Hwm
        /\ dropped' \subseteq Cabins \cup Clients
    BY <1>4, <2>3, SendToCabinType DEF BoardCabin
  <2>5. listener' \in Listening
    BY <1>4, <2>1, MovingInType DEF BoardCabin
  <2> QED
    BY <1>4, <2>2, <2>4, <2>5 DEF BoardCabin, TypeOK, Listening
<1>5. ASSUME SettleIn PROVE TypeOK'
  <2>1. listener.crew \in Clients /\ listener.target \in Cabins
    BY <1>5, MovingType DEF SettleIn
  <2> QED
    BY <1>5, <2>1 DEF SettleIn, TypeOK
<1>6. ASSUME NEW k \in Clients, Quit(k) PROVE TypeOK'
  <2>1. /\ curr_playing' \in [Cabins -> 0 .. MaxUint]
        /\ toCabin' \in [Cabins -> Seq(CabinMessage)]
        /\ \A d \in Cabins : Len(toCabin'[d]) <= Hwm
        /\ dropped' \subseteq Cabins \cup Clients
    BY <1>6, LeaveCabinType DEF Quit, StartMove
  <2>2. listener' \in Listening
    BY <1>6, MovingInType DEF Quit, StartMove
  <2> QED
    BY <1>6, <2>1, <2>2 DEF Quit, TypeOK, Listening
<1>7. ASSUME NEW k \in Clients, NEW m \in {Ack, Info}, Answer(k, m) PROVE TypeOK'
  <2>1. commands' \in 0 .. MaxCommands
    BY <1>7 DEF Answer, TypesCommand, TypeOK
  <2>2. /\ toCrew' \in [Clients -> Seq(CrewMessage)]
        /\ \A j \in Clients : Len(toCrew'[j]) <= Hwm
        /\ dropped' \subseteq Cabins \cup Clients
    BY <1>7, SendToCrewType, MessageTypes DEF Answer
  <2> QED
    BY <1>7, <2>1, <2>2 DEF Answer, TypeOK, deckVars
<1>8. ASSUME NEW k \in Clients, NEW t \in Texts, Text(k, t) PROVE TypeOK'
  <2>1. RoomText(Username(k), t) \in CabinMessage
    BY MessageTypes
  <2>2. /\ toCabin' \in [Cabins -> Seq(CabinMessage)]
        /\ \A d \in Cabins : Len(toCabin'[d]) <= Hwm
        /\ dropped' \subseteq Cabins \cup Clients
    BY <1>8, <2>1, SendToCabinType DEF Text
  <2> QED
    BY <1>8, <2>2 DEF Text, TypeOK, deckVars
<1>9. ASSUME NEW c \in Cabins, TakeSend(c) PROVE TypeOK'
  <2>1. /\ toDeck[c] \in Seq(DeckMessage) /\ toDeck[c] # << >>
    BY <1>9 DEF TakeSend, TypeOK
  <2>2. Head(toDeck[c]) \in DeckMessage /\ Tail(toDeck[c]) \in Seq(DeckMessage)
    BY <2>1, TailType
  <2>3. toDeck' \in [Cabins -> Seq(DeckMessage)]
    BY <1>9, <2>2 DEF TakeSend, TypeOK
  <2>4. services' \in {Idle} \cup [pc : {"forward"}, crew : Clients,
                                   cabin : Cabins, from : Usernames, text : Texts]
    BY <1>9, <2>2 DEF TakeSend, Serving, DeckMessage
  <2>5. crew_name_to_id[Head(toDeck[c]).to] \in client_map \cup {NoClient}
    BY <2>2 DEF TypeOK, DeckMessage
  <2>6. /\ client_map \subseteq client_map'
        /\ client_map' \subseteq client_map \cup {NoClient}
    BY <1>9, <2>5 DEF TakeSend
  <2> QED
    BY <1>9, <2>3, <2>4, <2>6 DEF TakeSend, TypeOK
<1>m. ASSUME NEW c \in Cabins, TornSend(c), client_map' \in {client_map, client_map \cup {NoClient}},
             crew_name_to_id' \in [Usernames -> client_map' \cup {NoClient}],
             curr_cabin' \in [Clients -> Cabins \cup {NoCabin}],
             torn' \subseteq client_map' \cap Clients,
             c_online' \subseteq client_map' \cap Clients
      PROVE  TypeOK'
  <2>1. /\ toDeck[c] \in Seq(DeckMessage) /\ toDeck[c] # << >>
    BY <1>m DEF TornSend, TypeOK
  <2>2. toDeck' \in [Cabins -> Seq(DeckMessage)]
    BY <1>m, <2>1, TailType DEF TornSend, TypeOK
  <2> QED
    BY <1>m, <2>2 DEF TornSend, TypeOK
<1>t. ASSUME NEW c \in Cabins, toDeck[c] # << >>
      PROVE  /\ Head(toDeck[c]).to \in Usernames
             /\ crew_name_to_id[Head(toDeck[c]).to] \in client_map \cup {NoClient}
  <2>1. toDeck[c] \in Seq(DeckMessage)
    BY DEF TypeOK
  <2>2. Head(toDeck[c]) \in DeckMessage
    BY <1>t, <2>1, TailType
  <2> QED
    BY <2>2 DEF DeckMessage, TypeOK
<1>14. ASSUME NEW c \in Cabins, MissName(c) PROVE TypeOK'
  <2>1. TornSend(c) /\ toDeck[c] # << >>
    BY <1>14 DEF MissName, TornSend
  <2>2. crew_name_to_id' \in [Usernames -> client_map' \cup {NoClient}]
    <3>1. /\ crew_name_to_id \in [Usernames -> client_map \cup {NoClient}]
          /\ client_map' = client_map \cup {NoClient}
      BY <1>14 DEF MissName, TypeOK
    <3>2. \/ crew_name_to_id' = crew_name_to_id
          \/ crew_name_to_id' = [crew_name_to_id EXCEPT ![Head(toDeck[c]).to] = NoClient]
      BY <1>14 DEF MissName
    <3> QED
      BY <3>1, <3>2
  <2> QED
    BY <1>14, <1>m, <2>1, <2>2 DEF MissName, TypeOK
<1>15. ASSUME NEW c \in Cabins, MissClient(c) PROVE TypeOK'
  <2>1. TornSend(c) /\ toDeck[c] # << >>
    BY <1>15 DEF MissClient, TornSend
  <2>2. PICK k \in client_map \cap Clients :
          /\ torn' = torn \cup {k} /\ c_online' = c_online \cup {k}
          /\ curr_cabin' = [curr_cabin EXCEPT ![k] = NoCabin]
    BY <1>15, <1>t, <2>1 DEF MissClient
  <2>3. UNCHANGED <<client_map, crew_name_to_id>>
    BY <1>15 DEF MissClient
  <2> QED
    BY <1>m, <2>1, <2>2, <2>3 DEF TypeOK
<1>16. ASSUME NEW c \in Cabins, MissCabin(c) PROVE TypeOK'
  BY <1>16, <1>m DEF MissCabin, TypeOK
<1>17. ASSUME StayOut PROVE TypeOK'
  BY <1>17 DEF StayOut, TypeOK, deckVars
<1>10. ASSUME Forward PROVE TypeOK'
  <2>1. services.from \in Usernames /\ services.text \in Texts
    BY <1>10 DEF Forward, TypeOK, Idle
  <2>2. services.crew \in Clients /\ CrewText(services.from, services.text) \in CrewMessage
    BY <1>10, <2>1, MessageTypes DEF Forward, TypeOK, Idle
  <2>3. /\ toCrew' \in [Clients -> Seq(CrewMessage)]
        /\ \A j \in Clients : Len(toCrew'[j]) <= Hwm
        /\ dropped' \subseteq Cabins \cup Clients
    BY <1>10, <2>2, SendToCrewType DEF Forward
  <2> QED
    BY <1>10, <2>3 DEF Forward, TypeOK, deckVars
<1>11. ASSUME NEW c \in Cabins, CabinInput(c) PROVE TypeOK'
  <2> DEFINE m == Head(toCabin[c])
  <2>1. /\ m \in CabinMessage /\ Tail(toCabin[c]) \in Seq(CabinMessage)
        /\ Len(Tail(toCabin[c])) = Len(toCabin[c]) - 1
    BY <1>11, TailType DEF CabinInput, TypeOK
  <2>2. /\ toCabin' \in [Cabins -> Seq(CabinMessage)]
        /\ \A d \in Cabins : Len(toCabin'[d]) <= Hwm
    BY <1>11, <2>1 DEF CabinInput, TypeOK
  <2>3. m.user \in Usernames
    BY <2>1 DEF CabinMessage
  <2>4. users' \in [Cabins -> SUBSET Usernames]
    <3>1. users \in [Cabins -> SUBSET Usernames]
      BY DEF TypeOK
    <3>2. users[c] \cup {m.user} \subseteq Usernames /\ users[c] \ {m.user} \subseteq Usernames
      BY <2>3, <3>1
    <3>3. \E S \in SUBSET Usernames : users' = [users EXCEPT ![c] = S] \/ users' = users
      BY <1>11, <3>2 DEF CabinInput
    <3> QED
      BY <3>1, <3>3
  <2>5. toDeck' \in [Cabins -> Seq(DeckMessage)]
    <3>1. CASE m.type = "TEXT"
      <4>1. PICK order \in SetToSeqs(users[c]) :
              toDeck' = [toDeck EXCEPT ![c] = @ \o Broadcast(m, order)]
        BY <1>11, <3>1 DEF CabinInput
      <4>2. users[c] \in SUBSET Usernames
        BY DEF TypeOK
      <4>3. Broadcast(m, order) \in Seq(DeckMessage)
        BY <2>1, <3>1, <4>2, BroadcastType
      <4> QED
        BY <4>1, <4>3 DEF TypeOK
    <3>2. CASE m.type # "TEXT"
      BY <1>11, <3>2 DEF CabinInput, TypeOK
    <3> QED
      BY <3>1, <3>2
  <2> QED
    BY <1>11, <2>2, <2>4, <2>5 DEF CabinInput, TypeOK, deckVars
<1>12. ASSUME NEW k \in Clients, Receive(k) PROVE TypeOK'
  <2>1. /\ Tail(toCrew[k]) \in Seq(CrewMessage)
        /\ Len(Tail(toCrew[k])) = Len(toCrew[k]) - 1
    BY <1>12, TailType DEF Receive, TypeOK
  <2> QED
    BY <1>12, <2>1 DEF Receive, TypeOK, deckVars
<1>13. CASE UNCHANGED vars
  BY <1>13 DEF vars, deckVars, TypeOK
<1> QED
  BY <1>1, <1>2, <1>3, <1>4, <1>5, <1>6, <1>7, <1>8, <1>9, <1>10, <1>11, <1>12,
     <1>13, <1>14, <1>15, <1>16, <1>17 DEF Next, CrewInput, ListenerMove

\* TypeOK: every variable keeps its type, whatever the crew and the threads do.
THEOREM TypeCorrect == Spec => []TypeOK
<1>1. Init => TypeOK
  BY ConstantsAssumption DEF ConstantsAssumption, Init, TypeOK, Idle
<1> QED
  BY <1>1, TypeStep, PTL DEF Spec
-----------------------------------------------------------------------------
(* Who is on the deck                                                      *)

\* Every step keeps the books of the crew.
LEMMA CrewAccountedStep ==
  TypeOK /\ CrewAccounted /\ [Next]_vars => CrewAccounted'
<1> SUFFICES ASSUME TypeOK, CrewAccounted, [Next]_vars PROVE CrewAccounted'
  OBVIOUS
<1> USE DEF CrewAccounted
<1>1. ASSUME NEW k \in Clients, Login(k) PROVE CrewAccounted'
  <2>1. /\ client_map' = client_map \cup {k} /\ c_online' = c_online \cup {k}
        /\ torn' = torn /\ listener'.pc = "ack" /\ listener'.crew = k
    BY <1>1 DEF Login, LoginAs, Moving
  <2>2. \A j \in Clients \ {k} : /\ session'[j] = session[j]
                                 /\ curr_cabin'[j] = curr_cabin[j]
    BY <1>1 DEF Login, LoginAs, TypeOK
  <2>3. session'[k] = "waiting"
    BY <1>1 DEF Login, LoginAs, TypeOK
  <2>4. listener.pc = "idle"
    BY <1>1 DEF Login, LoginAs, Idle
  <2> QED
    BY <2>1, <2>2, <2>3, <2>4
<1>2. ASSUME AckLogin PROVE CrewAccounted'
  BY <1>2, MovingType DEF AckLogin, deckVars, Moving
<1>3. ASSUME NEW k \in Clients, NEW c \in Cabins, ChangeCabin(k, c) PROVE CrewAccounted'
  <2>1. listener = Idle /\ session[k] = "in" /\ listener' = Moving("board", k, c)
    BY <1>3 DEF ChangeCabin, TypesCommand, TakesInput, StartMove
  <2> QED
    BY <1>3, <2>1 DEF ChangeCabin, Moving, Idle
<1>4. ASSUME BoardCabin PROVE CrewAccounted'
  BY <1>4 DEF BoardCabin, MayBoard, Moving
<1>5. ASSUME SettleIn PROVE CrewAccounted'
  <2>1. listener.crew \in Clients /\ listener.target \in Cabins
    BY <1>5, MovingType DEF SettleIn
  <2>2. /\ curr_cabin'[listener.crew] \in Cabins
        /\ \A j \in Clients \ {listener.crew} : curr_cabin'[j] = curr_cabin[j]
    BY <1>5, <2>1 DEF SettleIn, TypeOK
  <2> QED
    BY <1>5, <2>1, <2>2 DEF SettleIn, Idle
<1>6. ASSUME NEW k \in Clients, Quit(k) PROVE CrewAccounted'
  <2>1. /\ listener = Idle /\ session[k] = "in" /\ k \in client_map
        /\ listener' = Moving("board", k, NoCabin)
    BY <1>6 DEF Quit, TakesInput, StartMove
  <2>2. session'[k] = "left" /\ (\A j \in Clients \ {k} : session'[j] = session[j])
    BY <1>6 DEF Quit, TypeOK
  <2> QED
    BY <1>6, <2>1, <2>2, ConstantsAssumption DEF Quit, Idle, Moving, ConstantsAssumption
<1>7. ASSUME NEW k \in Clients, NEW m \in {Ack, Info}, Answer(k, m) PROVE CrewAccounted'
  BY <1>7 DEF Answer, deckVars
<1>8. ASSUME NEW k \in Clients, NEW t \in Texts, Text(k, t) PROVE CrewAccounted'
  BY <1>8 DEF Text, deckVars
<1>9. ASSUME NEW c \in Cabins, TakeSend(c) PROVE CrewAccounted'
  <2>1. toDeck[c] \in Seq(DeckMessage) /\ toDeck[c] # << >>
    BY <1>9 DEF TakeSend, TypeOK
  <2>2. Head(toDeck[c]) \in DeckMessage
    BY <2>1, TailType
  <2>3. client_map' = client_map \/ client_map' = client_map \cup {NoClient}
    BY <1>9, <2>2 DEF TakeSend, TypeOK, DeckMessage
  <2> QED
    BY <1>9, <2>3, ConstantsAssumption DEF TakeSend, ConstantsAssumption
<1>10. ASSUME Forward PROVE CrewAccounted'
  BY <1>10 DEF Forward, deckVars
<1>11. ASSUME NEW c \in Cabins, CabinInput(c) PROVE CrewAccounted'
  BY <1>11 DEF CabinInput, deckVars
<1>12. ASSUME NEW k \in Clients, Receive(k) PROVE CrewAccounted'
  <2>1. session[k] \in {"waiting", "in"} /\ session'[k] = "in"
    BY <1>12 DEF Receive, TypeOK
  <2>2. \A j \in Clients \ {k} : session'[j] = session[j]
    BY <1>12 DEF Receive, TypeOK
  <2> QED
    BY <1>12, <2>1, <2>2 DEF Receive, deckVars
<1>14. ASSUME NEW c \in Cabins, MissName(c) PROVE CrewAccounted'
  BY <1>14, ConstantsAssumption DEF MissName, TornSend, ConstantsAssumption
<1>15. ASSUME NEW c \in Cabins, MissClient(c) PROVE CrewAccounted'
  <2>1. PICK k \in Clients :
          /\ torn' = torn \cup {k} /\ c_online' = c_online \cup {k}
          /\ \A j \in Clients \ {k} : curr_cabin'[j] = curr_cabin[j]
    BY <1>15 DEF MissClient, TypeOK
  <2> QED
    BY <1>15, <2>1 DEF MissClient, TornSend
<1>16. ASSUME NEW c \in Cabins, MissCabin(c) PROVE CrewAccounted'
  BY <1>16 DEF MissCabin, TornSend
<1>17. ASSUME StayOut PROVE CrewAccounted'
  <2>1. ASSUME NEW k \in Clients, k \in c_online \ torn, listener.crew = k
        PROVE  curr_cabin[k] \in Cabins
    BY <1>17, <2>1 DEF StayOut, MayBoard
  <2> QED
    BY <1>17, <2>1 DEF StayOut, Idle, deckVars
<1>13. CASE UNCHANGED vars
  BY <1>13 DEF vars, deckVars
<1> QED
  BY <1>1, <1>2, <1>3, <1>4, <1>5, <1>6, <1>7, <1>8, <1>9, <1>10, <1>11, <1>12,
     <1>13, <1>14, <1>15, <1>16, <1>17 DEF Next, CrewInput, ListenerMove

THEOREM CrewIsAccounted == Spec => []CrewAccounted
<1>1. Init => CrewAccounted
  BY ConstantsAssumption DEF ConstantsAssumption, Init, CrewAccounted, Idle
<1> QED
  BY <1>1, CrewAccountedStep, TypeCorrect, PTL DEF Spec
-----------------------------------------------------------------------------
(* Where the crew is                                                       *)

\* The crewmates a place function puts in cabin c.
At(f, c) == {k \in Clients : f[k] = c}

\* Place functions f and g differ in client k, which g puts in p.
Moved(f, g, k, p) ==
  /\ g[k] = p /\ p # f[k]
  /\ \A j \in Clients \ {k} : g[j] = f[j]

\* While the listener is idle nobody is at sea.
LEMMA NobodyInPassage ==
  ASSUME ~TornReads, TypeOK, CrewAccounted, listener.pc = "idle"
  PROVE  \A k \in Clients :
           /\ Whereabouts(k) # "passage"
           /\ k \in c_online => Whereabouts(k) = curr_cabin[k] /\ curr_cabin[k] \in Cabins
BY ConstantsAssumption DEF ConstantsAssumption, TypeOK, CrewAccounted, Whereabouts

\* LOGIN takes a client from the shore to sea.
LEMMA LoginPlace ==
  ASSUME TypeOK, CrewAccounted, NEW k \in Clients, Login(k)
  PROVE  Place[k] = "ashore" /\ Moved(Place, Place', k, "passage")
<1>1. /\ client_map' = client_map \cup {k} /\ c_online' = c_online \cup {k}
      /\ listener'.pc = "ack" /\ listener'.crew = k
      /\ k \notin client_map /\ listener.pc = "idle"
      /\ \A j \in Clients \ {k} : curr_cabin'[j] = curr_cabin[j]
  BY DEF Login, LoginAs, Moving, Idle, TypeOK
<1>2. Whereabouts(k) = "ashore" /\ Whereabouts(k)' = "passage"
  BY <1>1 DEF Whereabouts
<1>3. \A j \in Clients \ {k} : Whereabouts(j)' = Whereabouts(j)
  BY <1>1 DEF Whereabouts
<1> QED
  BY <1>2, <1>3, ConstantsAssumption DEF ConstantsAssumption, Place, Moved

\* /leave and /join take a client from its cabin to sea.
LEMMA ChangeCabinPlace ==
  ASSUME ~TornReads, TypeOK, CrewAccounted, NEW k \in Clients, NEW c \in Cabins,
         ChangeCabin(k, c)
  PROVE  /\ Place[k] = curr_cabin[k] /\ curr_cabin[k] \in Cabins
         /\ Moved(Place, Place', k, "passage")
<1>1. /\ client_map' = client_map /\ c_online' = c_online /\ curr_cabin' = curr_cabin
      /\ listener'.pc = "board" /\ listener'.crew = k
      /\ session[k] = "in" /\ k \in client_map /\ listener.pc = "idle"
  BY DEF ChangeCabin, TypesCommand, TakesInput, StartMove, Moving, Idle
<1>2. k \in c_online
  BY <1>1 DEF CrewAccounted
<1>3. Whereabouts(k) = curr_cabin[k] /\ curr_cabin[k] \in Cabins
  BY <1>1, <1>2, NobodyInPassage
<1>4. Whereabouts(k)' = "passage"
  BY <1>1, <1>2 DEF Whereabouts
<1>5. \A j \in Clients \ {k} : Whereabouts(j)' = Whereabouts(j)
  BY <1>1 DEF Whereabouts
<1> QED
  BY <1>3, <1>4, <1>5, ConstantsAssumption DEF ConstantsAssumption, Place, Moved

\* change_player_cabins takes a client from the sea into its new cabin.
LEMMA BoardCabinPlace ==
  ASSUME TypeOK, CrewAccounted, BoardCabin
  PROVE  /\ listener.crew \in Clients /\ listener.target \in Cabins
         /\ Place[listener.crew] = "passage"
         /\ Moved(Place, Place', listener.crew, listener.target)
<1>1. /\ client_map' = client_map /\ c_online' = c_online /\ curr_cabin' = curr_cabin
      /\ listener.pc = "board" /\ listener'.pc = "settle"
      /\ listener'.crew = listener.crew /\ listener'.target = listener.target
  BY DEF BoardCabin, MayBoard, Moving
<1>2. listener.crew \in Clients /\ listener.target \in Cabins
  BY <1>1, MovingType DEF BoardCabin, MayBoard
<1>3. listener.crew \in c_online /\ listener.crew \in client_map
  BY <1>1 DEF BoardCabin, MayBoard, TypeOK
<1>4. Whereabouts(listener.crew) = "passage"
  BY <1>1, <1>3 DEF Whereabouts
<1>5. \A j \in Clients : Whereabouts(j)' =
        (IF j = listener.crew THEN listener.target ELSE Whereabouts(j))
  BY <1>1, <1>3 DEF Whereabouts
<1> QED
  BY <1>2, <1>4, <1>5, ConstantsAssumption DEF ConstantsAssumption, Place, Moved

\* /quit takes a client from its cabin out of the muster.
LEMMA QuitPlace ==
  ASSUME ~TornReads, TypeOK, CrewAccounted, NEW k \in Clients, Quit(k)
  PROVE  /\ Place[k] = curr_cabin[k] /\ curr_cabin[k] \in Cabins
         /\ Moved(Place, Place', k, "gone")
<1>1. /\ client_map' = client_map /\ c_online' = c_online \ {k}
      /\ curr_cabin' = curr_cabin /\ listener'.pc = "board" /\ listener'.crew = k
      /\ session[k] = "in" /\ k \in client_map /\ listener.pc = "idle"
  BY DEF Quit, TakesInput, StartMove, Moving, Idle
<1>2. k \in c_online
  BY <1>1 DEF CrewAccounted
<1>3. Whereabouts(k) = curr_cabin[k] /\ curr_cabin[k] \in Cabins
  BY <1>1, <1>2, NobodyInPassage
<1>4. Whereabouts(k)' = "gone"
  BY <1>1, <1>2 DEF Whereabouts
<1>5. \A j \in Clients \ {k} : Whereabouts(j)' = Whereabouts(j)
  BY <1>1 DEF Whereabouts
<1> QED
  BY <1>3, <1>4, <1>5, ConstantsAssumption DEF ConstantsAssumption, Place, Moved

\* The ACK, and the last step of a move, take nobody anywhere.
LEMMA AckLoginPlace == ASSUME AckLogin PROVE Place' = Place
<1>1. /\ client_map' = client_map /\ c_online' = c_online /\ curr_cabin' = curr_cabin
      /\ listener.pc = "ack" /\ listener'.pc = "board" /\ listener'.crew = listener.crew
  BY DEF AckLogin, Moving, deckVars
<1>2. \A j \in Clients : Whereabouts(j)' = Whereabouts(j)
  BY <1>1 DEF Whereabouts
<1> QED
  BY <1>2 DEF Place

LEMMA SettleInPlace == ASSUME TypeOK, CrewAccounted, SettleIn PROVE Place' = Place
<1>1. /\ client_map' = client_map /\ c_online' = c_online
      /\ listener.pc = "settle" /\ listener'.pc = "idle"
  BY DEF SettleIn, Idle
<1>2. listener.crew \in Clients /\ listener.crew \in c_online
  BY <1>1, MovingType DEF CrewAccounted
<1>3. /\ curr_cabin'[listener.crew] = listener.target
      /\ \A j \in Clients \ {listener.crew} : curr_cabin'[j] = curr_cabin[j]
  BY <1>2 DEF SettleIn, TypeOK
<1>4. \A j \in Clients : Whereabouts(j)' = Whereabouts(j)
  BY <1>1, <1>2, <1>3 DEF Whereabouts, TypeOK
<1> QED
  BY <1>4 DEF Place

LEMMA StayOutPlace == ASSUME TypeOK, CrewAccounted, StayOut PROVE Place' = Place
<1>1. /\ client_map' = client_map /\ c_online' = c_online /\ curr_cabin' = curr_cabin
      /\ listener.pc = "board" /\ listener'.pc = "idle"
  BY DEF StayOut, deckVars, Idle
<1>2. listener.crew \notin c_online
  BY <1>1, MovingType DEF StayOut, MayBoard, CrewAccounted
<1>3. \A j \in Clients : Whereabouts(j)' = Whereabouts(j)
  BY <1>1, <1>2 DEF Whereabouts
<1> QED
  BY <1>3 DEF Place

\* A step that leaves the deck's maps alone takes nobody anywhere.
LEMMA QuietPlace ==
  ASSUME UNCHANGED <<client_map, c_online, curr_cabin, listener>>
  PROVE  Place' = Place
BY DEF Place, Whereabouts

\* Nor does a SEND, which may make an entry, but for no client.
LEMMA TakeSendPlace ==
  ASSUME TypeOK, NEW c \in Cabins, TakeSend(c)
  PROVE  /\ Place' = Place
         /\ client_map' \in {client_map, client_map \cup {NoClient}}
<1>1. toDeck[c] \in Seq(DeckMessage) /\ toDeck[c] # << >>
  BY DEF TakeSend, TypeOK
<1>2. Head(toDeck[c]) \in DeckMessage
  BY <1>1, TailType
<1>3. client_map' = client_map \/ client_map' = client_map \cup {NoClient}
  BY <1>2 DEF TakeSend, TypeOK, DeckMessage
<1>4. \A k \in Clients : k \in client_map' <=> k \in client_map
  BY <1>3, ConstantsAssumption DEF ConstantsAssumption
<1>5. \A k \in Clients : Whereabouts(k)' = Whereabouts(k)
  BY <1>4 DEF Whereabouts, TakeSend
<1> QED
  BY <1>3, <1>5 DEF Place
-----------------------------------------------------------------------------
(* The counts                                                              *)

\* Whoever goes from cabin c to somewhere else is one less in c.
LEMMA CountLeaver ==
  ASSUME NEW f, NEW g, NEW k \in Clients, NEW p, Moved(f, g, k, p)
  PROVE  /\ Cardinality(At(g, f[k])) = Cardinality(At(f, f[k])) - 1
         /\ Cardinality(At(f, f[k])) \in Nat \ {0}
<1>1. At(g, f[k]) = At(f, f[k]) \ {k} /\ k \in At(f, f[k])
  BY DEF At, Moved
<1>2. IsFiniteSet(At(f, f[k]))
  BY ConstantsAssumption, FS_Subset DEF ConstantsAssumption, At
<1>3. At(f, f[k]) # {}
  BY <1>1
<1> QED
  BY <1>1, <1>2, <1>3, FS_RemoveElement, FS_EmptySet, FS_CardinalityType

\* Whoever comes to cabin p from somewhere else is one more in p.
LEMMA CountComer ==
  ASSUME NEW f, NEW g, NEW k \in Clients, NEW p, Moved(f, g, k, p)
  PROVE  /\ Cardinality(At(g, p)) = Cardinality(At(f, p)) + 1
         /\ Cardinality(At(f, p)) \in 0 .. (MaxUint - 1)
<1>1. At(g, p) = At(f, p) \cup {k} /\ k \notin At(f, p)
  BY DEF At, Moved
<1>2. IsFiniteSet(At(f, p)) /\ IsFiniteSet(Clients) /\ At(f, p) \cup {k} \subseteq Clients
  BY ConstantsAssumption, FS_Subset DEF ConstantsAssumption, At
<1>3. Cardinality(At(f, p) \cup {k}) = Cardinality(At(f, p)) + 1
  BY <1>1, <1>2, FS_AddElement
<1>4. Cardinality(At(f, p) \cup {k}) <= Cardinality(Clients)
  BY <1>2, FS_Subset
<1>5. Cardinality(At(f, p)) \in Nat /\ Cardinality(Clients) \in Nat
  BY <1>2, FS_CardinalityType
<1>6. Cardinality(Clients) <= MaxUint /\ MaxUint \in Nat
  BY ConstantsAssumption DEF ConstantsAssumption
<1> QED
  BY <1>1, <1>3, <1>4, <1>5, <1>6

\* Everybody else is counted as before.
LEMMA CountOthers ==
  ASSUME NEW f, NEW g, NEW k \in Clients, NEW p, Moved(f, g, k, p),
         NEW c, c # p, c # f[k]
  PROVE  At(g, c) = At(f, c)
BY DEF At, Moved

\* PlayingCountsCrew, said with the place function, before and after a step.
LEMMA CountsOfPlace ==
  /\ PlayingCountsCrew <=> \A c \in Cabins : curr_playing[c] = Cardinality(At(Place, c))
  /\ PlayingCountsCrew' <=> \A c \in Cabins : curr_playing'[c] = Cardinality(At(Place', c))
  /\ DOMAIN Place = Clients
<1>1. \A c \in Cabins : At(Place, c) = {k \in Clients : Whereabouts(k) = c}
  BY DEF At, Place
<1>2. \A c \in Cabins : At(Place', c) = {k \in Clients : Whereabouts(k)' = c}
  BY DEF At, Place
<1>3. DOMAIN Place = Clients
  BY DEF Place
<1> QED
  BY <1>1, <1>2, <1>3 DEF PlayingCountsCrew

\* Leaving a cabin c for p, which is no cabin, keeps the counts right.
LEMMA CountsAfterLeaving ==
  ASSUME TypeOK, PlayingCountsCrew, NEW k \in Clients, NEW p, p \notin Cabins,
         curr_cabin[k] \in Cabins, Place[k] = curr_cabin[k], LeaveCabin(k),
         Moved(Place, Place', k, p)
  PROVE  PlayingCountsCrew'
<1>1. \A c \in Cabins : curr_playing[c] = Cardinality(At(Place, c))
  BY CountsOfPlace
<1>2. ASSUME NEW c \in Cabins PROVE curr_playing'[c] = Cardinality(At(Place', c))
  <2>1. CASE c = curr_cabin[k]
    <3>1. /\ Cardinality(At(Place', c)) = Cardinality(At(Place, c)) - 1
          /\ Cardinality(At(Place, c)) \in Nat \ {0}
      BY <2>1, CountLeaver, CountsOfPlace
    <3>2. curr_playing'[c] = Decrement(curr_playing[c])
      BY <2>1 DEF LeaveCabin
    <3> QED
      BY <1>1, <3>1, <3>2 DEF Decrement
  <2>2. CASE c # curr_cabin[k]
    <3>1. At(Place', c) = At(Place, c)
      BY <2>2, CountOthers, CountsOfPlace
    <3>2. curr_playing'[c] = curr_playing[c]
      BY <2>2 DEF LeaveCabin
    <3> QED
      BY <1>1, <3>1, <3>2
  <2> QED
    BY <2>1, <2>2
<1> QED
  BY <1>2, CountsOfPlace

\* Every step keeps the counts right.
LEMMA CountsStep ==
  ASSUME ~TornReads
  PROVE  TypeOK /\ CrewAccounted /\ PlayingCountsCrew /\ [Next]_vars
           => PlayingCountsCrew'
<1> SUFFICES ASSUME TypeOK, CrewAccounted, PlayingCountsCrew, [Next]_vars
             PROVE  PlayingCountsCrew'
  OBVIOUS
<1>0. \A c \in Cabins : curr_playing[c] = Cardinality(At(Place, c))
  BY CountsOfPlace
<1>q. ASSUME UNCHANGED curr_playing, Place' = Place PROVE PlayingCountsCrew'
  BY <1>0, <1>q, CountsOfPlace
<1>1. ASSUME NEW k \in Clients, Login(k) PROVE PlayingCountsCrew'
  <2>1. Place[k] = "ashore" /\ Moved(Place, Place', k, "passage")
    BY <1>1, LoginPlace
  <2>2. \A c \in Cabins : At(Place', c) = At(Place, c)
    BY <2>1, CountOthers, CountsOfPlace, ConstantsAssumption DEF ConstantsAssumption
  <2>3. curr_playing' = curr_playing
    BY <1>1 DEF Login, LoginAs
  <2> QED
    BY <1>0, <2>2, <2>3, CountsOfPlace
<1>2. ASSUME AckLogin PROVE PlayingCountsCrew'
  BY <1>2, <1>q, AckLoginPlace DEF AckLogin, deckVars
<1>3. ASSUME NEW k \in Clients, NEW c \in Cabins, ChangeCabin(k, c)
      PROVE  PlayingCountsCrew'
  <2>1. "passage" \notin Cabins
    BY ConstantsAssumption DEF ConstantsAssumption
  <2>2. LeaveCabin(k)
    BY <1>3 DEF ChangeCabin, StartMove
  <2> QED
    BY <1>3, <2>1, <2>2, ChangeCabinPlace, CountsAfterLeaving
<1>4. ASSUME BoardCabin PROVE PlayingCountsCrew'
  <2> DEFINE k == listener.crew
             p == listener.target
  <2>1. /\ k \in Clients /\ p \in Cabins /\ Place[k] = "passage"
        /\ Moved(Place, Place', k, p)
    BY <1>4, BoardCabinPlace
  <2>2. p # Place[k] /\ "passage" \notin Cabins
    BY <2>1, ConstantsAssumption DEF ConstantsAssumption
  <2>3. ASSUME NEW c \in Cabins PROVE curr_playing'[c] = Cardinality(At(Place', c))
    <3>1. CASE c = p
      <4>1. /\ Cardinality(At(Place', c)) = Cardinality(At(Place, c)) + 1
            /\ Cardinality(At(Place, c)) \in 0 .. (MaxUint - 1)
        BY <2>1, <2>2, <3>1, CountComer, CountsOfPlace
      <4>2. curr_playing'[c] = Increment(curr_playing[c])
        BY <1>4, <3>1 DEF BoardCabin, TypeOK
      <4> QED
        BY <1>0, <4>1, <4>2, ConstantsAssumption DEF Increment, ConstantsAssumption
    <3>2. CASE c # p
      <4>1. At(Place', c) = At(Place, c)
        BY <2>1, <2>2, <3>2, CountOthers, CountsOfPlace
      <4>2. curr_playing'[c] = curr_playing[c]
        BY <1>4, <3>2 DEF BoardCabin, TypeOK
      <4> QED
        BY <1>0, <4>1, <4>2
    <3> QED
      BY <3>1, <3>2
  <2> QED
    BY <2>3, CountsOfPlace
<1>5. ASSUME SettleIn PROVE PlayingCountsCrew'
  BY <1>5, <1>q, SettleInPlace DEF SettleIn
<1>6. ASSUME NEW k \in Clients, Quit(k) PROVE PlayingCountsCrew'
  <2>1. "gone" \notin Cabins
    BY ConstantsAssumption DEF ConstantsAssumption
  <2>2. LeaveCabin(k)
    BY <1>6 DEF Quit, StartMove
  <2> QED
    BY <1>6, <2>1, <2>2, QuitPlace, CountsAfterLeaving
<1>7. ASSUME NEW k \in Clients, NEW m \in {Ack, Info}, Answer(k, m)
      PROVE  PlayingCountsCrew'
  BY <1>7, <1>q, QuietPlace DEF Answer, deckVars
<1>8. ASSUME NEW k \in Clients, NEW t \in Texts, Text(k, t) PROVE PlayingCountsCrew'
  BY <1>8, <1>q, QuietPlace DEF Text, deckVars
<1>9. ASSUME NEW c \in Cabins, TakeSend(c) PROVE PlayingCountsCrew'
  BY <1>9, <1>q, TakeSendPlace DEF TakeSend
<1>10. ASSUME Forward PROVE PlayingCountsCrew'
  BY <1>10, <1>q, QuietPlace DEF Forward, deckVars
<1>11. ASSUME NEW c \in Cabins, CabinInput(c) PROVE PlayingCountsCrew'
  BY <1>11, <1>q, QuietPlace DEF CabinInput, deckVars
<1>12. ASSUME NEW k \in Clients, Receive(k) PROVE PlayingCountsCrew'
  BY <1>12, <1>q, QuietPlace DEF Receive, deckVars
<1>14. ASSUME StayOut PROVE PlayingCountsCrew'
  BY <1>14, <1>q, StayOutPlace DEF StayOut, deckVars
<1>13. CASE UNCHANGED vars
  BY <1>13, <1>q, QuietPlace DEF vars, deckVars
<1> QED
  BY <1>1, <1>2, <1>3, <1>4, <1>5, <1>6, <1>7, <1>8, <1>9, <1>10, <1>11, <1>12,
     <1>13, <1>14
     DEF Next, CrewInput, ListenerMove, MissName, MissClient, MissCabin, TornSend

\* PlayingCountsCrew: the "Current playing" of every cabin is the number of
\* crewmates in it, for any number of crewmates a uint32_t can count, if no lookup
\* is torn.
THEOREM CountsCorrect ==
  ASSUME ~TornReads
  PROVE  Spec => []PlayingCountsCrew
<1>1. Init => PlayingCountsCrew
  <2> SUFFICES ASSUME Init PROVE PlayingCountsCrew
    OBVIOUS
  <2>1. \A k \in Clients : Place[k] = "ashore"
    BY DEF Init, Place, Whereabouts
  <2>2. \A c \in Cabins : At(Place, c) = {}
    BY <2>1, ConstantsAssumption DEF ConstantsAssumption, At
  <2> QED
    BY <2>2, CountsOfPlace, FS_EmptySet DEF Init
<1>2. TypeOK /\ CrewAccounted /\ PlayingCountsCrew /\ [Next]_vars => PlayingCountsCrew'
  BY CountsStep
<1> QED
  BY <1>1, <1>2, TypeCorrect, CrewIsAccounted, PTL DEF Spec
-----------------------------------------------------------------------------
(* Who the cabins know                                                     *)

\* What a queue holds after a ROUTER has taken a message, and without its head.
LEMMA RouteContent ==
  ASSUME NEW P, NEW M, NEW chan \in [P -> Seq(M)], NEW peer, NEW m \in M,
         NEW p \in P, NEW i \in DOMAIN Route(chan, peer, m)[p]
  PROVE  \/ i \in DOMAIN chan[p] /\ Route(chan, peer, m)[p][i] = chan[p][i]
         \/ Route(chan, peer, m)[p][i] = m
<1>1. chan[p] \in Seq(M)
  OBVIOUS
<1>2. CASE peer \in DOMAIN chan /\ Len(chan[peer]) < Hwm /\ p = peer
  <2>1. Route(chan, peer, m)[p] = Append(chan[p], m)
    BY <1>2 DEF Route
  <2> QED
    BY <1>1, <2>1
<1>3. CASE ~(peer \in DOMAIN chan /\ Len(chan[peer]) < Hwm /\ p = peer)
  BY <1>3 DEF Route
<1> QED
  BY <1>2, <1>3

LEMMA TailContent ==
  ASSUME NEW M, NEW s \in Seq(M), s # << >>
  PROVE  /\ 1 \in DOMAIN s /\ Head(s) = s[1]
         /\ \A i \in DOMAIN Tail(s) : i + 1 \in DOMAIN s /\ Tail(s)[i] = s[i + 1]
OBVIOUS

LEMMA ConcatContent ==
  ASSUME NEW M, NEW s \in Seq(M), NEW t \in Seq(M), NEW i \in DOMAIN (s \o t)
  PROVE  \/ i \in DOMAIN s /\ (s \o t)[i] = s[i]
         \/ i - Len(s) \in DOMAIN t /\ (s \o t)[i] = t[i - Len(s)]
OBVIOUS

\* The cabins know nobody but clients, after a message about a client too.
CabinsKnow ==
  \A c \in Cabins : \A i \in DOMAIN toCabin[c] : Known(toCabin[c][i].user)

LEMMA SendKnown ==
  ASSUME TypeOK, NEW c, NEW m \in CabinMessage, SendToCabin(c, m), CabinsKnow,
         Known(m.user), UNCHANGED <<crew_name_to_id, client_map>>
  PROVE  CabinsKnow'
<1>1. ASSUME NEW d \in Cabins, NEW i \in DOMAIN toCabin'[d]
      PROVE  Known(toCabin'[d][i].user)
  <2>1. toCabin \in [Cabins -> Seq(CabinMessage)] /\ toCabin' = Route(toCabin, c, m)
    BY DEF TypeOK, SendToCabin
  <2>2. \/ i \in DOMAIN toCabin[d] /\ toCabin'[d][i] = toCabin[d][i]
        \/ toCabin'[d][i] = m
    BY <1>1, <2>1, RouteContent
  <2> QED
    BY <2>2 DEF CabinsKnow
<1> QED
  BY <1>1 DEF CabinsKnow, Known

LEMMA LeaveKnown ==
  ASSUME ~TornReads, TypeOK, NamesKnown, NEW k \in client_map, LeaveCabin(k),
         UNCHANGED <<crew_name_to_id, client_map>>
  PROVE  CabinsKnow'
<1>1. k \in Clients /\ Username(k) = NameOf[k]
  BY DEF TypeOK, NamesKnown, NoPhantomCrew, Username
<1>2. /\ Disconnect(NameOf[k]) \in CabinMessage
      /\ Disconnect(NameOf[k]).user = NameOf[k]
  BY <1>1, MessageTypes DEF Disconnect
<1>3. SendToCabin(curr_cabin[k], Disconnect(NameOf[k])) /\ Known(NameOf[k])
  BY <1>1 DEF LeaveCabin, NamesKnown
<1> QED
  BY <1>2, <1>3, SendKnown DEF CabinsKnow, NamesKnown

\* Every step keeps the names known.
LEMMA NamesKnownStep ==
  ASSUME ~TornReads
  PROVE  TypeOK /\ CrewAccounted /\ NamesKnown /\ [Next]_vars => NamesKnown'
<1> SUFFICES ASSUME TypeOK, CrewAccounted, NamesKnown, [Next]_vars PROVE NamesKnown'
  OBVIOUS
<1>k. ASSUME UNCHANGED <<crew_name_to_id, client_map, users, toDeck>>, CabinsKnow'
      PROVE  NamesKnown'
  BY <1>k DEF NamesKnown, NoPhantomCrew, CabinsKnow, Known
<1>1. ASSUME NEW k \in Clients, Login(k) PROVE NamesKnown'
  <2>1. /\ client_map' = client_map \cup {k}
        /\ crew_name_to_id' = [crew_name_to_id EXCEPT ![NameOf[k]] = k]
        /\ UNCHANGED <<users, toCabin, toDeck>>
    BY <1>1 DEF Login, LoginAs
  <2>2. \A u : Known(u) => Known(u)'
    BY <2>1, ConstantsAssumption DEF Known, TypeOK, ConstantsAssumption
  <2>3. Known(NameOf[k])'
    BY <2>1, MessageTypes, ConstantsAssumption DEF Known, TypeOK, ConstantsAssumption
  <2>4. NoPhantomCrew'
    BY <2>1, ConstantsAssumption DEF NamesKnown, NoPhantomCrew, ConstantsAssumption
  <2> QED
    BY <2>1, <2>2, <2>3, <2>4 DEF NamesKnown
<1>2. ASSUME AckLogin PROVE NamesKnown'
  BY <1>2 DEF AckLogin, deckVars, NamesKnown, NoPhantomCrew, Known
<1>3. ASSUME NEW k \in Clients, NEW c \in Cabins, ChangeCabin(k, c) PROVE NamesKnown'
  BY <1>3, <1>k, LeaveKnown DEF ChangeCabin, TypesCommand, TakesInput, StartMove
<1>4. ASSUME BoardCabin PROVE NamesKnown'
  <2>1. listener.crew \in Clients /\ listener.crew \in client_map
    BY <1>4, MovingType DEF BoardCabin, MayBoard, TypeOK
  <2>2. /\ Join(NameOf[listener.crew]) \in CabinMessage
        /\ Join(NameOf[listener.crew]).user = NameOf[listener.crew]
    BY <2>1, MessageTypes DEF Join
  <2>3. Known(NameOf[listener.crew]) /\ Username(listener.crew) = NameOf[listener.crew]
    BY <2>1 DEF NamesKnown, TypeOK, Username
  <2>4. CabinsKnow'
    BY <1>4, <2>2, <2>3, SendKnown DEF BoardCabin, CabinsKnow, NamesKnown
  <2> QED
    BY <1>4, <2>4, <1>k DEF BoardCabin
<1>5. ASSUME SettleIn PROVE NamesKnown'
  BY <1>5 DEF SettleIn, NamesKnown, NoPhantomCrew, Known
<1>6. ASSUME NEW k \in Clients, Quit(k) PROVE NamesKnown'
  BY <1>6, <1>k, LeaveKnown DEF Quit, TakesInput, StartMove
<1>7. ASSUME NEW k \in Clients, NEW m \in {Ack, Info}, Answer(k, m) PROVE NamesKnown'
  BY <1>7 DEF Answer, deckVars, NamesKnown, NoPhantomCrew, Known
<1>8. ASSUME NEW k \in Clients, NEW t \in Texts, Text(k, t) PROVE NamesKnown'
  <2>1. k \in client_map /\ Known(NameOf[k]) /\ Username(k) = NameOf[k]
    BY <1>8 DEF Text, TakesInput, NamesKnown, TypeOK, Username
  <2>2. /\ RoomText(NameOf[k], t) \in CabinMessage
        /\ RoomText(NameOf[k], t).user = NameOf[k]
    BY <2>1, MessageTypes DEF RoomText
  <2>3. CabinsKnow'
    BY <1>8, <2>1, <2>2, SendKnown DEF Text, deckVars, CabinsKnow, NamesKnown
  <2> QED
    BY <1>8, <2>3, <1>k DEF Text, deckVars
<1>9. ASSUME NEW c \in Cabins, TakeSend(c) PROVE NamesKnown'
  <2>1. /\ UNCHANGED <<crew_name_to_id, users, toCabin>>
        /\ toDeck[c] # << >> /\ toDeck' = [toDeck EXCEPT ![c] = Tail(@)]
    BY <1>9 DEF TakeSend
  <2>3. client_map' = client_map
    <3>1. toDeck[c] \in Seq(DeckMessage)
      BY DEF TypeOK
    <3>2. Known(Head(toDeck[c]).to)
      BY <2>1, <3>1, TailContent DEF NamesKnown
    <3> QED
      BY <1>9, <3>2 DEF TakeSend, Known
  <2>2. \A d \in Cabins : \A i \in DOMAIN toDeck'[d] : Known(toDeck'[d][i].to)
    BY <2>1, TailContent DEF TypeOK, NamesKnown
  <2> QED
    BY <2>1, <2>2, <2>3 DEF NamesKnown, NoPhantomCrew, Known
<1>10. ASSUME Forward PROVE NamesKnown'
  BY <1>10 DEF Forward, deckVars, NamesKnown, NoPhantomCrew, Known
<1>11. ASSUME NEW c \in Cabins, CabinInput(c) PROVE NamesKnown'
  <2> DEFINE m == Head(toCabin[c])
  <2>1. /\ UNCHANGED <<crew_name_to_id, client_map>>
        /\ toCabin[c] # << >> /\ toCabin' = [toCabin EXCEPT ![c] = Tail(@)]
    BY <1>11 DEF CabinInput, deckVars
  <2>2. toCabin[c] \in Seq(CabinMessage)
    BY DEF TypeOK
  <2>3. Known(m.user)
    BY <2>1, <2>2, TailContent DEF NamesKnown
  <2>4. CabinsKnow'
    <3>1. \A d \in Cabins : \A i \in DOMAIN toCabin'[d] : Known(toCabin'[d][i].user)
      BY <2>1, <2>2, TailContent DEF TypeOK, NamesKnown
    <3> QED
      BY <2>1, <3>1 DEF CabinsKnow, Known
  <2>5. \A d \in Cabins : \A u \in users'[d] : Known(u)
    <3>1. users \in [Cabins -> SUBSET Usernames] /\ (\A d \in Cabins : \A u \in users[d] : Known(u))
      BY DEF TypeOK, NamesKnown
    <3>2. \/ \E S : /\ users' = [users EXCEPT ![c] = S]
                    /\ S \subseteq users[c] \cup {m.user}
          \/ users' = users
      BY <1>11 DEF CabinInput
    <3> QED
      BY <2>3, <3>1, <3>2
  <2>6. \A d \in Cabins : \A i \in DOMAIN toDeck'[d] : Known(toDeck'[d][i].to)
    <3>1. CASE m.type = "TEXT"
      <4>1. PICK order \in SetToSeqs(users[c]) :
              toDeck' = [toDeck EXCEPT ![c] = @ \o Broadcast(m, order)]
        BY <1>11, <3>1 DEF CabinInput
      <4>2. users[c] \in SUBSET Usernames /\ m \in CabinMessage /\ toDeck[c] \in Seq(DeckMessage)
        BY <2>1, <2>2, TailType DEF TypeOK
      <4>3. /\ Broadcast(m, order) \in Seq(DeckMessage)
            /\ \A i \in DOMAIN Broadcast(m, order) : Known(Broadcast(m, order)[i].to)
        BY <3>1, <4>2, BroadcastType DEF NamesKnown
      <4>4. \A i \in DOMAIN (toDeck[c] \o Broadcast(m, order)) :
              Known((toDeck[c] \o Broadcast(m, order))[i].to)
        <5>1. \A i \in DOMAIN toDeck[c] : Known(toDeck[c][i].to)
          BY DEF NamesKnown
        <5>2. ASSUME NEW b \in Seq(DeckMessage),
                     \A i \in DOMAIN b : Known(b[i].to)
              PROVE  \A i \in DOMAIN (toDeck[c] \o b) : Known((toDeck[c] \o b)[i].to)
          BY <4>2, <5>1, <5>2, ConcatContent
        <5> QED
          BY <4>3, <5>2
      <4> QED
        BY <4>1, <4>4 DEF TypeOK, NamesKnown
    <3>2. CASE m.type # "TEXT"
      BY <1>11, <3>2 DEF CabinInput, NamesKnown
    <3> QED
      BY <3>1, <3>2
  <2> QED
    BY <2>1, <2>4, <2>5, <2>6 DEF NamesKnown, NoPhantomCrew, CabinsKnow, Known
<1>12. ASSUME NEW k \in Clients, Receive(k) PROVE NamesKnown'
  BY <1>12 DEF Receive, deckVars, NamesKnown, NoPhantomCrew, Known
<1>14. ASSUME StayOut PROVE NamesKnown'
  BY <1>14 DEF StayOut, deckVars, NamesKnown, NoPhantomCrew, Known
<1>13. CASE UNCHANGED vars
  BY <1>13 DEF vars, deckVars, NamesKnown, NoPhantomCrew, Known
<1> QED
  BY <1>1, <1>2, <1>3, <1>4, <1>5, <1>6, <1>7, <1>8, <1>9, <1>10, <1>11, <1>12,
     <1>13, <1>14
     DEF Next, CrewInput, ListenerMove, MissName, MissClient, MissCabin, TornSend

\* Every name that a cabin holds, or is about to read, is that of a client.
THEOREM NamesAreKnown ==
  ASSUME ~TornReads
  PROVE  Spec => []NamesKnown
<1>1. Init => NamesKnown
  BY DEF Init, NamesKnown, NoPhantomCrew
<1>2. TypeOK /\ CrewAccounted /\ NamesKnown /\ [Next]_vars => NamesKnown'
  BY NamesKnownStep
<1> QED
  BY <1>1, <1>2, TypeCorrect, CrewIsAccounted, PTL DEF Spec

\* NoPhantomCrew: operator[] makes no entry for a client that there is not, since
\* a cabin only ever addresses crewmates the deck has an entry for, whatever the
\* threads do in between; unless a lookup is torn.
THEOREM NobodyIsAPhantom ==
  ASSUME ~TornReads
  PROVE  Spec => []NoPhantomCrew
<1>1. NamesKnown => NoPhantomCrew
  BY DEF NamesKnown
<1> QED
  BY <1>1, NamesAreKnown, PTL
-----------------------------------------------------------------------------
(* What a client gets first                                                *)

\* A message to client k changes nobody else's queue, and not the head of k's
\* queue if it has one; it comes first if k has none, or is lost.
LEMMA SendToCrewHead ==
  ASSUME TypeOK, NEW k \in Clients, NEW m \in CrewMessage, SendToCrew(k, m)
  PROVE  /\ \A j \in Clients \ {k} : toCrew'[j] = toCrew[j]
         /\ toCrew[k] # << >> => toCrew'[k] # << >> /\ Head(toCrew'[k]) = Head(toCrew[k])
         /\ toCrew[k] = << >> => \/ toCrew'[k] # << >> /\ Head(toCrew'[k]) = m
                                 \/ k \in dropped'
         /\ dropped \subseteq dropped'
<1>1. toCrew \in [Clients -> Seq(CrewMessage)] /\ toCrew[k] \in Seq(CrewMessage)
  BY DEF TypeOK
<1>2. CASE toCrew' = [toCrew EXCEPT ![k] = Append(@, m)] /\ dropped' = dropped
  <2>1. toCrew'[k] = Append(toCrew[k], m) /\ \A j \in Clients \ {k} : toCrew'[j] = toCrew[j]
    BY <1>1, <1>2
  <2>2. CASE toCrew[k] = << >>
    <3>1. Append(toCrew[k], m) = << m >>
      BY <2>2
    <3> QED
      BY <1>2, <2>1, <2>2, <3>1
  <2>3. CASE toCrew[k] # << >>
    <3>1. Append(toCrew[k], m) # << >> /\ Head(Append(toCrew[k], m)) = Head(toCrew[k])
      BY <1>1, <2>3
    <3> QED
      BY <1>2, <2>1, <2>3, <3>1
  <2> QED
    BY <2>2, <2>3
<1>3. CASE toCrew' = toCrew /\ dropped' = dropped \cup {k}
  BY <1>3
<1> QED
  BY <1>2, <1>3 DEF SendToCrew

\* Every step keeps the replies in order.
LEMMA RepliesOrderedStep ==
  TypeOK /\ CrewAccounted /\ RepliesOrdered /\ [Next]_vars => RepliesOrdered'
<1> SUFFICES ASSUME TypeOK, CrewAccounted, RepliesOrdered, [Next]_vars
             PROVE  RepliesOrdered'
  OBVIOUS
<1>q. ASSUME UNCHANGED <<toCrew, curr_cabin, services, session, listener>>,
             dropped \subseteq dropped'
      PROVE  RepliesOrdered'
  BY <1>q DEF RepliesOrdered, OutOfReach
<1>1. ASSUME NEW k \in Clients, Login(k) PROVE RepliesOrdered'
  <2>1. /\ toCrew' = toCrew /\ services' = services /\ session[k] = "out"
        /\ dropped' = dropped
        /\ session' = [session EXCEPT ![k] = "waiting"]
        /\ curr_cabin' = [curr_cabin EXCEPT ![k] = NoCabin]
        /\ listener.pc = "idle" /\ listener'.pc = "ack" /\ listener'.crew = k
    BY <1>1 DEF Login, LoginAs, Moving, Idle
  <2> QED
    BY <2>1 DEF RepliesOrdered, OutOfReach, TypeOK
<1>2. ASSUME AckLogin PROVE RepliesOrdered'
  <2>1. /\ curr_cabin' = curr_cabin /\ services' = services /\ session' = session
        /\ listener.pc = "ack" /\ listener'.pc = "board"
        /\ SendToCrew(listener.crew, Ack)
    BY <1>2 DEF AckLogin, Moving, deckVars
  <2>2. listener.crew \in Clients /\ Ack \in CrewMessage
    BY <2>1, MovingType, MessageTypes
  <2>3. session[listener.crew] # "out"
    BY <2>1, <2>2 DEF CrewAccounted, TypeOK
  <2>4. /\ \A j \in Clients \ {listener.crew} : toCrew'[j] = toCrew[j]
        /\ toCrew[listener.crew] # << >> =>
             /\ toCrew'[listener.crew] # << >>
             /\ Head(toCrew'[listener.crew]) = Head(toCrew[listener.crew])
        /\ toCrew[listener.crew] = << >> =>
             \/ toCrew'[listener.crew] # << >> /\ Head(toCrew'[listener.crew]) = Ack
             \/ listener.crew \in dropped'
        /\ dropped \subseteq dropped'
    BY <2>1, <2>2, SendToCrewHead
  <2> QED
    BY <2>1, <2>2, <2>3, <2>4 DEF RepliesOrdered, OutOfReach
<1>3. ASSUME NEW k \in Clients, NEW c \in Cabins, ChangeCabin(k, c) PROVE RepliesOrdered'
  <2>1. /\ UNCHANGED <<toCrew, curr_cabin, services, session>>
        /\ dropped \subseteq dropped' /\ listener.pc = "idle"
    BY <1>3 DEF ChangeCabin, TypesCommand, TakesInput, StartMove, LeaveCabin, SendToCabin, Idle
  <2> QED
    BY <2>1 DEF RepliesOrdered, OutOfReach
<1>4. ASSUME BoardCabin PROVE RepliesOrdered'
  <2>1. /\ UNCHANGED <<toCrew, curr_cabin, services, session>>
        /\ dropped \subseteq dropped' /\ listener.pc = "board"
    BY <1>4 DEF BoardCabin, MayBoard, SendToCabin
  <2> QED
    BY <2>1 DEF RepliesOrdered, OutOfReach
<1>5. ASSUME SettleIn PROVE RepliesOrdered'
  <2>1. /\ toCrew' = toCrew /\ services' = services /\ session' = session
        /\ dropped' = dropped /\ listener.pc = "settle"
    BY <1>5 DEF SettleIn
  <2>2. listener.crew \in Clients /\ session[listener.crew] # "out"
    BY <2>1, MovingType DEF CrewAccounted, TypeOK
  <2>3. \A j \in Clients \ {listener.crew} : curr_cabin'[j] = curr_cabin[j]
    BY <1>5 DEF SettleIn, TypeOK
  <2> QED
    BY <2>1, <2>2, <2>3 DEF RepliesOrdered, OutOfReach
<1>6. ASSUME NEW k \in Clients, Quit(k) PROVE RepliesOrdered'
  <2>1. /\ toCrew' = toCrew /\ services' = services /\ curr_cabin' = curr_cabin
        /\ session' = [session EXCEPT ![k] = "left"]
        /\ dropped \subseteq dropped' /\ listener.pc = "idle"
    BY <1>6 DEF Quit, TakesInput, StartMove, LeaveCabin, SendToCabin, Idle
  <2> QED
    BY <2>1 DEF RepliesOrdered, OutOfReach, TypeOK
<1>7. ASSUME NEW k \in Clients, NEW m \in {Ack, Info}, Answer(k, m) PROVE RepliesOrdered'
  <2>1. /\ curr_cabin' = curr_cabin /\ services' = services /\ session' = session
        /\ listener' = listener /\ session[k] = "in" /\ SendToCrew(k, m)
    BY <1>7 DEF Answer, TypesCommand, TakesInput, deckVars
  <2>2. dropped \subseteq dropped' /\ \A j \in Clients \ {k} : toCrew'[j] = toCrew[j]
    BY <2>1, MessageTypes, SendToCrewHead
  <2> QED
    BY <2>1, <2>2 DEF RepliesOrdered, OutOfReach
<1>8. ASSUME NEW k \in Clients, NEW t \in Texts, Text(k, t) PROVE RepliesOrdered'
  BY <1>8, <1>q DEF Text, SendToCabin, deckVars
<1>9. ASSUME NEW c \in Cabins, TakeSend(c) PROVE RepliesOrdered'
  <2>1. UNCHANGED <<toCrew, curr_cabin, session, listener, dropped>>
    BY <1>9 DEF TakeSend
  <2>2. services'.pc = "forward" => curr_cabin[services'.crew] # NoCabin
    BY <1>9, ConstantsAssumption DEF TakeSend, Serving, Idle, ConstantsAssumption
  <2> QED
    BY <2>1, <2>2 DEF RepliesOrdered, OutOfReach
<1>10. ASSUME Forward PROVE RepliesOrdered'
  <2> DEFINE k == services.crew
             m == CrewText(services.from, services.text)
  <2>1. /\ UNCHANGED <<curr_cabin, session, listener>>
        /\ services.pc = "forward" /\ services'.pc = "idle" /\ SendToCrew(k, m)
    BY <1>10 DEF Forward, deckVars, Idle
  <2>2. k \in Clients /\ m \in CrewMessage
    BY <2>1, MessageTypes DEF TypeOK, Idle
  <2>3. /\ \A j \in Clients \ {k} : toCrew'[j] = toCrew[j]
        /\ toCrew[k] # << >> => toCrew'[k] # << >> /\ Head(toCrew'[k]) = Head(toCrew[k])
        /\ dropped \subseteq dropped'
    BY <2>1, <2>2, SendToCrewHead
  <2>4. ~OutOfReach(k)
    BY <2>1 DEF OutOfReach
  <2> QED
    BY <2>1, <2>2, <2>3, <2>4 DEF RepliesOrdered, OutOfReach
<1>11. ASSUME NEW c \in Cabins, CabinInput(c) PROVE RepliesOrdered'
  BY <1>11, <1>q DEF CabinInput, deckVars
<1>12. ASSUME NEW k \in Clients, Receive(k) PROVE RepliesOrdered'
  <2>1. /\ UNCHANGED <<curr_cabin, services, listener, dropped>>
        /\ toCrew' = [toCrew EXCEPT ![k] = Tail(@)]
        /\ session' = [session EXCEPT ![k] = "in"]
    BY <1>12 DEF Receive, deckVars
  <2> QED
    BY <2>1 DEF RepliesOrdered, OutOfReach, TypeOK
<1>14. ASSUME NEW c \in Cabins, MissName(c) \/ MissCabin(c) PROVE RepliesOrdered'
  BY <1>14, <1>q DEF MissName, MissCabin, TornSend
<1>15. ASSUME NEW c \in Cabins, MissClient(c) PROVE RepliesOrdered'
  <2>1. /\ UNCHANGED <<toCrew, services, session, listener, dropped>>
        /\ \A j \in Clients : curr_cabin[j] = NoCabin => curr_cabin'[j] = NoCabin
    BY <1>15 DEF MissClient, TornSend, TypeOK
  <2> QED
    BY <2>1 DEF RepliesOrdered, OutOfReach
<1>16. ASSUME StayOut PROVE RepliesOrdered'
  BY <1>16 DEF StayOut, deckVars, RepliesOrdered, OutOfReach
<1>13. CASE UNCHANGED vars
  BY <1>13, <1>q DEF vars, deckVars
<1> QED
  BY <1>1, <1>2, <1>3, <1>4, <1>5, <1>6, <1>7, <1>8, <1>9, <1>10, <1>11, <1>12,
     <1>13, <1>14, <1>15, <1>16 DEF Next, CrewInput, ListenerMove

\* A client that waits has its ACK first, or nothing that could precede it.
THEOREM RepliesAreOrdered == Spec => []RepliesOrdered
<1>1. Init => RepliesOrdered
  BY DEF Init, RepliesOrdered, OutOfReach, Idle
<1> QED
  BY <1>1, RepliesOrderedStep, TypeCorrect, CrewIsAccounted, PTL DEF Spec

\* FirstReplyIsAck: the first message a client gets answers its LOGIN, unless
\* one to it was dropped; torn lookups do not change that.
THEOREM AckComesFirst == Spec => []FirstReplyIsAck
<1>1. RepliesOrdered => FirstReplyIsAck
  BY DEF RepliesOrdered, FirstReplyIsAck, AckFirst, OutOfReach
<1> QED
  BY <1>1, RepliesAreOrdered, PTL
-----------------------------------------------------------------------------
(* The text that goes astray                                               *)

(***************************************************************************)
(* What deck_toctou finds is all there is to find: a text on its way to a  *)
(* client becomes foreign to it in one kind of step only, when the other   *)
(* thread ends a move of this very client between the check of the SEND    *)
(* and the sending (Shipdeck.cpp:188-206).  A login, a quit or a move of   *)
(* anybody else, a namesake included, never makes it so.                   *)
(***************************************************************************)
ForeignByMoveOnly ==
  [][NoForeignText /\ ~NoForeignText' =>
       SettleIn /\ services.pc = "forward" /\ listener.crew = services.crew]_vars

THEOREM ForeignMeansMoved == Spec => ForeignByMoveOnly
<1>1. TypeOK /\ CrewAccounted /\ RepliesOrdered /\ [Next]_vars =>
        [NoForeignText /\ ~NoForeignText' =>
           SettleIn /\ services.pc = "forward" /\ listener.crew = services.crew]_vars
  <2> SUFFICES ASSUME TypeOK, CrewAccounted, RepliesOrdered, [Next]_vars,
                      NoForeignText, ~NoForeignText'
               PROVE  SettleIn /\ services.pc = "forward" /\ listener.crew = services.crew
    OBVIOUS
  <2>1. services'.pc = "forward" /\ curr_cabin'[services'.crew] # services'.cabin
    BY DEF NoForeignText
  <2>2. UNCHANGED services => curr_cabin'[services.crew] # curr_cabin[services.crew]
                               /\ services.pc = "forward" /\ services.crew \in Clients
    BY <2>1 DEF NoForeignText, TypeOK, Idle
  <2>3. ASSUME NEW k \in Clients PROVE ~Login(k)
    <3> SUFFICES ASSUME Login(k) PROVE FALSE
      OBVIOUS
    <3>1. session[k] = "out" /\ UNCHANGED services
          /\ curr_cabin' = [curr_cabin EXCEPT ![k] = NoCabin]
      BY DEF Login, LoginAs
    <3>2. services.pc = "forward" => services.crew # k
      BY <3>1 DEF RepliesOrdered, OutOfReach
    <3> QED
      BY <2>2, <3>1, <3>2 DEF TypeOK
  <2>4. ASSUME NEW c \in Cabins PROVE ~TakeSend(c)
    <3> SUFFICES ASSUME TakeSend(c) PROVE FALSE
      OBVIOUS
    <3>1. PICK k : services' = Serving(k, c, Head(toDeck[c])) /\ curr_cabin[k] = c
      BY <2>1 DEF TakeSend, Idle
    <3> QED
      BY <2>1, <3>1 DEF TakeSend, Serving
  <2>5. ~Forward
    BY <2>1 DEF Forward, Idle
  <2>6. ASSUME SettleIn
        PROVE  services.pc = "forward" /\ listener.crew = services.crew
    BY <2>2, <2>6 DEF SettleIn, TypeOK
  <2>7. UNCHANGED <<services, curr_cabin>> => FALSE
    BY <2>2
  <2>8. ASSUME NEW c \in Cabins PROVE ~TornSend(c)
    BY <2>1 DEF TornSend, Idle
  <2> QED
    BY <2>3, <2>4, <2>5, <2>6, <2>7, <2>8
       DEF Next, CrewInput, ListenerMove, ChangeCabin, Quit, Answer, Text, AckLogin,
           BoardCabin, StayOut, CabinInput, Receive, MissName, MissClient, MissCabin,
           deckVars, vars
<1> QED
  BY <1>1, TypeCorrect, CrewIsAccounted, RepliesAreOrdered, PTL DEF Spec, ForeignByMoveOnly
-----------------------------------------------------------------------------
(* The deck implements the muster roll                                     *)

\* A move of one client, with the counts right before and after it, is what
\* the muster roll calls going to a place.
LEMMA RollGo ==
  ASSUME TypeOK', PlayingCountsCrew', NEW k \in Clients, NEW p,
         Moved(Place, Place', k, p)
  PROVE  Roll!Go(k, p)
<1>1. Place' = [Place EXCEPT ![k] = p]
  BY DEF Moved, Place
<1>2. curr_playing' = Roll!HeadCount(Place')
  <2>1. curr_playing' = [c \in Cabins |-> curr_playing'[c]]
    BY DEF TypeOK
  <2>2. \A c \in Cabins : curr_playing'[c] = Cardinality({j \in Clients : Place'[j] = c})
    BY CountsOfPlace DEF At
  <2>3. \A S : Roll!Cardinality(S) = Cardinality(S)
    BY DEF Roll!Cardinality, Cardinality, Roll!IsFiniteSet, IsFiniteSet
  <2> QED
    BY <2>1, <2>2, <2>3 DEF Roll!HeadCount
<1> QED
  BY <1>1, <1>2 DEF Roll!Go

\* Every step is a step of the muster roll, or none.
LEMMA RollStep ==
  ASSUME ~TornReads
  PROVE  /\ TypeOK /\ CrewAccounted /\ PlayingCountsCrew
         /\ TypeOK' /\ PlayingCountsCrew'
         /\ [Next]_vars
         => [Roll!Next]_(Roll!vars)
<1> SUFFICES ASSUME TypeOK, CrewAccounted, PlayingCountsCrew,
                    TypeOK', PlayingCountsCrew', [Next]_vars
             PROVE  [Roll!Next]_(Roll!vars)
  OBVIOUS
<1>q. ASSUME UNCHANGED curr_playing, Place' = Place PROVE [Roll!Next]_(Roll!vars)
  BY <1>q DEF Roll!vars
<1>p. ASSUME listener.pc = "idle" PROVE Roll!PassageFree
  BY <1>p, NobodyInPassage DEF Roll!PassageFree, Place
<1>1. ASSUME NEW k \in Clients, Login(k) PROVE [Roll!Next]_(Roll!vars)
  <2>1. Place[k] = "ashore" /\ Roll!Go(k, "passage")
    BY <1>1, LoginPlace, RollGo
  <2>2. Roll!PassageFree
    BY <1>1, <1>p DEF Login, LoginAs, Idle
  <2> QED
    BY <2>1, <2>2 DEF Roll!Next, Roll!Embark
<1>2. ASSUME AckLogin PROVE [Roll!Next]_(Roll!vars)
  BY <1>2, <1>q, AckLoginPlace DEF AckLogin, deckVars
<1>3. ASSUME NEW k \in Clients, NEW c \in Cabins, ChangeCabin(k, c)
      PROVE  [Roll!Next]_(Roll!vars)
  <2>1. Place[k] \in Cabins /\ Roll!Go(k, "passage")
    BY <1>3, ChangeCabinPlace, RollGo
  <2>2. Roll!PassageFree
    BY <1>3, <1>p DEF ChangeCabin, TypesCommand, TakesInput, Idle
  <2> QED
    BY <2>1, <2>2 DEF Roll!Next, Roll!CastOff
<1>4. ASSUME BoardCabin PROVE [Roll!Next]_(Roll!vars)
  <2>1. /\ listener.crew \in Clients /\ listener.target \in Cabins
        /\ Place[listener.crew] = "passage"
        /\ Roll!Go(listener.crew, listener.target)
    BY <1>4, BoardCabinPlace, RollGo
  <2> QED
    BY <2>1 DEF Roll!Next, Roll!Board
<1>5. ASSUME SettleIn PROVE [Roll!Next]_(Roll!vars)
  BY <1>5, <1>q, SettleInPlace DEF SettleIn
<1>6. ASSUME NEW k \in Clients, Quit(k) PROVE [Roll!Next]_(Roll!vars)
  <2>1. Place[k] \in Cabins /\ Roll!Go(k, "gone")
    BY <1>6, QuitPlace, RollGo
  <2>2. Roll!PassageFree
    BY <1>6, <1>p DEF Quit, TakesInput, Idle
  <2> QED
    BY <2>1, <2>2 DEF Roll!Next, Roll!Disembark
<1>7. ASSUME NEW k \in Clients, NEW m \in {Ack, Info}, Answer(k, m)
      PROVE  [Roll!Next]_(Roll!vars)
  BY <1>7, <1>q, QuietPlace DEF Answer, deckVars
<1>8. ASSUME NEW k \in Clients, NEW t \in Texts, Text(k, t)
      PROVE  [Roll!Next]_(Roll!vars)
  BY <1>8, <1>q, QuietPlace DEF Text, deckVars
<1>9. ASSUME NEW c \in Cabins, TakeSend(c) PROVE [Roll!Next]_(Roll!vars)
  BY <1>9, <1>q, TakeSendPlace DEF TakeSend
<1>10. ASSUME Forward PROVE [Roll!Next]_(Roll!vars)
  BY <1>10, <1>q, QuietPlace DEF Forward, deckVars
<1>11. ASSUME NEW c \in Cabins, CabinInput(c) PROVE [Roll!Next]_(Roll!vars)
  BY <1>11, <1>q, QuietPlace DEF CabinInput, deckVars
<1>12. ASSUME NEW k \in Clients, Receive(k) PROVE [Roll!Next]_(Roll!vars)
  BY <1>12, <1>q, QuietPlace DEF Receive, deckVars
<1>14. ASSUME StayOut PROVE [Roll!Next]_(Roll!vars)
  BY <1>14, <1>q, StayOutPlace DEF StayOut, deckVars
<1>13. CASE UNCHANGED vars
  BY <1>13, <1>q, QuietPlace DEF vars, deckVars
<1> QED
  BY <1>1, <1>2, <1>3, <1>4, <1>5, <1>6, <1>7, <1>8, <1>9, <1>10, <1>11, <1>12,
     <1>13, <1>14
     DEF Next, CrewInput, ListenerMove, MissName, MissClient, MissCabin, TornSend

\* FollowsMuster: the deck, with its threads and queues, does what the module
\* Muster says of where the crew is and of the numbers the cabins show, if no
\* lookup is torn.
THEOREM DeckImplementsMuster ==
  ASSUME ~TornReads
  PROVE  Spec => FollowsMuster
<1>1. Init => Roll!Init
  BY DEF Init, Roll!Init, Place, Whereabouts
<1>2. TypeOK /\ CrewAccounted /\ PlayingCountsCrew /\ TypeOK' /\ PlayingCountsCrew'
        /\ [Next]_vars => [Roll!Next]_(Roll!vars)
  BY RollStep
<1> QED
  BY <1>1, <1>2, TypeCorrect, CrewIsAccounted, CountsCorrect, PTL
     DEF Spec, FollowsMuster, Roll!Spec
=============================================================================
