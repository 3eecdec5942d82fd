------------------------- MODULE ServerProxyProofs -------------------------
(***************************************************************************)
(* Theorems about ServerProxy, for any clients, ships and bodies: the      *)
(* types, and the state of its sockets.  LinkProofs has the refinement.    *)
(***************************************************************************)
EXTENDS ServerProxy, SequenceTheorems, TLAPS

\* The last frame of whatever is sent is a body: all that the deck finds
\* behind the id of a client, even in a message that two threads have mixed.
EndsInBody(s) == s # << >> /\ s[Len(s)] \in Bodies

\* The types as they are preserved.  A round that has a reply to read finds it.
Wired ==
  /\ TrafficOK
  /\ \A t \in Threads : Idle(t) \/ EndsInBody(sending[t])
  /\ \A i \in DOMAIN toDeck : EndsInBody(toDeck[i])
  /\ round.reply => toServer # << >>

LEMMA ThreadNames ==
  /\ DeckThreads \subseteq Threads
  /\ "client_listener" \in Threads /\ "ship_listener" \in Threads
  /\ "server_listener" \in Threads /\ "services_listener" \in Threads
  /\ \A t \in Threads : SocketOf(t) \in {"server_router", "shipdeck_dealer"}
BY DEF DeckThreads, Threads, SocketOf

LEMMA FrameNames ==
  /\ Clients \subseteq Frames /\ Ships \subseteq Frames /\ Bodies \subseteq Frames
  /\ "S" \in Frames /\ "" \in Frames
BY DEF Frames

\* What is left to send of a message of several frames.
LEMMA RestEnds ==
  ASSUME NEW s \in Seq(Frames), EndsInBody(s), Len(s) > 1
  PROVE  Tail(s) \in Seq(Frames) /\ EndsInBody(Tail(s))
<1>1. /\ Tail(s) \in Seq(Frames) /\ Len(Tail(s)) = Len(s) - 1
      /\ \A i \in 1 .. Len(s) - 1 : Tail(s)[i] = s[i + 1]
  OBVIOUS
<1>2. Len(s) \in Nat /\ Len(s) - 1 \in 1 .. Len(s) - 1 /\ Len(s) - 1 + 1 = Len(s)
  OBVIOUS
<1>3. Tail(s)[Len(s) - 1] = s[Len(s)]
  BY <1>1, <1>2
<1> QED
  BY <1>1, <1>2, <1>3 DEF EndsInBody

\* A queue of messages that end in a body, one more and one less.
LEMMA QueueEnds ==
  ASSUME NEW q \in Seq(Seq(Frames)), \A i \in DOMAIN q : EndsInBody(q[i])
  PROVE  /\ \A m \in Seq(Frames) : EndsInBody(m) =>
              /\ Append(q, m) \in Seq(Seq(Frames))
              /\ \A i \in DOMAIN Append(q, m) : EndsInBody(Append(q, m)[i])
         /\ q # << >> =>
              /\ Head(q) \in Seq(Frames) /\ EndsInBody(Head(q))
              /\ Tail(q) \in Seq(Seq(Frames))
              /\ \A i \in DOMAIN Tail(q) : EndsInBody(Tail(q)[i])
<1>1. ASSUME NEW m \in Seq(Frames), EndsInBody(m)
      PROVE  /\ Append(q, m) \in Seq(Seq(Frames))
             /\ \A i \in DOMAIN Append(q, m) : EndsInBody(Append(q, m)[i])
  <2>1. /\ Append(q, m) \in Seq(Seq(Frames))
        /\ \A i \in DOMAIN Append(q, m) : (i \in DOMAIN q /\ Append(q, m)[i] = q[i])
                                            \/ Append(q, m)[i] = m
    OBVIOUS
  <2> QED
    BY <1>1, <2>1
<1>2. ASSUME q # << >>
      PROVE  /\ Head(q) \in Seq(Frames) /\ EndsInBody(Head(q))
             /\ Tail(q) \in Seq(Seq(Frames))
             /\ \A i \in DOMAIN Tail(q) : EndsInBody(Tail(q)[i])
  <2>1. /\ 1 \in DOMAIN q /\ Head(q) = q[1] /\ Head(q) \in Seq(Frames)
        /\ Tail(q) \in Seq(Seq(Frames))
        /\ \A i \in DOMAIN Tail(q) : i + 1 \in DOMAIN q /\ Tail(q)[i] = q[i + 1]
    BY <1>2
  <2> QED
    BY <2>1
<1> QED
  BY <1>1, <1>2

\* Short messages.
LEMMA ShortMessages ==
  ASSUME NEW b \in Bodies, NEW x \in Frames, NEW y \in Frames
  PROVE  /\ <<x, b>> \in Seq(Frames) /\ EndsInBody(<<x, b>>)
         /\ <<x, y, b>> \in Seq(Frames) /\ EndsInBody(<<x, y, b>>)
<1>1. b \in Frames
  BY FrameNames
<1>2. <<x, b>> \in Seq(Frames) /\ Len(<<x, b>>) = 2 /\ <<x, b>>[2] = b /\ <<x, b>> # << >>
  BY <1>1
<1>3. /\ <<x, y, b>> \in Seq(Frames) /\ Len(<<x, y, b>>) = 3
      /\ <<x, y, b>>[3] = b /\ <<x, y, b>> # << >>
  BY <1>1
<1> QED
  BY <1>2, <1>3 DEF EndsInBody

\* A message gets a frame more.
LEMMA OneMore ==
  ASSUME NEW q \in Seq(Frames), NEW f \in Frames
  PROVE  /\ Append(q, f) \in Seq(Frames) /\ Append(q, f) # << >>
         /\ Append(q, f)[Len(Append(q, f))] = f
         /\ Head(Append(q, f)) \in Frames /\ Tail(Append(q, f)) \in Seq(Frames)
OBVIOUS

\* The first frame of a message, and the only one.
LEMMA FirstFrame ==
  ASSUME NEW q \in Seq(Frames), q # << >>
  PROVE  /\ Head(q) \in Frames /\ Tail(q) \in Seq(Frames)
         /\ ~(Len(q) > 1) => Head(q) = q[Len(q)] /\ Tail(q) = << >>
<1>1. /\ Head(q) \in Frames /\ Tail(q) \in Seq(Frames) /\ Head(q) = q[1]
      /\ Len(q) \in Nat /\ Len(q) # 0 /\ Len(Tail(q)) = Len(q) - 1
  BY HeadTailProperties, EmptySeq, LenProperties
<1>2. ASSUME ~(Len(q) > 1) PROVE Len(q) = 1 /\ Tail(q) = << >>
  <2>1. Len(q) = 1
    BY <1>1, <1>2
  <2>2. Len(Tail(q)) = 0
    BY <2>1, <1>1
  <2> QED
    BY <2>1, <2>2, <1>1, EmptySeq
<1> QED
  BY <1>1, <1>2

LEMMA WriteFrameWired ==
  ASSUME Wired, NEW t \in Threads, WriteFrame(t)
  PROVE  Wired'
<1> DEFINE s == SocketOf(t)
           f == Head(sending[t])
           m == Append(partial[s], f)
<1>1. /\ sending \in [Threads -> Seq(Frames)] /\ sending[t] \in Seq(Frames)
      /\ sending[t] # << >> /\ EndsInBody(sending[t])
      /\ partial \in [{"server_router", "shipdeck_dealer"} -> Seq(Frames)]
      /\ s \in {"server_router", "shipdeck_dealer"} /\ partial[s] \in Seq(Frames)
  BY ThreadNames DEF Wired, TrafficOK, WriteFrame, Idle
<1>2. /\ f \in Frames /\ m \in Seq(Frames) /\ m # << >> /\ m[Len(m)] = f
      /\ Tail(m) \in Seq(Frames)
  BY <1>1, FirstFrame, OneMore
<1>3. /\ sending' = [sending EXCEPT ![t] = Tail(@)]
      /\ begun' \subseteq Threads /\ mixed' \subseteq {"server_router", "shipdeck_dealer"}
      /\ UNCHANGED <<unsaid, fromClient, fromShips, round, heard, inbox>>
  BY <1>1 DEF WriteFrame, outside, Wired, TrafficOK
<1>4. CASE Len(sending[t]) > 1
  <2>1. Tail(sending[t]) \in Seq(Frames) /\ EndsInBody(Tail(sending[t]))
    BY <1>1, <1>4, RestEnds
  <2>2. partial' = [partial EXCEPT ![s] = m] /\ UNCHANGED <<toDeck, toServer>>
    BY <1>4 DEF WriteFrame
  <2> QED
    BY <1>1, <1>2, <1>3, <2>1, <2>2 DEF Wired, TrafficOK, Idle
<1>5. CASE ~(Len(sending[t]) > 1)
  <2>1. Tail(sending[t]) = << >> /\ f = sending[t][Len(sending[t])]
    BY <1>1, <1>5, FirstFrame
  <2>2. EndsInBody(m)
    BY <1>1, <1>2, <2>1 DEF EndsInBody
  <2>3. partial' = [partial EXCEPT ![s] = << >>] /\ Arrive(s, m)
    BY <1>5 DEF WriteFrame
  <2>4. /\ toDeck' \in Seq(Seq(Frames))
        /\ \A i \in DOMAIN toDeck' : EndsInBody(toDeck'[i])
    <3>1. toDeck' = toDeck \/ toDeck' = Append(toDeck, m)
      BY <2>3 DEF Arrive
    <3>2. toDeck \in Seq(Seq(Frames)) /\ \A i \in DOMAIN toDeck : EndsInBody(toDeck[i])
      BY DEF Wired, TrafficOK
    <3>3. /\ Append(toDeck, m) \in Seq(Seq(Frames))
          /\ \A i \in DOMAIN Append(toDeck, m) : EndsInBody(Append(toDeck, m)[i])
      BY <1>2, <2>2, <3>2, QueueEnds
    <3> QED
      BY <3>1, <3>2, <3>3
  <2>5. toServer' \in Seq(Seq(Frames)) /\ (toServer # << >> => toServer' # << >>)
    <3>1. toServer' = toServer \/ toServer' = Append(toServer, Tail(m))
      BY <2>3 DEF Arrive
    <3>2. toServer \in Seq(Seq(Frames))
      BY DEF Wired, TrafficOK
    <3>3. Append(toServer, Tail(m)) \in Seq(Seq(Frames)) /\ Append(toServer, Tail(m)) # << >>
      BY <1>2, <3>2, AppendProperties
    <3> QED
      BY <3>1, <3>2, <3>3
  <2>6. sending' \in [Threads -> Seq(Frames)] /\ \A u \in Threads : Idle(u)' \/ EndsInBody(sending'[u])
    BY <1>1, <1>3, <2>1 DEF Wired, Idle
  <2>7. partial' \in [{"server_router", "shipdeck_dealer"} -> Seq(Frames)]
    BY <1>1, <2>3
  <2> QED
    BY <1>3, <2>4, <2>5, <2>6, <2>7 DEF Wired, TrafficOK
<1> QED
  BY <1>4, <1>5

LEMMA WiredStep == Wired /\ [Step]_traffic => Wired'
<1> SUFFICES ASSUME Wired, [Step]_traffic
             PROVE  Wired'
  OBVIOUS
<1>t. TrafficOK /\ sending \in [Threads -> Seq(Frames)]
  BY DEF Wired, TrafficOK
<1>1. ASSUME NEW k \in Clients, NEW b \in Bodies, Type(k, b) PROVE Wired'
  BY <1>1 DEF Type, Wired, TrafficOK, Idle, wires
<1>2. ASSUME NEW p \in Ships, NEW b \in Bodies, ShipSends(p, b) PROVE Wired'
  BY <1>2 DEF ShipSends, Wired, TrafficOK, Idle, wires
<1>3. ASSUME NEW k \in Clients, NEW b \in Bodies, Post(k, b) PROVE Wired'
  <2>1. Header(k, b) \in Seq(Frames) /\ EndsInBody(Header(k, b))
    BY FrameNames, ShortMessages DEF Header
  <2> QED
    BY <1>3, <1>t, <2>1, ThreadNames DEF Post, Wired, TrafficOK, Idle, wires
<1>4. ASSUME NEW t \in Threads, WriteFrame(t) PROVE Wired'
  BY <1>4, WriteFrameWired
<1>5. CASE DeckTakes
  <2> DEFINE m == Head(toDeck)
  <2>1. /\ m \in Seq(Frames) /\ EndsInBody(m)
        /\ Tail(toDeck) \in Seq(Seq(Frames))
        /\ \A i \in DOMAIN Tail(toDeck) : EndsInBody(Tail(toDeck)[i])
    BY <1>5, QueueEnds DEF DeckTakes, Wired, TrafficOK
  <2>2. Len(m) = 2 => m[2] \in Bodies
    BY <2>1 DEF EndsInBody
  <2>3. heard' \in [Clients -> Seq(Bodies)]
    <3>1. heard \in [Clients -> Seq(Bodies)]
      BY DEF Wired, TrafficOK
    <3>2. CASE Len(m) = 2 /\ m[1] \in Clients
      <4>1. heard' = [heard EXCEPT ![m[1]] = Append(@, m[2])]
        BY <1>5, <3>2 DEF DeckTakes
      <4>2. Append(heard[m[1]], m[2]) \in Seq(Bodies)
        BY <2>2, <3>1, <3>2
      <4> QED
        BY <3>1, <4>1, <4>2
    <3>3. CASE ~(Len(m) = 2 /\ m[1] \in Clients)
      BY <1>5, <3>1, <3>3 DEF DeckTakes
    <3> QED
      BY <3>2, <3>3
  <2>4. ASSUME NEW k \in Clients, NEW b \in Bodies
        PROVE  Header(k, b) \in Seq(Frames) /\ EndsInBody(Header(k, b))
    BY FrameNames, ShortMessages DEF Header
  <2>5. unsaid' \subseteq Bodies
    BY <1>5 DEF DeckTakes, Wired, TrafficOK
  <2>6. /\ sending' \in [Threads -> Seq(Frames)]
        /\ \A t \in Threads : Idle(t)' \/ EndsInBody(sending'[t])
    <3>1. CASE sending' = sending
      BY <3>1, <1>t DEF Wired, Idle
    <3>2. CASE \E k \in Clients, b \in Bodies :
                 sending' = [sending EXCEPT !["server_listener"] = Header(k, b)]
      BY <3>2, <1>t, <2>4 DEF Wired, Idle
    <3> QED
      BY <1>5, <3>1, <3>2 DEF DeckTakes, Wired, TrafficOK
  <2>7. /\ toDeck' = Tail(toDeck)
        /\ UNCHANGED <<fromClient, fromShips, begun, partial, mixed, toServer, round, inbox>>
    BY <1>5 DEF DeckTakes, wires
  <2> QED
    BY <2>1, <2>3, <2>5, <2>6, <2>7 DEF Wired, TrafficOK
<1>6. ASSUME NEW k \in Clients, TakeInput(k) PROVE Wired'
  <2>1. Head(fromClient[k]) \in Bodies /\ Tail(fromClient[k]) \in Seq(Bodies)
    BY <1>6 DEF TakeInput, Wired, TrafficOK
  <2>2. <<k, Head(fromClient[k])>> \in Seq(Frames) /\ EndsInBody(<<k, Head(fromClient[k])>>)
    BY <2>1, FrameNames, ShortMessages
  <2> QED
    BY <1>6, <1>t, <2>1, <2>2 DEF TakeInput, Wired, TrafficOK, Idle, wires
<1>7. CASE PollRound
  <2>1. CASE fromShips = << >>
    <3>1. /\ toServer # << >> /\ round' = [reqs |-> << >>, reply |-> TRUE]
          /\ UNCHANGED <<unsaid, fromClient, fromShips, sending, begun, partial, mixed,
                         toDeck, toServer, heard, inbox>>
      BY <1>7, <2>1 DEF PollRound, wires
    <3>2. round' \in [reqs : Seq(Frames), reply : BOOLEAN]
      BY <3>1
    <3> QED
      BY <3>1, <3>2 DEF Wired, TrafficOK, Idle
  <2>2. CASE fromShips # << >>
    <3> DEFINE m == Head(fromShips)
    <3>1. m \in Ships \X Bodies /\ Tail(fromShips) \in Seq(Ships \X Bodies)
      BY <2>2 DEF Wired, TrafficOK
    <3>2. PICK p \in Ships, b \in Bodies : m = <<p, b>>
      BY <3>1
    <3>3. m \in Seq(Frames) /\ EndsInBody(m)
      BY <3>2, FrameNames, ShortMessages
    <3>4. /\ sending' \in [Threads -> Seq(Frames)]
          /\ \A t \in Threads : Idle(t)' \/ EndsInBody(sending'[t])
      BY <1>7, <1>t, <2>2, <3>3 DEF PollRound, Wired, Idle
    <3>5. /\ round' \in [reqs : Seq(Frames), reply : BOOLEAN]
          /\ round'.reply => toServer # << >>
      <4>1. \/ round' = NoRound
            \/ /\ toServer # << >>
               /\ \/ round' = [reqs |-> <<"", "">>, reply |-> TRUE]
                  \/ round' = [reqs |-> m, reply |-> TRUE]
        BY <1>7, <2>2 DEF PollRound
      <4>2. "" \in Frames
        BY FrameNames
      <4>3. \A x \in Frames : <<x, x>> \in Seq(Frames)
        OBVIOUS
      <4>4. <<"", "">> \in Seq(Frames) /\ << >> \in Seq(Frames)
        BY <4>2, <4>3, EmptySeq
      <4>5. \A q \in Seq(Frames), r \in BOOLEAN :
              [reqs |-> q, reply |-> r] \in [reqs : Seq(Frames), reply : BOOLEAN]
        OBVIOUS
      <4>6. round' = NoRound => round'.reply = FALSE
        BY DEF NoRound
      <4> QED
        BY <3>3, <4>1, <4>4, <4>5, <4>6 DEF NoRound
    <3>6. /\ fromShips' = Tail(fromShips)
          /\ UNCHANGED <<unsaid, fromClient, begun, partial, mixed, toDeck, toServer, heard, inbox>>
      BY <1>7, <2>2 DEF PollRound, wires
    <3> QED
      BY <3>1, <3>4, <3>5, <3>6 DEF Wired, TrafficOK
  <2> QED
    BY <2>1, <2>2
<1>8. CASE ForwardReply
  <2> DEFINE m == round.reqs \o Head(toServer)
  <2>1. toServer # << >> /\ Head(toServer) \in Seq(Frames) /\ Tail(toServer) \in Seq(Seq(Frames))
    BY <1>8 DEF ForwardReply, Wired, TrafficOK
  <2>2. m \in Seq(Frames) /\ (m # << >> => Tail(m) \in Seq(Frames))
    BY <2>1 DEF Wired, TrafficOK
  <2>3. inbox' \in [Clients -> Seq(Seq(Frames))]
    <3>1. inbox \in [Clients -> Seq(Seq(Frames))]
      BY DEF Wired, TrafficOK
    <3>2. CASE m # << >> /\ Head(m) \in Clients
      <4>1. inbox' = [inbox EXCEPT ![Head(m)] = Append(@, Tail(m))]
        BY <1>8, <3>2 DEF ForwardReply
      <4>2. inbox[Head(m)] \in Seq(Seq(Frames)) /\ Tail(m) \in Seq(Frames)
        BY <2>2, <3>1, <3>2
      <4>3. Append(inbox[Head(m)], Tail(m)) \in Seq(Seq(Frames))
        BY <4>2, AppendProperties
      <4> QED
        BY <3>1, <4>1, <4>3
    <3>3. CASE ~(m # << >> /\ Head(m) \in Clients)
      BY <1>8, <3>1, <3>3 DEF ForwardReply
    <3> QED
      BY <3>2, <3>3
  <2>4. /\ toServer' = Tail(toServer) /\ round' = NoRound
        /\ UNCHANGED <<outside, sending, wires, toDeck, heard>>
    BY <1>8 DEF ForwardReply
  <2> QED
    BY <2>1, <2>3, <2>4 DEF Wired, TrafficOK, Idle, NoRound, outside, wires
<1>9. CASE UNCHANGED traffic
  BY <1>9 DEF Wired, TrafficOK, Idle, traffic, outside, wires
<1> QED
  BY <1>1, <1>2, <1>3, <1>4, <1>5, <1>6, <1>7, <1>8, <1>9 DEF Step

\* A step is one of the traffic, or changes none of it.
LEMMA TrafficSteps == [Next]_vars => [Step]_traffic
BY DEF Next, Lives, DeckCrashes, vars

\* TypeOK: queues hold frames, and what the deck hears of a client is a body,
\* whatever two threads have mixed up on a socket.
THEOREM ProxyTypes == Spec => []TypeOK
<1>1. Init => Wired
  BY DEF Init, Wired, TrafficOK, Idle, NoRound
<1>2. Init => crashed \in BOOLEAN
  BY DEF Init
<1>3. crashed \in BOOLEAN /\ [Next]_vars => (crashed \in BOOLEAN)'
  BY DEF Next, Lives, DeckCrashes, vars
<1>4. Wired /\ crashed \in BOOLEAN => TypeOK
  BY DEF Wired, TypeOK
<1> QED
  BY <1>1, <1>2, <1>3, <1>4, WiredStep, TrafficSteps, PTL DEF Spec

=============================================================================
