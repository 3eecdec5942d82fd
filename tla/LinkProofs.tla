----------------------------- MODULE LinkProofs -----------------------------
(***************************************************************************)
(* ServerProxy implements Link, in both directions, for any clients, ships *)
(* and bodies.  The first part is about Of, the recursive function that    *)
(* the refinement mappings take the messages of a client out of a queue    *)
(* with; the second about the invariant Orderly, which says that a socket  *)
(* where no message began within another carries whole messages; then come *)
(* the two refinements, step by step.                                      *)
(***************************************************************************)
EXTENDS ServerProxyProofs, QueueLemmas

(* What Of computes                                                        *)

\* The messages of client k, when m comes behind a queue whose messages of k
\* are s.
Put(k, m, s) == IF m # << >> /\ Head(m) = k THEN Append(s, Tail(m)) ELSE s

\* The recursive function in the definition of Of, up to n.
Sorts(of, k, q, n) ==
  of = [i \in 0 .. n |-> IF i = 0 THEN << >>
                         ELSE IF q[i] # << >> /\ Head(q[i]) = k
                              THEN Append(of[i - 1], Tail(q[i]))
                              ELSE of[i - 1]]

\* Its values, read forwards.
LEMMA SortsMeans ==
  ASSUME NEW f, NEW k, NEW q, NEW n \in Nat, Sorts(f, k, q, n)
  PROVE  /\ f = [i \in 0 .. n |-> f[i]]
         /\ f[0] = << >>
         /\ \A i \in 0 .. n - 1 : f[i + 1] = Put(k, q[i + 1], f[i])
<1>1. f = [i \in 0 .. n |-> f[i]] /\ f[0] = << >>
  BY DEF Sorts
<1>2. ASSUME NEW i \in 0 .. n - 1 PROVE f[i + 1] = Put(k, q[i + 1], f[i])
  <2>1. i + 1 \in 0 .. n /\ i + 1 # 0 /\ (i + 1) - 1 = i
    OBVIOUS
  <2> QED
    BY <2>1 DEF Sorts, Put
<1> QED
  BY <1>1, <1>2

\* And what has these values is that function.
LEMMA MeansSorts ==
  ASSUME NEW f, NEW k, NEW q, NEW n \in Nat,
         f = [i \in 0 .. n |-> f[i]],
         f[0] = << >>,
         \A i \in 0 .. n - 1 : f[i + 1] = Put(k, q[i + 1], f[i])
  PROVE  Sorts(f, k, q, n)
<1>1. ASSUME NEW i \in 0 .. n, i # 0
      PROVE  f[i] = IF q[i] # << >> /\ Head(q[i]) = k
                    THEN Append(f[i - 1], Tail(q[i]))
                    ELSE f[i - 1]
  <2>1. i - 1 \in 0 .. n - 1 /\ (i - 1) + 1 = i
    BY <1>1
  <2> QED
    BY <2>1 DEF Put
<1>2. \A i \in 0 .. n : f[i] = IF i = 0 THEN << >>
                               ELSE IF q[i] # << >> /\ Head(q[i]) = k
                                    THEN Append(f[i - 1], Tail(q[i]))
                                    ELSE f[i - 1]
  BY <1>1
<1> QED
  BY <1>2 DEF Sorts

\* There is such a function: what is defined up to i is extended to i + 1.
LEMMA SortsExist ==
  ASSUME NEW k, NEW q, NEW n \in Nat
  PROVE  \E f : Sorts(f, k, q, n)
<1> DEFINE T == {i \in Nat : \E f : Sorts(f, k, q, i)}
<1>1. 0 \in T
  <2> DEFINE f == [i \in 0 .. 0 |-> << >>]
  <2>1. f = [i \in 0 .. 0 |-> f[i]] /\ f[0] = << >> /\ 0 .. (0 - 1) = {}
    OBVIOUS
  <2>2. Sorts(f, k, q, 0)
    BY <2>1, MeansSorts
  <2> QED
    BY <2>2
<1>2. ASSUME NEW i \in 0 .. n - 1, i \in T PROVE i + 1 \in T
  <2>1. PICK g : Sorts(g, k, q, i)
    BY <1>2
  <2> DEFINE f == [j \in 0 .. i + 1 |-> IF j = i + 1 THEN Put(k, q[i + 1], g[i]) ELSE g[j]]
  <2>0. i \in Nat /\ i + 1 \in Nat
    OBVIOUS
  <2>2. g[0] = << >> /\ \A j \in 0 .. i - 1 : g[j + 1] = Put(k, q[j + 1], g[j])
    BY <2>0, <2>1, SortsMeans
  <2>3. f = [j \in 0 .. i + 1 |-> f[j]] /\ f[0] = << >>
    BY <2>0, <2>2
  <2>4. \A j \in 0 .. (i + 1) - 1 : f[j + 1] = Put(k, q[j + 1], f[j])
    <3> SUFFICES ASSUME NEW j \in 0 .. (i + 1) - 1 PROVE f[j + 1] = Put(k, q[j + 1], f[j])
      OBVIOUS
    <3>1. f[j] = g[j] /\ j \in 0 .. i /\ j + 1 \in 0 .. i + 1
      BY <2>0
    <3>2. CASE j = i
      BY <3>1, <3>2
    <3>3. CASE j # i
      <4>1. j \in 0 .. i - 1 /\ j + 1 # i + 1
        BY <2>0, <3>3
      <4> QED
        BY <3>1, <4>1, <2>2
    <3> QED
      BY <3>2, <3>3
  <2> HIDE DEF f
  <2>5. Sorts(f, k, q, i + 1)
    BY <2>0, <2>3, <2>4, MeansSorts
  <2> QED
    BY <2>5, <2>0
<1>3. 0 .. n \subseteq T
  BY <1>1, <1>2, UpTo
<1> QED
  BY <1>3

\* The function that the definition of Of chooses.
OfFcn(k, q) == CHOOSE f : Sorts(f, k, q, Len(q))

LEMMA OfIs ==
  ASSUME NEW k, NEW q, Len(q) \in Nat
  PROVE  /\ Of(k, q) = OfFcn(k, q)[Len(q)]
         /\ OfFcn(k, q)[0] = << >>
         /\ \A i \in 0 .. Len(q) - 1 : OfFcn(k, q)[i + 1] = Put(k, q[i + 1], OfFcn(k, q)[i])
<1>1. Sorts(OfFcn(k, q), k, q, Len(q))
  BY SortsExist DEF OfFcn
<1>2. Of(k, q) = OfFcn(k, q)[Len(q)]
  BY Zenon DEF Of, OfFcn, Sorts
<1> QED
  BY <1>1, <1>2, SortsMeans

\* An empty queue has nothing of anybody.
LEMMA OfEmpty == \A k : Of(k, << >>) = << >>
<1> SUFFICES ASSUME NEW k PROVE Of(k, << >>) = << >>
  OBVIOUS
<1>1. Len(<< >>) = 0
  OBVIOUS
<1> QED
  BY <1>1, OfIs

\* What a queue has of a client is a queue.
LEMMA OfType ==
  ASSUME NEW k, NEW q \in Seq(Seq(Frames))
  PROVE  Of(k, q) \in Seq(Seq(Frames))
<1> DEFINE f == OfFcn(k, q)
           T == {i \in Nat : f[i] \in Seq(Seq(Frames))}
<1>0. Len(q) \in Nat /\ \A i \in 1 .. Len(q) : q[i] \in Seq(Frames)
  OBVIOUS
<1>1. f[0] = << >> /\ \A i \in 0 .. Len(q) - 1 : f[i + 1] = Put(k, q[i + 1], f[i])
  BY <1>0, OfIs
<1> HIDE DEF f
<1>2. 0 \in T
  <2>1. << >> \in Seq(Seq(Frames))
    OBVIOUS
  <2> QED
    BY <1>1, <2>1
<1>3. ASSUME NEW i \in 0 .. Len(q) - 1, i \in T PROVE i + 1 \in T
  <2>1. i + 1 \in Nat /\ q[i + 1] \in Seq(Frames) /\ f[i] \in Seq(Seq(Frames))
    BY <1>0, <1>3
  <2>2. q[i + 1] # << >> => Tail(q[i + 1]) \in Seq(Frames)
    BY <2>1
  <2>3. Put(k, q[i + 1], f[i]) \in Seq(Seq(Frames))
    BY <2>1, <2>2 DEF Put
  <2> QED
    BY <1>1, <2>1, <2>3
<1>4. Len(q) \in T
  <2> HIDE DEF T
  <2>1. 0 .. Len(q) \subseteq T
    BY <1>0, <1>2, <1>3, UpTo
  <2> QED
    BY <1>0, <2>1
<1> QED
  BY <1>0, <1>4, OfIs DEF f

\* A message behind the others.
LEMMA OfAppend ==
  ASSUME NEW k, NEW q \in Seq(Seq(Frames)), NEW m \in Seq(Frames)
  PROVE  Of(k, Append(q, m)) = Put(k, m, Of(k, q))
<1> DEFINE n == Len(q)
           r == Append(q, m)
           f == OfFcn(k, q)
           g == OfFcn(k, r)
           T == {i \in Nat : f[i] = g[i]}
<1>0. /\ n \in Nat /\ Len(r) \in Nat /\ Len(r) = n + 1 /\ r[n + 1] = m
      /\ \A i \in 1 .. n : r[i] = q[i]
  OBVIOUS
<1>1. f[0] = << >> /\ \A i \in 0 .. n - 1 : f[i + 1] = Put(k, q[i + 1], f[i])
  BY <1>0, OfIs
<1>2. g[0] = << >> /\ \A i \in 0 .. Len(r) - 1 : g[i + 1] = Put(k, r[i + 1], g[i])
  BY <1>0, OfIs
<1>3. Of(k, q) = f[n] /\ Of(k, r) = g[Len(r)]
  BY <1>0, OfIs
<1> HIDE DEF f, g, r, n
<1>4. 0 \in T
  BY <1>1, <1>2
<1>5. ASSUME NEW i \in 0 .. n - 1, i \in T PROVE i + 1 \in T
  <2>1. i + 1 \in Nat /\ i + 1 \in 1 .. n /\ i \in 0 .. Len(r) - 1 /\ f[i] = g[i]
    BY <1>0, <1>5
  <2> QED
    BY <1>0, <1>1, <1>2, <2>1
<1>6. n \in T
  <2> HIDE DEF T
  <2>1. 0 .. n \subseteq T
    BY <1>0, <1>4, <1>5, UpTo
  <2> QED
    BY <1>0, <2>1
<1>7. n \in 0 .. Len(r) - 1
  BY <1>0
<1> QED
  BY <1>0, <1>2, <1>3, <1>6, <1>7 DEF r

\* The first message of a queue, and the others.
LEMMA OfHead ==
  ASSUME NEW k, NEW q \in Seq(Seq(Frames)), q # << >>
  PROVE  Of(k, q) = Put(k, Head(q), << >>) \o Of(k, Tail(q))
<1> DEFINE n == Len(q)
           r == Tail(q)
           h == Put(k, Head(q), << >>)
           f == OfFcn(k, q)
           g == OfFcn(k, r)
           T == {i \in Nat : g[i] \in Seq(Seq(Frames)) /\ f[i + 1] = h \o g[i]}
<1>0. /\ n \in Nat /\ n # 0 /\ r \in Seq(Seq(Frames)) /\ Len(r) \in Nat /\ Len(r) = n - 1 /\ q[1] = Head(q)
      /\ \A i \in 1 .. n - 1 : r[i] = q[i + 1]
      /\ \A i \in 1 .. n - 1 : r[i] \in Seq(Frames)
      /\ Head(q) \in Seq(Frames)
  OBVIOUS
<1>1. f[0] = << >> /\ \A i \in 0 .. n - 1 : f[i + 1] = Put(k, q[i + 1], f[i])
  BY <1>0, OfIs
<1>2. g[0] = << >> /\ \A i \in 0 .. Len(r) - 1 : g[i + 1] = Put(k, r[i + 1], g[i])
  BY <1>0, OfIs
<1>3. Of(k, q) = f[n] /\ Of(k, r) = g[Len(r)]
  BY <1>0, OfIs
<1>h. h \in Seq(Seq(Frames))
  BY <1>0 DEF Put
<1> HIDE DEF f, g, r, n
<1>4. 0 \in T
  <2>1. 0 \in 0 .. n - 1 /\ 0 + 1 = 1
    BY <1>0
  <2>2. f[1] = h
    BY <1>0, <1>1, <2>1
  <2>3. h \o << >> = h /\ << >> \in Seq(Seq(Frames))
    BY <1>h, ConcatEmptySeq, EmptySeq
  <2>4. g[0] \in Seq(Seq(Frames)) /\ f[0 + 1] = h \o g[0]
    BY <1>2, <2>1, <2>2, <2>3
  <2> QED
    BY <2>4
<1> HIDE DEF h
<1>5. ASSUME NEW i \in 0 .. Len(r) - 1, i \in T PROVE i + 1 \in T
  <2>1. /\ i + 1 \in Nat /\ i + 1 \in 1 .. n - 1 /\ i + 1 \in 0 .. n - 1 /\ i \in 0 .. Len(r) - 1
        /\ g[i] \in Seq(Seq(Frames)) /\ f[i + 1] = h \o g[i]
    BY <1>0, <1>5
  <2>2. /\ f[(i + 1) + 1] = Put(k, q[(i + 1) + 1], f[i + 1]) /\ q[(i + 1) + 1] = r[i + 1]
        /\ g[i + 1] = Put(k, r[i + 1], g[i]) /\ r[i + 1] \in Seq(Frames)
    BY <1>0, <1>1, <1>2, <2>1
  <2> DEFINE m == r[i + 1]
  <2>a. m \in Seq(Frames)
    BY <2>2
  <2>3. CASE m # << >> /\ Head(m) = k
    <3>1. Tail(m) \in Seq(Frames)
      BY <2>a, <2>3
    <3> HIDE DEF m
    <3>2. Append(h \o g[i], Tail(m)) = h \o Append(g[i], Tail(m)) /\ Append(g[i], Tail(m)) \in Seq(Seq(Frames))
      <4>1. \A p \in Seq(Seq(Frames)), s \in Seq(Seq(Frames)), x \in Seq(Frames) :
              Append(p \o s, x) = p \o Append(s, x) /\ Append(s, x) \in Seq(Seq(Frames))
        BY AppendConcat
      <4>2. g[i] \in Seq(Seq(Frames))
        BY <2>1
      <4> QED
        BY <1>h, <3>1, <4>1, <4>2, Zenon
    <3> QED
      BY <2>1, <2>2, <2>3, <3>2 DEF Put, m
  <2>4. CASE ~(m # << >> /\ Head(m) = k)
    BY <2>1, <2>2, <2>4 DEF Put
  <2> QED
    BY <2>3, <2>4
<1>6. Len(r) \in T
  <2> HIDE DEF T
  <2>1. 0 .. Len(r) \subseteq T
    BY <1>0, <1>4, <1>5, UpTo
  <2> QED
    BY <1>0, <2>1
<1>7. Len(r) + 1 = n
  BY <1>0
<1> QED
  BY <1>3, <1>6, <1>7 DEF r, h
-----------------------------------------------------------------------------
(* Frames of one message together                                          *)

\* The messages that thread t sends.
Whole(t) ==
  CASE t \in DeckThreads     -> {Header(k, b) : k \in Clients, b \in Bodies}
    [] t = "client_listener" -> {<<k, b>> : k \in Clients, b \in Bodies}
    [] t = "ship_listener"   -> {<<p, b>> : p \in Ships, b \in Bodies}

\* What the deck gets, and what the ship_listener gets of it.
Inputs  == Whole("client_listener") \cup Whole("ship_listener")
Replies == {<<k, b>> : k \in Clients, b \in Bodies}

\* A thread that has begun has something left to send, and one that has not has
\* nothing or a whole message.  On a socket that is not mixed one thread at most
\* has begun, and what the socket has and what the thread has left are one
\* message; so the queues behind the socket hold whole messages, and clients
\* get such.  What is in reqs before a reply is of no client.
Orderly ==
  /\ \A t \in begun : sending[t] # << >>
  /\ \A t \in Threads \ begun : Idle(t) \/ sending[t] \in Whole(t)
  /\ \A t \in begun : SocketOf(t) \notin mixed =>
       /\ partial[SocketOf(t)] # << >>
       /\ partial[SocketOf(t)] \o sending[t] \in Whole(t)
       /\ \A u \in begun : SocketOf(u) = SocketOf(t) => u = t
  /\ "shipdeck_dealer" \notin mixed => \A i \in DOMAIN toDeck : toDeck[i] \in Inputs
  /\ "server_router" \notin mixed => \A i \in DOMAIN toServer : toServer[i] \in Replies
  /\ round.reqs # << >> => Head(round.reqs) \notin Clients
  /\ "server_router" \notin mixed => MessagesArriveWhole

\* Who sends on which socket, and what.
LEMMA SocketNames ==
  /\ SocketOf("client_listener") = "shipdeck_dealer"
  /\ SocketOf("ship_listener") = "shipdeck_dealer"
  /\ SocketOf("server_listener") = "server_router"
  /\ SocketOf("services_listener") = "server_router"
  /\ \A t \in Threads : SocketOf(t) = "server_router" <=> t \in DeckThreads
  /\ \A t \in Threads : SocketOf(t) = "shipdeck_dealer" =>
                         t = "client_listener" \/ t = "ship_listener"
BY DEF SocketOf, DeckThreads, Threads

LEMMA WholeIs ==
  /\ Whole("client_listener") = {<<k, b>> : k \in Clients, b \in Bodies}
  /\ Whole("ship_listener") = {<<p, b>> : p \in Ships, b \in Bodies}
  /\ \A t \in DeckThreads : Whole(t) = {Header(k, b) : k \in Clients, b \in Bodies}
<1>1. "client_listener" \notin DeckThreads /\ "ship_listener" \notin DeckThreads
      /\ "client_listener" # "ship_listener"
  BY DEF DeckThreads
<1> QED
  BY <1>1 DEF Whole

\* A frame goes from what is left to what was sent.
LEMMA FrameByFrame ==
  ASSUME NEW p \in Seq(Frames), NEW r \in Seq(Frames), r # << >>
  PROVE  /\ Append(p, Head(r)) \o Tail(r) = p \o r
         /\ ~(Len(r) > 1) => Append(p, Head(r)) = p \o r
         /\ Append(p, Head(r)) # << >>
         /\ Len(r) > 1 => Tail(r) # << >>
<1>1. /\ Head(r) \in Frames /\ Tail(r) \in Seq(Frames) /\ <<Head(r)>> \in Seq(Frames)
      /\ r = <<Head(r)>> \o Tail(r) /\ Len(Tail(r)) = Len(r) - 1 /\ Len(r) \in Nat
  OBVIOUS
<1>2. Append(p, Head(r)) = p \o <<Head(r)>>
  BY <1>1, AppendIsConcat
<1>3. (p \o <<Head(r)>>) \o Tail(r) = p \o (<<Head(r)>> \o Tail(r))
  BY <1>1, ConcatAssociative
<1>4. Append(p, Head(r)) \o Tail(r) = p \o r
  BY <1>1, <1>2, <1>3
<1>5. ~(Len(r) > 1) => Append(p, Head(r)) = p \o r
  <2> SUFFICES ASSUME ~(Len(r) > 1) PROVE Append(p, Head(r)) = p \o r
    OBVIOUS
  <2>1. Tail(r) = << >>
    BY FirstFrame
  <2>2. Append(p, Head(r)) \in Seq(Frames)
    BY <1>1, AppendProperties
  <2> QED
    BY <1>4, <2>1, <2>2, ConcatEmptySeq
<1>6. Append(p, Head(r)) # << >>
  BY <1>1, AppendProperties
<1>7. Len(r) > 1 => Tail(r) # << >>
  <2>1. Len(r) > 1 => Len(Tail(r)) # 0
    BY <1>1
  <2> QED
    BY <1>1, <2>1, EmptySeq
<1> QED
  BY <1>4, <1>5, <1>6, <1>7

\* A frame that does not mix the socket up is the next one of the only message
\* the socket is in, or the first one of a message.
LEMMA OnlyWriter ==
  ASSUME Wired, Orderly, NEW t \in Threads, WriteFrame(t), SocketOf(t) \notin mixed'
  PROVE  /\ SocketOf(t) \notin mixed
         /\ partial[SocketOf(t)] \o sending[t] \in Whole(t)
         /\ \A u \in begun : SocketOf(u) = SocketOf(t) => u = t
         /\ t \notin begun => partial[SocketOf(t)] = << >> /\ sending[t] \in Whole(t)
<1> DEFINE s == SocketOf(t)
<1>1. s \notin mixed /\ (t \notin begun => partial[s] = << >>)
  BY DEF WriteFrame
<1>2. sending[t] # << >> /\ sending[t] \in Seq(Frames)
  BY DEF WriteFrame, Wired, TrafficOK
<1>3. CASE t \in begun
  BY <1>1, <1>3 DEF Orderly
<1>4. CASE t \notin begun
  <2>1. sending[t] \in Whole(t)
    BY <1>2, <1>4 DEF Orderly, Idle
  <2>2. partial[s] \o sending[t] = sending[t]
    BY <1>1, <1>2, <1>4, ConcatEmptySeq
  <2>3. \A u \in begun : SocketOf(u) # s
    BY <1>1, <1>4 DEF Orderly
  <2> QED
    BY <1>1, <1>4, <2>1, <2>2, <2>3
<1> QED
  BY <1>3, <1>4

\* A queue of messages of a kind, one more and one less.
LEMMA QueueOf ==
  ASSUME NEW S, NEW q \in Seq(Seq(Frames)), \A i \in DOMAIN q : q[i] \in S
  PROVE  /\ \A m \in Seq(Frames) : m \in S =>
              \A i \in DOMAIN Append(q, m) : Append(q, m)[i] \in S
         /\ q # << >> => Head(q) \in S /\ \A i \in DOMAIN Tail(q) : Tail(q)[i] \in S
<1>1. ASSUME NEW m \in Seq(Frames), m \in S
      PROVE  \A i \in DOMAIN Append(q, m) : Append(q, m)[i] \in S
  <2>1. \A i \in DOMAIN Append(q, m) : (i \in DOMAIN q /\ Append(q, m)[i] = q[i])
                                            \/ Append(q, m)[i] = m
    OBVIOUS
  <2> QED
    BY <1>1, <2>1
<1>2. ASSUME q # << >>
      PROVE  Head(q) \in S /\ \A i \in DOMAIN Tail(q) : Tail(q)[i] \in S
  <2>1. /\ 1 \in DOMAIN q /\ Head(q) = q[1]
        /\ \A i \in DOMAIN Tail(q) : i + 1 \in DOMAIN q /\ Tail(q)[i] = q[i + 1]
    BY <1>2
  <2> QED
    BY <2>1
<1> QED
  BY <1>1, <1>2

\* Orderly is preserved by a frame ...
LEMMA WriteFrameOrderly ==
  ASSUME Wired, Orderly, NEW t \in Threads, WriteFrame(t)
  PROVE  Orderly'
<1> DEFINE s == SocketOf(t)
           r == sending[t]
           m == Append(partial[s], Head(r))
<1>1. /\ sending \in [Threads -> Seq(Frames)] /\ r \in Seq(Frames) /\ r # << >>
      /\ partial \in [{"server_router", "shipdeck_dealer"} -> Seq(Frames)]
      /\ s \in {"server_router", "shipdeck_dealer"} /\ partial[s] \in Seq(Frames)
      /\ begun \subseteq Threads
      /\ toDeck \in Seq(Seq(Frames)) /\ toServer \in Seq(Seq(Frames))
  BY ThreadNames DEF Wired, TrafficOK, WriteFrame
<1>2. /\ m \o Tail(r) = partial[s] \o r /\ (~(Len(r) > 1) => m = partial[s] \o r)
      /\ m # << >> /\ (Len(r) > 1 => Tail(r) # << >>) /\ Tail(r) \in Seq(Frames)
      /\ (~(Len(r) > 1) => Tail(r) = << >>) /\ m \in Seq(Frames) /\ Tail(m) \in Seq(Frames)
  BY <1>1, FrameByFrame, FirstFrame, OneMore
<1>3. /\ sending' = [sending EXCEPT ![t] = Tail(r)]
      /\ mixed \subseteq mixed' /\ mixed' \subseteq mixed \cup {s}
      /\ round' = round /\ inbox' = inbox
  BY DEF WriteFrame
<1>4. s \notin mixed' =>
         /\ s \notin mixed
         /\ partial[s] \o r \in Whole(t)
         /\ \A u \in begun : SocketOf(u) = s => u = t
  BY OnlyWriter
<1>5. \/ /\ Len(r) > 1
         /\ begun' = begun \cup {t} /\ partial' = [partial EXCEPT ![s] = m]
         /\ UNCHANGED <<toDeck, toServer>>
      \/ /\ ~(Len(r) > 1)
         /\ begun' = begun \ {t} /\ partial' = [partial EXCEPT ![s] = << >>]
         /\ Arrive(s, m)
  BY DEF WriteFrame
<1> HIDE DEF m, r, s
<1>6. \A u \in begun' : sending'[u] # << >>
  BY <1>1, <1>2, <1>3, <1>5 DEF Orderly
<1>7. \A u \in Threads \ begun' : Idle(u)' \/ sending'[u] \in Whole(u)
  BY <1>1, <1>2, <1>3, <1>5 DEF Orderly, Idle
<1>8. ASSUME NEW u \in begun', SocketOf(u) \notin mixed'
      PROVE  /\ partial'[SocketOf(u)] # << >>
             /\ partial'[SocketOf(u)] \o sending'[u] \in Whole(u)
             /\ \A v \in begun' : SocketOf(v) = SocketOf(u) => v = u
  <2>0. u \in Threads /\ SocketOf(u) \in {"server_router", "shipdeck_dealer"} /\ s = SocketOf(t)
    BY <1>1, <1>5, ThreadNames DEF s
  <2>1. CASE SocketOf(u) = s
    <3>1. s \notin mixed' /\ Len(r) > 1 /\ u = t
      BY <1>4, <1>5, <1>8, <2>1
    <3>2. partial'[s] = m /\ sending'[t] = Tail(r) /\ begun' = begun \cup {t}
      BY <1>1, <1>3, <1>5, <3>1
    <3> QED
      BY <1>2, <1>4, <2>1, <3>1, <3>2
  <2>2. CASE SocketOf(u) # s
    <3>1. u # t /\ u \in begun /\ SocketOf(u) \notin mixed
      BY <1>3, <1>5, <1>8, <2>0, <2>2
    <3>2. partial'[SocketOf(u)] = partial[SocketOf(u)] /\ sending'[u] = sending[u]
      BY <1>1, <1>3, <1>5, <2>0, <2>2, <3>1
    <3>3. \A v \in begun' : SocketOf(v) = SocketOf(u) => v \in begun
      BY <1>5, <2>0, <2>2
    <3> QED
      BY <3>1, <3>2, <3>3 DEF Orderly
  <2> QED
    BY <2>1, <2>2
<1>9. ASSUME "shipdeck_dealer" \notin mixed'
      PROVE  \A i \in DOMAIN toDeck' : toDeck'[i] \in Inputs
  <2>1. \A i \in DOMAIN toDeck : toDeck[i] \in Inputs
    BY <1>3, <1>9 DEF Orderly
  <2>2. CASE toDeck' = toDeck
    BY <2>1, <2>2
  <2>3. CASE ~(Len(r) > 1) /\ s = "shipdeck_dealer" /\ toDeck' = Append(toDeck, m)
    <3>1. m \in Whole(t)
      BY <1>2, <1>4, <1>9, <2>3
    <3>2. m \in Inputs
      BY <2>3, <3>1, SocketNames DEF s, Inputs
    <3> QED
      BY <1>1, <1>2, <2>1, <2>3, <3>2, QueueOf
  <2> QED
    BY <1>5, <2>2, <2>3 DEF Arrive
<1>10. ASSUME "server_router" \notin mixed'
       PROVE  \A i \in DOMAIN toServer' : toServer'[i] \in Replies
  <2>1. \A i \in DOMAIN toServer : toServer[i] \in Replies
    BY <1>3, <1>10 DEF Orderly
  <2>2. CASE toServer' = toServer
    BY <2>1, <2>2
  <2>3. CASE ~(Len(r) > 1) /\ s = "server_router" /\ toServer' = Append(toServer, Tail(m))
    <3>1. m \in Whole(t) /\ t \in DeckThreads
      BY <1>2, <1>4, <1>10, <2>3, SocketNames DEF s
    <3>2. PICK k \in Clients, b \in Bodies : m = <<"S", k, b>>
      BY <3>1, WholeIs DEF Header
    <3>3. Tail(m) = <<k, b>>
      BY <3>2
    <3> QED
      BY <1>1, <1>2, <2>1, <2>3, <3>3, QueueOf DEF Replies
  <2> QED
    BY <1>5, <2>2, <2>3 DEF Arrive
<1>11. "server_router" \notin mixed' => MessagesArriveWhole'
  BY <1>3 DEF Orderly, MessagesArriveWhole
<1>12. round'.reqs # << >> => Head(round'.reqs) \notin Clients
  BY <1>3 DEF Orderly
<1> QED
  BY <1>6, <1>7, <1>8, <1>9, <1>10, <1>11, <1>12 DEF Orderly

\* ... and by every other step.
LEMMA OrderlyStep == Wired /\ Orderly /\ [Step]_traffic => Orderly'
<1> SUFFICES ASSUME Wired, Orderly, [Step]_traffic
             PROVE  Orderly'
  OBVIOUS
<1>0. /\ sending \in [Threads -> Seq(Frames)] /\ begun \subseteq Threads
      /\ toDeck \in Seq(Seq(Frames)) /\ toServer \in Seq(Seq(Frames))
      /\ fromShips \in Seq(Ships \X Bodies)
      /\ \A t \in begun : sending[t] # << >>
      /\ \A t \in Threads \ begun : Idle(t) \/ sending[t] \in Whole(t)
  BY DEF Wired, TrafficOK, Orderly
\* An idle thread gets a message to send, or none.
<1>a. ASSUME NEW t \in Threads, Idle(t), NEW w \in Whole(t),
             sending' \in {sending, [sending EXCEPT ![t] = w]}, begun' = begun
      PROVE  /\ \A u \in begun : sending'[u] = sending[u]
             /\ \A u \in Threads \ begun : Idle(u)' \/ sending'[u] \in Whole(u)
  BY <1>0, <1>a DEF Idle
\* A step that sends no frame.
<1>b. ASSUME UNCHANGED <<begun, partial, mixed>>,
             \A u \in begun : sending'[u] = sending[u],
             \A u \in Threads \ begun : Idle(u)' \/ sending'[u] \in Whole(u),
             toDeck' = toDeck \/ (toDeck # << >> /\ toDeck' = Tail(toDeck)),
             toServer' = toServer \/ (toServer # << >> /\ toServer' = Tail(toServer)),
             round'.reqs # << >> => Head(round'.reqs) \notin Clients,
             "server_router" \notin mixed => MessagesArriveWhole'
      PROVE  Orderly'
  <2>1. "shipdeck_dealer" \notin mixed => \A i \in DOMAIN toDeck' : toDeck'[i] \in Inputs
    BY <1>0, <1>b, QueueOf DEF Orderly
  <2>2. "server_router" \notin mixed => \A i \in DOMAIN toServer' : toServer'[i] \in Replies
    BY <1>0, <1>b, QueueOf DEF Orderly
  <2>3. /\ \A t \in begun' : sending'[t] # << >>
        /\ \A t \in begun' : SocketOf(t) \notin mixed' =>
              /\ partial'[SocketOf(t)] # << >>
              /\ partial'[SocketOf(t)] \o sending'[t] \in Whole(t)
              /\ \A u \in begun' : SocketOf(u) = SocketOf(t) => u = t
    BY <1>b DEF Orderly
  <2> QED
    BY <1>b, <2>1, <2>2, <2>3 DEF Orderly
<1>c. inbox' = inbox => ("server_router" \notin mixed => MessagesArriveWhole')
  BY DEF Orderly, MessagesArriveWhole
<1>d. round' = round => (round'.reqs # << >> => Head(round'.reqs) \notin Clients)
  BY DEF Orderly
<1>e. sending' = sending =>
            /\ \A u \in begun : sending'[u] = sending[u]
            /\ \A u \in Threads \ begun : Idle(u)' \/ sending'[u] \in Whole(u)
  BY <1>0 DEF Idle
<1>1. ASSUME NEW k \in Clients, NEW b \in Bodies, Type(k, b) PROVE Orderly'
  BY <1>1, <1>b, <1>c, <1>d, <1>e DEF Type, wires
<1>2. ASSUME NEW p \in Ships, NEW b \in Bodies, ShipSends(p, b) PROVE Orderly'
  BY <1>2, <1>b, <1>c, <1>d, <1>e DEF ShipSends, wires
<1>3. ASSUME NEW k \in Clients, NEW b \in Bodies, Post(k, b) PROVE Orderly'
  <2>1. Header(k, b) \in Whole("services_listener")
    BY WholeIs DEF DeckThreads
  <2>2. /\ \A u \in begun : sending'[u] = sending[u]
        /\ \A u \in Threads \ begun : Idle(u)' \/ sending'[u] \in Whole(u)
    BY <1>3, <1>a, <2>1, ThreadNames DEF Post, wires
  <2> QED
    BY <1>3, <1>b, <1>c, <1>d, <2>2 DEF Post, wires
<1>4. ASSUME NEW t \in Threads, WriteFrame(t) PROVE Orderly'
  BY <1>4, WriteFrameOrderly
<1>5. CASE DeckTakes
  <2>1. \A k \in Clients, b \in Bodies : Header(k, b) \in Whole("server_listener")
    BY WholeIs DEF DeckThreads
  <2>2. \/ sending' = sending
        \/ \E k \in Clients, b \in Bodies : sending' = [sending EXCEPT !["server_listener"] = Header(k, b)]
    BY <1>5 DEF DeckTakes, Wired, TrafficOK
  <2>3. /\ \A u \in begun : sending'[u] = sending[u]
        /\ \A u \in Threads \ begun : Idle(u)' \/ sending'[u] \in Whole(u)
    BY <1>5, <1>a, <1>e, <2>1, <2>2, ThreadNames DEF DeckTakes, wires
  <2> QED
    BY <1>5, <1>b, <1>c, <1>d, <2>3 DEF DeckTakes, wires
<1>6. ASSUME NEW k \in Clients, TakeInput(k) PROVE Orderly'
  <2>1. Head(fromClient[k]) \in Bodies
    BY <1>6 DEF TakeInput, Wired, TrafficOK
  <2>2. <<k, Head(fromClient[k])>> \in Whole("client_listener")
    BY <2>1, WholeIs
  <2>3. /\ \A u \in begun : sending'[u] = sending[u]
        /\ \A u \in Threads \ begun : Idle(u)' \/ sending'[u] \in Whole(u)
    BY <1>6, <1>a, <2>2, ThreadNames DEF TakeInput, wires
  <2> QED
    BY <1>6, <1>b, <1>c, <1>d, <2>3 DEF TakeInput, wires
<1>7. CASE PollRound
  <2>1. UNCHANGED <<begun, partial, mixed, toDeck, toServer, inbox>>
    BY <1>7 DEF PollRound, wires
  <2>2. CASE fromShips = << >>
    <3>1. sending' = sending /\ round'.reqs = << >>
      BY <1>7, <2>2 DEF PollRound
    <3> QED
      BY <1>b, <1>c, <1>e, <2>1, <3>1
  <2>3. CASE fromShips # << >>
    <3>1. PICK p \in Ships, b \in Bodies : Head(fromShips) = <<p, b>>
      <4>1. Head(fromShips) \in Ships \X Bodies
        BY <1>0, <2>3
      <4> QED
        BY <4>1
    <3>2. <<p, b>> \in Whole("ship_listener")
      BY WholeIs
    <3>3. /\ \A u \in begun : sending'[u] = sending[u]
          /\ \A u \in Threads \ begun : Idle(u)' \/ sending'[u] \in Whole(u)
      BY <1>7, <1>a, <2>1, <2>3, <3>1, <3>2, ThreadNames DEF PollRound
    <3>4. round'.reqs \in {<< >>, <<"", "">>, <<p, b>>}
      <4>1. \/ round' = NoRound
            \/ round' = [reqs |-> <<"", "">>, reply |-> TRUE]
            \/ round' = [reqs |-> <<p, b>>, reply |-> TRUE]
        BY <1>7, <2>3, <3>1 DEF PollRound
      <4>2. NoRound.reqs = << >> /\ \A q : [reqs |-> q, reply |-> TRUE].reqs = q
        BY DEF NoRound
      <4> QED
        BY <4>1, <4>2, Zenon
    <3>5. Head(<<"", "">>) \notin Clients /\ Head(<<p, b>>) \notin Clients
      <4>1. "" \notin Clients /\ p \notin Clients
        BY ProxyAssumption
      <4>2. Head(<<"", "">>) = "" /\ Head(<<p, b>>) = p
        OBVIOUS
      <4> QED
        BY <4>1, <4>2
    <3> QED
      BY <1>b, <1>c, <2>1, <3>3, <3>4, <3>5
  <2> QED
    BY <2>2, <2>3
<1>8. CASE ForwardReply
  <2> DEFINE m == round.reqs \o Head(toServer)
  <2>1. toServer # << >> /\ toServer' = Tail(toServer) /\ round' = NoRound
        /\ UNCHANGED <<sending, begun, partial, mixed, toDeck>>
    BY <1>8 DEF ForwardReply, wires, Wired
  <2>2. ASSUME "server_router" \notin mixed PROVE MessagesArriveWhole'
    <3>1. PICK k \in Clients, b \in Bodies : Head(toServer) = <<k, b>>
      BY <1>0, <2>1, <2>2, QueueOf DEF Orderly, Replies
    <3>2. CASE round.reqs = << >>
      <4>1. m = <<k, b>>
        BY <3>1, <3>2
      <4>2. Head(<<k, b>>) = k /\ Tail(<<k, b>>) = <<b>> /\ Len(<<b>>) = 1 /\ <<k, b>> # << >>
        OBVIOUS
      <4>3. inbox' = [inbox EXCEPT ![k] = Append(@, <<b>>)]
        BY <1>8, <4>1, <4>2 DEF ForwardReply
      <4>4. inbox \in [Clients -> Seq(Seq(Frames))] /\ <<b>> \in Seq(Frames)
        <5>1. b \in Frames
          BY FrameNames
        <5> QED
          BY <5>1 DEF Wired, TrafficOK
      <4>5. inbox'[k] = Append(inbox[k], <<b>>) /\ \A c \in Clients \ {k} : inbox'[c] = inbox[c]
        BY <4>3, <4>4
      <4>6. \A i \in DOMAIN Append(inbox[k], <<b>>) :
              (i \in DOMAIN inbox[k] /\ Append(inbox[k], <<b>>)[i] = inbox[k][i])
                 \/ Append(inbox[k], <<b>>)[i] = <<b>>
        BY <4>4
      <4> QED
        BY <2>2, <4>2, <4>5, <4>6 DEF Orderly, MessagesArriveWhole
    <3>3. CASE round.reqs # << >>
      <4>1. Head(m) = Head(round.reqs) /\ m # << >>
        <5>1. round.reqs \in Seq(Frames) /\ <<k, b>> \in Seq(Frames)
          BY FrameNames, ShortMessages DEF Wired, TrafficOK
        <5>2. \A q \in Seq(Frames), w \in Seq(Frames) :
                q # << >> => Head(q \o w) = Head(q) /\ q \o w # << >>
          OBVIOUS
        <5> QED
          BY <3>1, <3>3, <5>1, <5>2
      <4>2. inbox' = inbox
        BY <1>8, <3>3, <4>1 DEF ForwardReply, Orderly
      <4> QED
        BY <1>c, <2>2, <4>2
    <3> QED
      BY <3>2, <3>3
  <2>3. NoRound.reqs = << >>
    BY DEF NoRound
  <2> QED
    BY <1>b, <1>e, <2>1, <2>2, <2>3
<1>9. CASE UNCHANGED traffic
  BY <1>9, <1>b, <1>c, <1>d, <1>e DEF traffic, wires
<1> QED
  BY <1>1, <1>2, <1>3, <1>4, <1>5, <1>6, <1>7, <1>8, <1>9 DEF Step

\* What a socket has and what its writers have left is in order in every state.
LEMMA OrderlyHolds == Spec => []Wired /\ []Orderly
<1>1. Init => Orderly
  BY EmptySeq DEF Init, Orderly, Idle, MessagesArriveWhole, NoRound
<1>2. Init => Wired
  BY DEF Init, Wired, TrafficOK, Idle, NoRound
<1> QED
  BY <1>1, <1>2, WiredStep, OrderlyStep, TrafficSteps, PTL DEF Spec
-----------------------------------------------------------------------------
(* From the crew to the deck                                               *)

\* What client_listener is sending, whether it has begun or not.
PassingSo ==
  /\ sending["client_listener"] = << >> => Passing = << >>
  /\ sending["client_listener"] # << >> /\ "client_listener" \in begun =>
       Passing = <<partial["shipdeck_dealer"] \o sending["client_listener"]>>
  /\ sending["client_listener"] # << >> /\ "client_listener" \notin begun =>
       Passing = <<sending["client_listener"]>>
  /\ sending["client_listener"] # << >> => \E k \in Clients, b \in Bodies : Passing = <<<<k, b>>>>

\* Passing is one message, however much of it has been sent ...
LEMMA PassingIs == Wired /\ Orderly /\ "shipdeck_dealer" \notin mixed => PassingSo
<1> SUFFICES ASSUME Wired, Orderly, "shipdeck_dealer" \notin mixed PROVE PassingSo
  OBVIOUS
<1> DEFINE r == sending["client_listener"]
           p == partial["shipdeck_dealer"]
<1>0. r \in Seq(Frames) /\ p \in Seq(Frames) /\ Len(<< >>) = 0
  BY ThreadNames DEF Wired, TrafficOK
<1>1. CASE r = << >>
  BY <1>0, <1>1 DEF Passing, PassingSo
<1>2. CASE r # << >> /\ "client_listener" \in begun
  <2> DEFINE w == p \o r
             np == Len(p)
             nr == Len(r)
  <2>1. p # << >> /\ w \in Whole("client_listener")
    BY <1>2, SocketNames DEF Orderly
  <2>2. \E k \in Clients, b \in Bodies : w = <<k, b>>
    <3> HIDE DEF w
    <3> QED
      BY <2>1, WholeIs
  <2>3. Len(p) \in Nat /\ Len(r) \in Nat /\ Len(p) # 0 /\ Len(r) # 0 /\ Len(w) = Len(p) + Len(r)
    BY <1>0, <1>2, <2>1, EmptySeq, ConcatProperties, LenProperties
  <2>4. np + nr = 2
    BY <2>2, <2>3
  <2>n. np \in Nat /\ nr \in Nat /\ np # 0 /\ nr # 0
    BY <2>3
  <2>5. Len(r) = 1 /\ Len(r) # 2
    <3> HIDE DEF np, nr
    <3>1. nr = 1
      BY <2>4, <2>n
    <3> QED
      BY <3>1 DEF nr
  <2> HIDE DEF p, r
  <2>5a. ~(Len(r) > 1)
    BY <2>5
  <2>6. Append(p, Head(r)) = p \o r /\ Head(r) = r[1]
    BY <1>0, <1>2, <2>5a, FrameByFrame, HeadTailProperties
  <2>7. Passing = <<Append(p, r[1])>>
    BY <2>5, Zenon DEF Passing, p, r
  <2> QED
    BY <1>2, <2>2, <2>6, <2>7 DEF p, r, PassingSo
<1>3. CASE r # << >> /\ "client_listener" \notin begun
  <2>1. r \in Whole("client_listener")
    BY <1>3, ThreadNames DEF Orderly, Idle
  <2>2. PICK k \in Clients, b \in Bodies : r = <<k, b>>
    BY <2>1, WholeIs
  <2>4. Len(r) = 2 /\ Len(r) # 1
    BY <2>2
  <2>5. Passing = <<r>>
    BY <2>4, Zenon DEF Passing
  <2> QED
    BY <1>3, <2>2, <2>5 DEF PassingSo
<1> QED
  BY <1>1, <1>2, <1>3


\* ... and so it is in the next state.
LEMMA PassingNext ==
  Wired /\ Orderly /\ [Step]_traffic /\ "shipdeck_dealer" \notin mixed' => PassingSo'
<1>1. (Wired /\ Orderly /\ "shipdeck_dealer" \notin mixed => PassingSo)'
  BY PassingIs, PTL
<1> QED
  BY <1>1, WiredStep, OrderlyStep


\* Bodies as messages of one frame.
Singles(q) == [i \in DOMAIN q |-> <<q[i]>>]

LEMMA SinglesAre ==
  ASSUME NEW q \in Seq(Bodies)
  PROVE  /\ Singles(q) \in Seq(Seq(Frames))
         /\ \A b \in Bodies : Singles(Append(q, b)) = Append(Singles(q), <<b>>)
         /\ q # << >> => Singles(q) = <<<<Head(q)>>>> \o Singles(Tail(q))
<1>0. \A b \in Bodies : <<b>> \in Seq(Frames)
  <2>1. \A x \in Frames : <<x>> \in Seq(Frames)
    OBVIOUS
  <2> QED
    BY <2>1, FrameNames
<1>1. ASSUME NEW p \in Seq(Bodies)
      PROVE  /\ Singles(p) \in Seq(Seq(Frames)) /\ Len(Singles(p)) = Len(p)
             /\ \A i \in 1 .. Len(p) : Singles(p)[i] = <<p[i]>>
  <2>1. Len(p) \in Nat /\ DOMAIN p = 1 .. Len(p) /\ \A i \in 1 .. Len(p) : <<p[i]>> \in Seq(Frames)
    BY <1>0
  <2>2. /\ DOMAIN Singles(p) = 1 .. Len(p) /\ Singles(p) = [i \in 1 .. Len(p) |-> <<p[i]>>]
        /\ \A i \in 1 .. Len(p) : Singles(p)[i] = <<p[i]>>
    BY <2>1 DEF Singles
  <2>3. \A f : f = [i \in 1 .. Len(p) |-> f[i]] /\ (\A i \in 1 .. Len(p) : f[i] \in Seq(Frames))
                => f \in Seq(Seq(Frames)) /\ Len(f) = Len(p)
    BY <2>1, IsASeq
  <2> QED
    BY <2>1, <2>2, <2>3
<1>2. ASSUME NEW b \in Bodies PROVE Singles(Append(q, b)) = Append(Singles(q), <<b>>)
  <2> DEFINE l == Singles(Append(q, b))
             r == Append(Singles(q), <<b>>)
  <2>1. Append(q, b) \in Seq(Bodies) /\ Len(Append(q, b)) = Len(q) + 1 /\ Len(q) \in Nat
        /\ \A i \in 1 .. Len(q) + 1 : Append(q, b)[i] = IF i = Len(q) + 1 THEN b ELSE q[i]
    OBVIOUS
  <2>2. l \in Seq(Seq(Frames)) /\ Len(l) = Len(q) + 1
        /\ \A i \in 1 .. Len(q) + 1 : l[i] = <<Append(q, b)[i]>>
    BY <1>1, <2>1
  <2>3. r \in Seq(Seq(Frames)) /\ Len(r) = Len(q) + 1
        /\ \A i \in 1 .. Len(q) + 1 : r[i] = IF i = Len(q) + 1 THEN <<b>> ELSE Singles(q)[i]
    BY <1>0, <1>1, AppendProperties
  <2> HIDE DEF l, r
  <2>4. ASSUME NEW i \in 1 .. Len(q) + 1 PROVE l[i] = r[i]
    <3>1. CASE i = Len(q) + 1
      BY <2>1, <2>2, <2>3, <3>1
    <3>2. CASE i # Len(q) + 1
      <4>1. i \in 1 .. Len(q)
        BY <2>1, <3>2
      <4> QED
        BY <1>1, <2>1, <2>2, <2>3, <3>2, <4>1
    <3> QED
      BY <3>1, <3>2
  <2>5. l = r
    BY <2>2, <2>3, <2>4, SeqEqual
  <2> QED
    BY <2>5 DEF l, r
<1>3. ASSUME q # << >> PROVE Singles(q) = <<<<Head(q)>>>> \o Singles(Tail(q))
  <2> DEFINE h == <<<<Head(q)>>>>
             r == h \o Singles(Tail(q))
  <2>1. /\ Tail(q) \in Seq(Bodies) /\ Len(Tail(q)) = Len(q) - 1 /\ Len(q) \in Nat /\ Len(q) # 0
        /\ Head(q) = q[1] /\ Head(q) \in Bodies
        /\ \A i \in 1 .. Len(q) - 1 : Tail(q)[i] = q[i + 1]
    BY <1>3
  <2>2. h \in Seq(Seq(Frames)) /\ Len(h) = 1 /\ h[1] = <<Head(q)>>
    BY <1>0, <2>1
  <2>3. Singles(Tail(q)) \in Seq(Seq(Frames)) /\ Len(Singles(Tail(q))) = Len(q) - 1
        /\ \A i \in 1 .. Len(q) - 1 : Singles(Tail(q))[i] = <<q[i + 1]>>
    BY <1>1, <2>1
  <2> HIDE DEF h
  <2> DEFINE n == Len(q)
             t == Singles(Tail(q))
  <2>4. t \in Seq(Seq(Frames)) /\ Len(t) = n - 1 /\ n \in Nat /\ n # 0
        /\ \A i \in 1 .. n - 1 : t[i] = <<q[i + 1]>>
    BY <2>1, <2>3
  <2> HIDE DEF n, t
  <2>5. r \in Seq(Seq(Frames)) /\ Len(r) = n
        /\ \A i \in 1 .. n : r[i] = IF i <= 1 THEN h[i] ELSE t[i - 1]
    <3>1. r \in Seq(Seq(Frames)) /\ Len(r) = Len(h) + Len(t)
          /\ \A i \in 1 .. Len(h) + Len(t) : r[i] = IF i <= Len(h) THEN h[i] ELSE t[i - Len(h)]
      BY <2>2, <2>4, ConcatProperties DEF t
    <3>2. Len(h) + Len(t) = n
      BY <2>2, <2>4
    <3> QED
      BY <2>2, <3>1, <3>2
  <2> HIDE DEF r
  <2>6. ASSUME NEW i \in 1 .. Len(q) PROVE r[i] = Singles(q)[i]
    <3>0. i \in 1 .. n /\ Singles(q)[i] = <<q[i]>>
      BY <1>1 DEF n
    <3>1. CASE i = 1
      BY <2>1, <2>2, <2>5, <3>0, <3>1
    <3>2. CASE i # 1
      <4>1. i - 1 \in 1 .. n - 1 /\ ~(i <= 1) /\ (i - 1) + 1 = i
        BY <2>4, <3>0, <3>2
      <4> QED
        BY <2>4, <2>5, <3>0, <4>1
    <3> QED
      BY <3>1, <3>2
  <2>7. r = Singles(q)
    BY <1>1, <2>5, <2>6, SeqEqual DEF n
  <2> QED
    BY <2>7 DEF r, h
<1> QED
  BY <1>1, <1>2, <1>3


\* A message of two frames is of the client whose id the first one is.
LEMMA OneOf ==
  ASSUME NEW x \in Frames, NEW b \in Bodies, NEW c, NEW s
  PROVE  /\ <<x, b>> \in Seq(Frames)
         /\ Put(c, <<x, b>>, s) = IF x = c THEN Append(s, <<b>>) ELSE s
<1>1. <<x, b>> # << >> /\ Head(<<x, b>>) = x /\ Tail(<<x, b>>) = <<b>>
  OBVIOUS
<1> QED
  BY <1>1, ShortMessages DEF Put

\* Two queues, the second behind the first: one more message in either, and the
\* first message taken.
LEMMA Lines ==
  \A a \in Seq(Seq(Frames)), w \in Seq(Seq(Frames)), x \in Seq(Frames) :
     /\ a \o Append(w, x) = Append(a \o w, x)
     /\ Append(a, x) \o w = a \o (<<x>> \o w)
     /\ (<<x>> \o a) \o w # << >>
     /\ Head((<<x>> \o a) \o w) = x
     /\ Tail((<<x>> \o a) \o w) = a \o w
<1> SUFFICES ASSUME NEW a \in Seq(Seq(Frames)), NEW w \in Seq(Seq(Frames)), NEW x \in Seq(Frames)
             PROVE  /\ a \o Append(w, x) = Append(a \o w, x)
                    /\ Append(a, x) \o w = a \o (<<x>> \o w)
                    /\ (<<x>> \o a) \o w # << >>
                    /\ Head((<<x>> \o a) \o w) = x
                    /\ Tail((<<x>> \o a) \o w) = a \o w
  OBVIOUS
<1>1. <<x>> \in Seq(Seq(Frames)) /\ a \o w \in Seq(Seq(Frames))
  OBVIOUS
<1>2. Append(a, x) = a \o <<x>>
  BY AppendIsConcat
<1>3. Append(a, x) \o w = a \o (<<x>> \o w)
  BY <1>1, <1>2, ConcatAssociative
<1>4. (<<x>> \o a) \o w = <<x>> \o (a \o w)
  BY <1>1, ConcatAssociative
<1>5. \A q \in Seq(Seq(Frames)) :
        <<x>> \o q # << >> /\ Head(<<x>> \o q) = x /\ Tail(<<x>> \o q) = q
  BY <1>1, HeadTailOfOne
<1> QED
  <2>1. a \o w \in Seq(Seq(Frames)) /\ (<<x>> \o a) \o w = <<x>> \o (a \o w)
    BY <1>1, <1>4
  <2>2. (<<x>> \o a) \o w # << >> /\ Head((<<x>> \o a) \o w) = x /\ Tail((<<x>> \o a) \o w) = a \o w
    BY <1>5, <2>1
  <2>3. a \o Append(w, x) = Append(a \o w, x)
    BY AppendConcat
  <2> QED
    BY <1>1, <1>3, <2>2, <2>3

\* The mapping of Up.
UpFlight == [k \in Clients |-> Of(k, toDeck \o Passing) \o Singles(fromClient[k])]
UpGot    == [k \in Clients |-> Singles(heard[k])]

\* A queue and the message that comes next.
LEMMA OfPassing ==
  ASSUME NEW q \in Seq(Seq(Frames)), NEW m \in Seq(Frames), NEW c
  PROVE  /\ Of(c, q \o << >>) = Of(c, q)
         /\ Of(c, q \o <<m>>) = Put(c, m, Of(c, q))
<1>1. q \o << >> = q
  BY ConcatEmptySeq
<1>2. q \o <<m>> = Append(q, m)
  BY AppendIsConcat
<1> QED
  BY <1>1, <1>2, OfAppend

\* Every step is a step of Up: Type sends, DeckTakes delivers, WriteFrame breaks
\* the link when it mixes the frames of two messages, and the others, TakeInput
\* and frames in order among them, change nothing.
LEMMA UpStep == Wired /\ Orderly /\ [Step]_traffic => [Up!Next]_(Up!vars)
<1>0. "shipdeck_dealer" \in mixed' => Up!Next
  BY DEF Up!Next, Up!Break
<1> SUFFICES ASSUME Wired, Orderly, [Step]_traffic, "shipdeck_dealer" \notin mixed'
             PROVE  [Up!Next]_(Up!vars)
  BY <1>0
<1> DEFINE cl == "client_listener"
           sd == "shipdeck_dealer"
           A(k) == Of(k, toDeck \o Passing)
<1>1. /\ mixed \subseteq mixed' /\ sd \notin mixed
  BY DEF Step, Type, ShipSends, Post, WriteFrame, DeckTakes, TakeInput, PollRound,
         ForwardReply, wires, traffic
<1>2. PassingSo /\ PassingSo'
  BY <1>1, PassingIs, PassingNext
<1>3. /\ toDeck \in Seq(Seq(Frames)) /\ fromClient \in [Clients -> Seq(Bodies)]
      /\ heard \in [Clients -> Seq(Bodies)] /\ Passing \in Seq(Seq(Frames))
      /\ \A k \in Clients : A(k) \in Seq(Seq(Frames))
  <2>1. Passing \in Seq(Seq(Frames))
    <3>1. \A k \in Clients, b \in Bodies : <<<<k, b>>>> \in Seq(Seq(Frames))
      <4>1. \A m \in Seq(Frames) : <<m>> \in Seq(Seq(Frames))
        OBVIOUS
      <4> QED
        BY <4>1, ShortMessages, FrameNames
    <3> QED
      BY <1>2, <3>1, EmptySeq DEF PassingSo
  <2>2. toDeck \o Passing \in Seq(Seq(Frames))
    BY <2>1, ConcatProperties DEF Wired, TrafficOK
  <2> QED
    BY <2>1, <2>2, OfType DEF Wired, TrafficOK
<1> DEFINE Same == UpFlight' = UpFlight /\ UpGot' = UpGot
           Sent(k, b) == /\ UpFlight' = [UpFlight EXCEPT ![k] = Append(@, <<b>>)]
                         /\ UpGot' = UpGot
           Heard(k) == /\ UpFlight[k] # << >>
                       /\ UpFlight' = [UpFlight EXCEPT ![k] = Tail(@)]
                       /\ UpGot' = [UpGot EXCEPT ![k] = Append(@, Head(UpFlight[k]))]
<1>u. (sd \in mixed') = (sd \in mixed)
  BY <1>1
<1>4. Same => [Up!Next]_(Up!vars)
  BY <1>u, Zenon DEF Up!vars, UpFlight, UpGot, Singles
<1>5. ASSUME NEW k \in Clients, NEW b \in Bodies, Sent(k, b) PROVE Up!Next
  <2>1. Up!Send(k, <<b>>)
    BY <1>u, <1>5, Zenon DEF Up!Send, UpFlight, UpGot, Singles
  <2> QED
    BY <2>1 DEF Up!Next
<1>6. ASSUME NEW k \in Clients, Heard(k) PROVE Up!Next
  <2>1. Up!Deliver(k)
    BY <1>u, <1>6, Zenon DEF Up!Deliver, UpFlight, UpGot, Singles
  <2> QED
    BY <2>1 DEF Up!Next
\* Nothing between the crew and the deck changes.
<1>7. ASSUME UNCHANGED <<toDeck, fromClient, heard, Passing>>
      PROVE  Same
  BY <1>7 DEF UpFlight, UpGot
<1>8. sending'[cl] = sending[cl] /\ partial'[sd] = partial[sd] => Passing' = Passing
  BY DEF Passing
<1>9. cl \notin begun /\ sending'[cl] = sending[cl] /\ cl \notin begun' => Passing' = Passing
  BY <1>2 DEF PassingSo
<1>10. ASSUME NEW x \in Frames, NEW b \in Bodies, NEW c, NEW s
       PROVE  /\ <<x, b>> \in Seq(Frames)
              /\ Put(c, <<x, b>>, s) = IF x = c THEN Append(s, <<b>>) ELSE s
  BY OneOf
<1>11. ASSUME NEW k \in Clients, NEW b \in Bodies, Type(k, b) PROVE Sent(k, b)
  <2>1. /\ fromClient' = [fromClient EXCEPT ![k] = Append(@, b)]
        /\ UNCHANGED <<toDeck, heard>> /\ Passing' = Passing
    BY <1>8, <1>11 DEF Type, wires
  <2>2. <<b>> \in Seq(Frames)
    <3>1. b \in Frames
      BY FrameNames
    <3> QED
      BY <3>1
  <2>3. /\ Singles(fromClient[k]) \in Seq(Seq(Frames))
        /\ Singles(Append(fromClient[k], b)) = Append(Singles(fromClient[k]), <<b>>)
    BY <1>3, SinglesAre
  <2>a. A(k) \in Seq(Seq(Frames))
    BY <1>3
  <2> HIDE DEF A
  <2>4. A(k) \o Append(Singles(fromClient[k]), <<b>>) = Append(A(k) \o Singles(fromClient[k]), <<b>>)
    BY <2>a, <2>2, <2>3, Lines, Zenon
  <2>5. /\ fromClient'[k] = Append(fromClient[k], b)
        /\ \A c \in Clients \ {k} : fromClient'[c] = fromClient[c]
    BY <1>3, <2>1
  <2>6. A(k) \o Singles(fromClient'[k]) = Append(A(k) \o Singles(fromClient[k]), <<b>>)
    BY <2>3, <2>4, <2>5
  <2> HIDE DEF A
  <2>7. UpFlight = [c \in Clients |-> A(c) \o Singles(fromClient[c])]
    BY DEF UpFlight, A
  <2>8. UpFlight' = [c \in Clients |-> A(c) \o Singles(fromClient'[c])]
    BY <2>1 DEF UpFlight, A
  <2>9. UpFlight' = [UpFlight EXCEPT ![k] = Append(@, <<b>>)]
    BY <2>5, <2>6, <2>7, <2>8
  <2>10. UpGot' = UpGot
    BY <2>1 DEF UpGot
  <2> QED
    BY <2>9, <2>10
<1>12. ASSUME NEW p \in Ships, NEW b \in Bodies, ShipSends(p, b) PROVE Same
  BY <1>7, <1>8, <1>12 DEF ShipSends, wires
<1>13. ASSUME NEW k \in Clients, NEW b \in Bodies, Post(k, b) PROVE Same
  <2>1. sending'[cl] = sending[cl]
    BY <1>13 DEF Post, Wired, TrafficOK, Threads, DeckThreads
  <2> QED
    BY <1>7, <1>8, <1>13, <2>1 DEF Post, wires
<1>14. ASSUME NEW t \in Threads, WriteFrame(t) PROVE Same
  <2> DEFINE s == SocketOf(t)
             r == sending[t]
             m == Append(partial[s], Head(r))
             w == partial[s] \o r
  <2>0. /\ sending \in [Threads -> Seq(Frames)] /\ r \in Seq(Frames) /\ r # << >>
        /\ partial \in [{"server_router", sd} -> Seq(Frames)]
        /\ s \in {"server_router", sd} /\ partial[s] \in Seq(Frames) /\ cl \in Threads
    BY <1>14, ThreadNames DEF Wired, TrafficOK, WriteFrame
  <2>1. /\ sending' = [sending EXCEPT ![t] = Tail(r)] /\ UNCHANGED <<fromClient, heard>>
        /\ \/ /\ Len(r) > 1
              /\ begun' = begun \cup {t} /\ partial' = [partial EXCEPT ![s] = m]
              /\ UNCHANGED <<toDeck, toServer>>
           \/ /\ ~(Len(r) > 1)
              /\ begun' = begun \ {t} /\ partial' = [partial EXCEPT ![s] = << >>]
              /\ Arrive(s, m)
    BY <1>14 DEF WriteFrame, outside
  <2>2. CASE s = "server_router"
    <3>1. t # cl
      BY <2>2, SocketNames
    <3>2. sending'[cl] = sending[cl] /\ partial'[sd] = partial[sd]
      BY <2>0, <2>1, <2>2, <3>1
    <3>3. toDeck' = toDeck
      BY <2>1, <2>2 DEF Arrive
    <3>4. Passing' = Passing
      BY <1>8, <3>2
    <3> QED
      BY <1>7, <2>1, <3>3, <3>4
  <2>3. CASE s = sd
    <3>1. /\ w \in Whole(t) /\ (t \notin begun => partial[s] = << >> /\ r \in Whole(t))
          /\ \A u \in begun : SocketOf(u) = sd => u = t
      BY <1>14, <2>3, OnlyWriter
    <3>2. /\ m \o Tail(r) = w /\ (~(Len(r) > 1) => m = w /\ Tail(r) = << >>)
          /\ Len(r) > 1 => Tail(r) # << >>
      BY <2>0, FrameByFrame, FirstFrame
    <3>3. w \in Seq(Frames) /\ (t \notin begun => w = r)
      BY <2>0, <3>1, ConcatProperties, ConcatEmptySeq
    <3> HIDE DEF m, w
    <3>4. CASE Len(r) > 1
      <4>1. toDeck' = toDeck
        BY <2>1, <3>4
      <4>2. CASE t = cl
        <5>1. Passing = <<w>>
          BY <1>2, <2>0, <2>3, <3>3, <4>2 DEF PassingSo, w
        <5>2. cl \in begun' /\ partial'[sd] = m /\ sending'[cl] = Tail(r)
          BY <2>0, <2>1, <2>3, <3>4, <4>2
        <5>3. Passing' = <<m \o Tail(r)>>
          BY <1>2, <3>2, <3>4, <5>2 DEF PassingSo
        <5> QED
          BY <1>7, <2>1, <3>2, <4>1, <5>1, <5>3
      <4>3. CASE t # cl
        <5>1. cl \notin begun
          BY <3>1, <4>3, SocketNames
        <5>2. cl \notin begun' /\ sending'[cl] = sending[cl]
          BY <2>0, <2>1, <4>3, <5>1
        <5>3. Passing' = Passing
          BY <1>9, <5>1, <5>2
        <5> QED
          BY <1>7, <2>1, <4>1, <5>3
      <4> QED
        BY <4>2, <4>3
    <3>5. CASE ~(Len(r) > 1)
      <4>1. toDeck' = Append(toDeck, w) /\ Append(toDeck, w) = toDeck \o <<w>>
        BY <1>3, <2>1, <2>3, <3>2, <3>3, <3>5, AppendIsConcat DEF Arrive
      <4>2. CASE t = cl
        <5>1. Passing = <<w>>
          BY <1>2, <2>0, <2>3, <3>3, <4>2 DEF PassingSo, w
        <5>2. sending'[cl] = << >>
          BY <2>0, <2>1, <3>2, <3>5, <4>2
        <5>3. Passing' = << >>
          BY <1>2, <5>2 DEF PassingSo
        <5>4. toDeck' \in Seq(Seq(Frames))
          BY <1>3, <3>3, <4>1, AppendProperties
        <5>5. toDeck' \o Passing' = toDeck \o Passing
          BY <4>1, <5>1, <5>3, <5>4, ConcatEmptySeq
        <5> QED
          BY <2>1, <5>5 DEF UpFlight, UpGot
      <4>3. CASE t # cl
        <5>1. cl \notin begun
          BY <3>1, <4>3, SocketNames
        <5>2. cl \notin begun' /\ sending'[cl] = sending[cl]
          BY <2>0, <2>1, <4>3, <5>1
        <5>3. Passing' = Passing
          BY <1>9, <5>1, <5>2
        <5>4. t = "ship_listener"
          BY <2>3, <4>3, SocketNames
        <5>5. PICK p \in Ships, b \in Bodies : w = <<p, b>>
          BY <3>1, <5>4, WholeIs
        <5>6. ASSUME NEW c \in Clients, NEW q
              PROVE  Put(c, w, q) = q
          <6>1. p \in Frames /\ p # c
            BY <5>6, ProxyAssumption, FrameNames
          <6>2. Head(<<p, b>>) # c
            BY <6>1
          <6>3. Put(c, <<p, b>>, q) = q
            BY <6>2, Zenon DEF Put
          <6> QED
            BY <5>5, <6>3
        <5>7. ASSUME NEW c \in Clients
              PROVE  Of(c, Append(toDeck, w) \o Passing) = Of(c, toDeck \o Passing)
          <6>0. Of(c, Append(toDeck, w)) = Of(c, toDeck) /\ Append(toDeck, w) \in Seq(Seq(Frames))
            BY <1>3, <3>3, <5>6, OfAppend, AppendProperties
          <6>1. CASE Passing = << >>
            BY <1>3, <6>0, <6>1, ConcatEmptySeq
          <6>2. CASE Passing # << >>
            <7>1. PICK k \in Clients, b2 \in Bodies : Passing = <<<<k, b2>>>>
              BY <1>2, <6>2 DEF PassingSo
            <7>2. <<k, b2>> \in Seq(Frames)
              BY ShortMessages, FrameNames
            <7>3. /\ Of(c, Append(toDeck, w) \o <<<<k, b2>>>>) = Put(c, <<k, b2>>, Of(c, Append(toDeck, w)))
                  /\ Of(c, toDeck \o <<<<k, b2>>>>) = Put(c, <<k, b2>>, Of(c, toDeck))
              BY <1>3, <6>0, <7>2, OfPassing
            <7> QED
              BY <6>0, <7>1, <7>3
          <6> QED
            BY <6>1, <6>2
        <5> QED
          BY <2>1, <4>1, <5>3, <5>7 DEF UpFlight, UpGot
      <4> QED
        BY <4>2, <4>3
    <3> QED
      BY <3>4, <3>5
  <2> QED
    BY <2>0, <2>2, <2>3
<1>15. CASE DeckTakes
  <2> DEFINE m == Head(toDeck)
             B(c) == Of(c, Tail(toDeck) \o Passing)
  <2>1. toDeck # << >> /\ toDeck' = Tail(toDeck) /\ UNCHANGED <<fromClient, partial>>
    BY <1>15 DEF DeckTakes, wires
  <2>2. sending'[cl] = sending[cl]
    BY <1>15 DEF DeckTakes, Wired, TrafficOK, Threads, DeckThreads
  <2>3. Passing' = Passing
    BY <1>8, <2>1, <2>2
  <2>4. PICK x \in Clients \cup Ships, b \in Bodies : m = <<x, b>>
    <3>1. m \in Inputs
      BY <1>1, <1>3, <2>1, QueueOf DEF Orderly
    <3> QED
      BY <3>1, WholeIs DEF Inputs
  <2>5. x \in Frames /\ m \in Seq(Frames) /\ Len(m) = 2 /\ m[1] = x /\ m[2] = b
    <3>1. x \in Frames /\ <<x, b>> \in Seq(Frames)
      BY FrameNames, ShortMessages
    <3>2. Len(<<x, b>>) = 2 /\ <<x, b>>[1] = x /\ <<x, b>>[2] = b
      OBVIOUS
    <3> QED
      BY <2>4, <3>1, <3>2
  <2>6. <<b>> \in Seq(Frames)
    <3>1. b \in Frames
      BY FrameNames
    <3> QED
      BY <3>1
  <2>7. ASSUME NEW c \in Clients
        PROVE  /\ B(c) \in Seq(Seq(Frames))
               /\ A(c) = IF x = c THEN <<<<b>>>> \o B(c) ELSE B(c)
    <3> DEFINE q == toDeck \o Passing
    <3>1. /\ q \in Seq(Seq(Frames)) /\ q # << >> /\ Head(q) = m
          /\ Tail(q) = Tail(toDeck) \o Passing /\ Tail(q) \in Seq(Seq(Frames))
      BY <1>3, <2>1, HeadTailOfConcat
    <3>2. Of(c, q) = Put(c, m, << >>) \o B(c)
      BY <3>1, OfHead
    <3>3. B(c) \in Seq(Seq(Frames))
      BY <3>1, OfType
    <3>4. Put(c, m, << >>) = IF x = c THEN Append(<< >>, <<b>>) ELSE << >>
      <4>1. Put(c, <<x, b>>, << >>) = IF x = c THEN Append(<< >>, <<b>>) ELSE << >>
        BY <2>5, OneOf
      <4> QED
        BY <2>4, <4>1
    <3>5. Append(<< >>, <<b>>) = <<<<b>>>>
      OBVIOUS
    <3>6. << >> \o B(c) = B(c)
      BY <3>3, ConcatEmptySeq
    <3> HIDE DEF B
    <3> QED
      BY <3>2, <3>3, <3>4, <3>5, <3>6
  <2> HIDE DEF m, A, B
  <2>8. UpFlight = [c \in Clients |-> A(c) \o Singles(fromClient[c])]
    BY DEF UpFlight, A
  <2>9. UpFlight' = [c \in Clients |-> B(c) \o Singles(fromClient[c])]
    BY <2>1, <2>3 DEF UpFlight, B
  <2>10. CASE x \in Clients
    <3>1. heard' = [heard EXCEPT ![x] = Append(@, b)]
      BY <1>15, <2>5, <2>10 DEF DeckTakes, m
    <3>2. /\ Singles(fromClient[x]) \in Seq(Seq(Frames))
          /\ heard[x] \in Seq(Bodies) /\ Singles(Append(heard[x], b)) = Append(Singles(heard[x]), <<b>>)
      BY <1>3, <2>10, SinglesAre
    <3>3. A(x) = <<<<b>>>> \o B(x) /\ B(x) \in Seq(Seq(Frames))
      BY <2>7, <2>10
    <3>4. /\ UpFlight[x] = (<<<<b>>>> \o B(x)) \o Singles(fromClient[x])
          /\ UpFlight[x] # << >> /\ Head(UpFlight[x]) = <<b>>
          /\ Tail(UpFlight[x]) = B(x) \o Singles(fromClient[x])
      <4>1. UpFlight[x] = (<<<<b>>>> \o B(x)) \o Singles(fromClient[x])
        BY <2>8, <2>10, <3>3
      <4>2. /\ (<<<<b>>>> \o B(x)) \o Singles(fromClient[x]) # << >>
            /\ Head((<<<<b>>>> \o B(x)) \o Singles(fromClient[x])) = <<b>>
            /\ Tail((<<<<b>>>> \o B(x)) \o Singles(fromClient[x])) = B(x) \o Singles(fromClient[x])
        BY <2>6, <3>2, <3>3, Lines, Zenon
      <4> QED
        BY <4>1, <4>2
    <3>5. UpFlight' = [UpFlight EXCEPT ![x] = Tail(@)]
      BY <2>7, <2>8, <2>9, <2>10, <3>4
    <3>6. UpGot' = [UpGot EXCEPT ![x] = Append(@, Head(UpFlight[x]))]
      BY <1>3, <2>10, <3>1, <3>2, <3>4 DEF UpGot
    <3> QED
      BY <1>6, <2>10, <3>4, <3>5, <3>6
  <2>11. CASE x \notin Clients
    <3>1. heard' = heard
      BY <1>15, <2>5, <2>11 DEF DeckTakes, m
    <3>2. UpFlight' = UpFlight
      BY <2>7, <2>8, <2>9, <2>11
    <3>3. UpGot' = UpGot
      BY <3>1 DEF UpGot
    <3> QED
      BY <1>4, <3>2, <3>3
  <2> QED
    BY <2>10, <2>11
<1>16. ASSUME NEW k \in Clients, TakeInput(k) PROVE Same
  <2> DEFINE b == Head(fromClient[k])
             F(c) == Singles(fromClient[c])
  <2>1. /\ Idle(cl) /\ fromClient[k] # << >> /\ sending' = [sending EXCEPT ![cl] = <<k, b>>]
        /\ fromClient' = [fromClient EXCEPT ![k] = Tail(@)]
        /\ UNCHANGED <<begun, partial, mixed, toDeck, heard>>
    BY <1>16 DEF TakeInput, wires
  <2>2. b \in Bodies /\ k \in Frames /\ cl \notin begun /\ sending'[cl] = <<k, b>> /\ <<k, b>> # << >>
    <3>1. b \in Bodies
      BY <1>3, <2>1
    <3>2. k \in Frames /\ cl \notin begun
      BY <2>1, FrameNames DEF Orderly, Idle
    <3>3. sending'[cl] = <<k, b>> /\ <<k, b>> # << >>
      BY <2>1, ThreadNames DEF Wired, TrafficOK
    <3> QED
      BY <3>1, <3>2, <3>3
  <2>3. Passing = << >> /\ Passing' = <<<<k, b>>>>
    BY <1>2, <2>1, <2>2 DEF PassingSo, Idle
  <2> HIDE DEF b
  <2>4. \A c \in Clients : /\ Of(c, toDeck) = A(c) /\ A(c) \in Seq(Seq(Frames))
                           /\ Of(c, toDeck \o Passing') = IF k = c THEN Append(A(c), <<b>>) ELSE A(c)
    <3> SUFFICES ASSUME NEW c \in Clients
                 PROVE /\ Of(c, toDeck) = A(c) /\ A(c) \in Seq(Seq(Frames))
                           /\ Of(c, toDeck \o Passing') = IF k = c THEN Append(A(c), <<b>>) ELSE A(c)
      OBVIOUS
    <3>1. <<k, b>> \in Seq(Frames)
      BY <1>10, <2>2
    <3>2. Of(c, toDeck) = A(c)
      BY <1>3, <2>3, <3>1, OfPassing
    <3>3. Of(c, toDeck \o <<<<k, b>>>>) = Put(c, <<k, b>>, Of(c, toDeck))
      BY <1>3, <3>1, OfPassing
    <3>4. Put(c, <<k, b>>, Of(c, toDeck)) = IF k = c THEN Append(Of(c, toDeck), <<b>>) ELSE Of(c, toDeck)
      BY <1>10, <2>2
    <3> QED
      BY <1>3, <2>3, <3>2, <3>3, <3>4
  <2>5. fromClient'[k] = Tail(fromClient[k]) /\ \A c \in Clients \ {k} : fromClient'[c] = fromClient[c]
    BY <1>3, <2>1
  <2>6. /\ Tail(fromClient[k]) \in Seq(Bodies) /\ Singles(Tail(fromClient[k])) \in Seq(Seq(Frames))
        /\ Singles(fromClient[k]) = <<<<b>>>> \o Singles(Tail(fromClient[k]))
    <3>1. fromClient[k] \in Seq(Bodies) /\ Tail(fromClient[k]) \in Seq(Bodies)
      BY <1>3, <2>1
    <3> QED
      BY <2>1, <3>1, SinglesAre DEF b
  <2>7. <<b>> \in Seq(Frames)
    <3>1. b \in Frames
      BY <2>2, FrameNames
    <3> QED
      BY <3>1
  <2> HIDE DEF A
  <2>8. Append(A(k), <<b>>) \o Singles(Tail(fromClient[k])) = A(k) \o Singles(fromClient[k])
    <3>1. A(k) \in Seq(Seq(Frames))
      BY <2>4
    <3>2. Append(A(k), <<b>>) \o Singles(Tail(fromClient[k])) = A(k) \o (<<<<b>>>> \o Singles(Tail(fromClient[k])))
      BY <3>1, <2>6, <2>7, Lines, Zenon
    <3> QED
      BY <2>6, <3>2
  <2>9. \A c \in Clients : Of(c, toDeck \o Passing') \o Singles(fromClient'[c]) = A(c) \o Singles(fromClient[c])
    BY <2>4, <2>5, <2>8
  <2>10. UpFlight' = [c \in Clients |-> Of(c, toDeck \o Passing') \o Singles(fromClient'[c])]
    BY <2>1 DEF UpFlight
  <2>11. UpFlight = [c \in Clients |-> A(c) \o Singles(fromClient[c])]
    BY DEF UpFlight, A
  <2>12. UpGot' = UpGot
    BY <2>1 DEF UpGot
  <2> QED
    BY <2>9, <2>10, <2>11, <2>12
<1>17. CASE PollRound \/ ForwardReply
  <2>1. sending'[cl] = sending[cl]
    BY <1>17 DEF PollRound, ForwardReply, Wired, TrafficOK, Threads, DeckThreads
  <2>2. UNCHANGED <<toDeck, fromClient, heard, partial>>
    BY <1>17 DEF PollRound, ForwardReply, outside, wires
  <2>3. Passing' = Passing
    BY <1>8, <2>1, <2>2
  <2> QED
    BY <1>4, <1>7, <2>2, <2>3
<1>18. CASE UNCHANGED traffic
  <2>1. UNCHANGED <<toDeck, fromClient, heard, partial, sending>>
    BY <1>18 DEF traffic, outside, wires
  <2>2. Passing' = Passing
    BY <1>8, <2>1
  <2> QED
    BY <1>4, <1>7, <2>1, <2>2
<1> QED
  BY <1>4, <1>5, <1>6, <1>11, <1>12, <1>13, <1>14, <1>15, <1>16, <1>17, <1>18 DEF Step

\* UpKeepsOrder: what a crewmate sends comes to the deck once, whole and in order
\* (client_listener_task), unless shipdeck_dealer is mixed up.
THEOREM UpIsLink == Spec => UpKeepsOrder
<1>1. Init => Up!Init
  <2> SUFFICES ASSUME Init PROVE Up!Init
    OBVIOUS
  <2>1. Passing = << >>
    <3>1. sending["client_listener"] = << >> /\ Len(<< >>) = 0
      BY ThreadNames DEF Init
    <3> QED
      BY <3>1 DEF Passing
  <2>2. toDeck \o Passing = << >> /\ \A k \in Clients : Of(k, << >>) = << >>
    BY <2>1, OfEmpty DEF Init
  <2>3. \A k \in Clients : fromClient[k] = << >> /\ heard[k] = << >>
    BY DEF Init
  <2>4. DOMAIN << >> = {} /\ << >> \o << >> = << >>
    OBVIOUS
  <2>5. \A f : [i \in DOMAIN << >> |-> <<f[i]>>] = << >>
    OBVIOUS
  <2>6. /\ \A k \in Clients : Of(k, toDeck \o Passing)
                   \o [i \in DOMAIN fromClient[k] |-> <<fromClient[k][i]>>] = << >>
        /\ \A k \in Clients : [i \in DOMAIN heard[k] |-> <<heard[k][i]>>] = << >>
    BY <2>2, <2>3, <2>4, <2>5
  <2>7. "shipdeck_dealer" \notin mixed
    BY DEF Init
  <2> QED
    BY <2>6, <2>7 DEF Up!Init
<1> QED
  BY <1>1, UpStep, TrafficSteps, OrderlyHolds, PTL DEF Spec, UpKeepsOrder, Up!Spec
-----------------------------------------------------------------------------
(* From the deck to the crew                                               *)

\* The mapping of Down.
DownFlight == [k \in Clients |-> Of(k, toServer)]

\* Every step is a step of Down: the last frame of a message of the deck sends
\* it, ForwardReply delivers a message or, when something of a ship is in reqs
\* before it, loses it.
LEMMA DownStep == Wired /\ Orderly /\ [Step]_traffic => [Down!Next]_(Down!vars)
<1>0. "server_router" \in mixed' => Down!Next
  BY DEF Down!Next, Down!Break
<1> SUFFICES ASSUME Wired, Orderly, [Step]_traffic, "server_router" \notin mixed'
             PROVE  [Down!Next]_(Down!vars)
  BY <1>0
<1> DEFINE sr == "server_router"
<1>1. sr \notin mixed /\ (sr \in mixed') = (sr \in mixed)
  <2>1. mixed \subseteq mixed'
    BY DEF Step, Type, ShipSends, Post, WriteFrame, DeckTakes, TakeInput, PollRound,
           ForwardReply, wires, traffic
  <2> QED
    BY <2>1
<1>3. /\ toServer \in Seq(Seq(Frames)) /\ inbox \in [Clients -> Seq(Seq(Frames))]
      /\ round.reqs \in Seq(Frames)
      /\ \A k \in Clients : Of(k, toServer) \in Seq(Seq(Frames))
  BY OfType DEF Wired, TrafficOK
<1>4. UNCHANGED <<toServer, inbox>> => [Down!Next]_(Down!vars)
  <2> SUFFICES ASSUME UNCHANGED <<toServer, inbox>> PROVE UNCHANGED Down!vars
    OBVIOUS
  <2>1. DownFlight' = DownFlight /\ inbox' = inbox
    BY DEF DownFlight
  <2> QED
    BY <1>1, <2>1, Zenon DEF Down!vars, DownFlight
<1>5. ASSUME NEW k \in Clients, NEW b \in Bodies, inbox' = inbox,
             DownFlight' = [DownFlight EXCEPT ![k] = Append(@, <<b>>)]
      PROVE  Down!Next
  <2>1. Down!Send(k, <<b>>)
    BY <1>1, <1>5, Zenon DEF Down!Send, DownFlight
  <2> QED
    BY <2>1 DEF Down!Next
<1>6. ASSUME NEW k \in Clients, DownFlight[k] # << >>,
             DownFlight' = [DownFlight EXCEPT ![k] = Tail(@)],
             \/ inbox' = [inbox EXCEPT ![k] = Append(@, Head(DownFlight[k]))]
             \/ inbox' = inbox /\ round.reqs # << >>
      PROVE  Down!Next
  <2>1. CASE inbox' = [inbox EXCEPT ![k] = Append(@, Head(DownFlight[k]))]
    <3>1. Down!Deliver(k)
      BY <1>1, <1>6, <2>1, Zenon DEF Down!Deliver, DownFlight
    <3> QED
      BY <3>1 DEF Down!Next
  <2>2. CASE inbox' = inbox /\ round.reqs # << >>
    <3>1. Down!Lose(k)
      BY <1>1, <1>6, <2>2, Zenon DEF Down!Lose, DownFlight
    <3> QED
      BY <3>1 DEF Down!Next
  <2> QED
    BY <1>6, <2>1, <2>2
<1>7. ASSUME NEW t \in Threads, WriteFrame(t) PROVE [Down!Next]_(Down!vars)
  <2> DEFINE s == SocketOf(t)
             r == sending[t]
             m == Append(partial[s], Head(r))
             w == partial[s] \o r
  <2>1. inbox' = inbox
    BY <1>7 DEF WriteFrame
  <2>2. CASE toServer' = toServer
    BY <1>4, <2>1, <2>2
  <2>3. CASE toServer' # toServer
    <3>1. ~(Len(r) > 1) /\ s = sr /\ toServer' = Append(toServer, Tail(m))
      BY <1>7, <2>3 DEF WriteFrame, Arrive
    <3>2. w \in Whole(t) /\ t \in DeckThreads
      BY <1>7, <3>1, OnlyWriter, SocketNames
    <3>3. r \in Seq(Frames) /\ r # << >> /\ partial[s] \in Seq(Frames)
      BY <1>7, <3>1 DEF Wired, TrafficOK, WriteFrame
    <3>4. m = w
      BY <3>1, <3>3, FrameByFrame
    <3> HIDE DEF m, w
    <3>5. PICK k \in Clients, b \in Bodies : m = <<"S", k, b>>
      BY <3>2, <3>4, WholeIs DEF Header
    <3>6. Tail(m) = <<k, b>>
      BY <3>5
    <3>7. k \in Frames /\ <<k, b>> \in Seq(Frames)
      BY FrameNames, ShortMessages
    <3>8. ASSUME NEW c \in Clients
          PROVE  Of(c, toServer') = IF k = c THEN Append(Of(c, toServer), <<b>>) ELSE Of(c, toServer)
      <4>1. Of(c, toServer') = Put(c, <<k, b>>, Of(c, toServer))
        BY <1>3, <3>1, <3>6, <3>7, OfAppend
      <4>2. Put(c, <<k, b>>, Of(c, toServer)) = IF k = c THEN Append(Of(c, toServer), <<b>>) ELSE Of(c, toServer)
        BY <3>7, OneOf
      <4> QED
        BY <4>1, <4>2
    <3>9. DownFlight' = [DownFlight EXCEPT ![k] = Append(@, <<b>>)]
      BY <3>8 DEF DownFlight
    <3> QED
      BY <1>5, <2>1, <3>9
  <2> QED
    BY <2>2, <2>3
<1>8. CASE ForwardReply
  <2> DEFINE m == round.reqs \o Head(toServer)
             B(c) == Of(c, Tail(toServer))
  <2>1. toServer # << >> /\ toServer' = Tail(toServer)
    BY <1>8 DEF ForwardReply, Wired
  <2>2. PICK k \in Clients, b \in Bodies : Head(toServer) = <<k, b>>
    BY <1>1, <1>3, <2>1, QueueOf DEF Orderly, Replies
  <2>3. k \in Frames /\ <<k, b>> \in Seq(Frames) /\ <<b>> \in Seq(Frames)
    <3>1. k \in Frames /\ b \in Frames /\ <<k, b>> \in Seq(Frames)
      BY FrameNames, ShortMessages
    <3> QED
      BY <3>1
  <2>4. Tail(toServer) \in Seq(Seq(Frames)) /\ Append(<< >>, <<b>>) = <<<<b>>>>
    BY <1>3, <2>1
  <2>5. ASSUME NEW c \in Clients
        PROVE  /\ B(c) \in Seq(Seq(Frames))
               /\ Of(c, toServer) = IF k = c THEN <<<<b>>>> \o B(c) ELSE B(c)
    <3>1. Of(c, toServer) = Put(c, <<k, b>>, << >>) \o B(c)
      BY <1>3, <2>1, <2>2, OfHead
    <3>2. B(c) \in Seq(Seq(Frames))
      BY <2>4, OfType
    <3>3. Put(c, <<k, b>>, << >>) = IF k = c THEN Append(<< >>, <<b>>) ELSE << >>
      BY <2>3, OneOf
    <3>4. << >> \o B(c) = B(c)
      BY <3>2, ConcatEmptySeq
    <3> HIDE DEF B
    <3> QED
      BY <2>4, <3>1, <3>2, <3>3, <3>4
  <2> HIDE DEF B
  <2>6. /\ DownFlight[k] # << >> /\ Head(DownFlight[k]) = <<b>>
        /\ Tail(DownFlight[k]) = B(k)
    <3>1. DownFlight[k] = <<<<b>>>> \o B(k) /\ B(k) \in Seq(Seq(Frames))
      BY <2>5 DEF DownFlight
    <3> QED
      BY <2>3, <3>1, HeadTailOfOne
  <2>7. DownFlight' = [c \in Clients |-> B(c)]
    BY <2>1 DEF DownFlight, B
  <2>8. DownFlight' = [DownFlight EXCEPT ![k] = Tail(@)]
    BY <2>5, <2>6, <2>7 DEF DownFlight
  <2>9. \/ inbox' = [inbox EXCEPT ![k] = Append(@, <<b>>)]
        \/ inbox' = inbox /\ round.reqs # << >>
    <3>1. CASE round.reqs = << >>
      <4>1. m = <<k, b>>
        BY <2>2, <3>1
      <4>2. Head(<<k, b>>) = k /\ Tail(<<k, b>>) = <<b>> /\ <<k, b>> # << >>
        OBVIOUS
      <4> QED
        BY <1>8, <4>1, <4>2 DEF ForwardReply
    <3>2. CASE round.reqs # << >>
      <4>0. \A p \in Seq(Frames), q \in Seq(Frames) : p # << >> => Head(p \o q) = Head(p)
        OBVIOUS
      <4>1. Head(m) = Head(round.reqs)
        BY <1>3, <2>2, <2>3, <3>2, <4>0
      <4>2. Head(m) \notin Clients
        BY <3>2, <4>1 DEF Orderly
      <4> QED
        BY <1>8, <3>2, <4>2 DEF ForwardReply
    <3> QED
      BY <3>1, <3>2
  <2> QED
    BY <1>6, <2>6, <2>8, <2>9
<1>9. (\E t \in Threads : WriteFrame(t)) \/ ForwardReply \/ UNCHANGED <<toServer, inbox>>
  BY DEF Step, Type, ShipSends, Post, DeckTakes, TakeInput, PollRound, traffic
<1> QED
  BY <1>4, <1>7, <1>8, <1>9

\* DownKeepsOrder: what the deck sends comes to its client once and in order, but
\* for what is read behind a message of a ship (ship_listener_task), unless
\* server_router is mixed up.
THEOREM DownIsLink == Spec => DownKeepsOrder
<1>1. Init => Down!Init
  BY OfEmpty DEF Init, Down!Init
<1> QED
  BY <1>1, DownStep, TrafficSteps, OrderlyHolds, PTL DEF Spec, DownKeepsOrder, Down!Spec

\* MessagesArriveWhole (zmq_addon.hpp:213) is violated only by two threads on one
\* socket: as long as no message began within another on server_router, a client
\* gets whole messages of the deck and nothing else.
THEOREM WholeUnlessMixed == Spec => []("server_router" \notin mixed => MessagesArriveWhole)
<1>1. Orderly => ("server_router" \notin mixed => MessagesArriveWhole)
  BY DEF Orderly
<1> QED
  BY <1>1, OrderlyHolds, PTL

\* CrashNeedsMixing: every message that comes to the deck has the frame it reads
\* the type from (server_listener_worker), for any clients and ships, until two
\* threads mix up shipdeck_dealer.
THEOREM CrashIsMixing == Spec => []CrashNeedsMixing
<1>1. Init => CrashNeedsMixing
  BY DEF Init, CrashNeedsMixing
<1>2. Orderly /\ CrashNeedsMixing /\ [Next]_vars => CrashNeedsMixing'
  <2> SUFFICES ASSUME Orderly, CrashNeedsMixing, [Next]_vars
               PROVE  CrashNeedsMixing'
    OBVIOUS
  <2>1. mixed \subseteq mixed'
    BY TrafficSteps DEF Step, Type, ShipSends, Post, WriteFrame, DeckTakes, TakeInput,
           PollRound, ForwardReply, wires, traffic
  <2>2. CASE DeckCrashes
    <3>1. ASSUME "shipdeck_dealer" \notin mixed PROVE FALSE
      <4>1. Head(toDeck) \in Inputs
        BY <2>2, <3>1 DEF Orderly, DeckCrashes
      <4>2. PICK x, b : Head(toDeck) = <<x, b>>
        BY <4>1, WholeIs DEF Inputs
      <4> QED
        BY <2>2, <4>2 DEF DeckCrashes
    <3> QED
      BY <2>1, <3>1 DEF CrashNeedsMixing
  <2>3. CASE crashed' = crashed
    BY <2>1, <2>3 DEF CrashNeedsMixing
  <2> QED
    BY <2>2, <2>3 DEF Next, Lives, vars
<1> QED
  BY <1>1, <1>2, OrderlyHolds, PTL DEF Spec
=============================================================================
