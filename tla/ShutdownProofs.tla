--------------------------- MODULE ShutdownProofs ---------------------------
(***************************************************************************)
(* Theorems about the module Shutdown, for any number of cabin threads.    *)
(***************************************************************************)
EXTENDS Shutdown, TLAPS

\* What main has joined has ended.
Joined ==
  /\ main \in {"building", "starting", "running"} => joined = 0
  /\ \A c \in 1 .. joined : cabin[c] = "ended"
  /\ main \in {"joining server", "joining deck", "exited"} => joined = N
  /\ main \in {"joining deck", "exited"} =>
       \A t \in ServerThreads : pc[t] = "ended"

LEMMA ThreadNames ==
  /\ ServerListeners \subseteq ServerThreads
  /\ ServerThreads \cap DeckThreads = {}
  /\ Threads = ServerThreads \cup DeckThreads
  /\ "ship_listener" \in ServerThreads /\ Readers \subseteq Threads
BY DEF ServerListeners, DeckListeners, Readers, ServerThreads, DeckThreads,
       Threads

(***************************************************************************)
(* Every variable of the server process has a value of its type.           *)
(***************************************************************************)
THEOREM ShutdownTypes == Spec => []TypeOK
<1>1. Init => TypeOK
  BY CabinsAssumption DEF Init, TypeOK
<1>2. TypeOK /\ [Next]_vars => TypeOK'
  <2> SUFFICES ASSUME TypeOK, [Next]_vars
               PROVE  TypeOK'
    OBVIOUS
  <2> USE CabinsAssumption DEF TypeOK, ioVars
  <2>1. CASE Main
    <3>1. CASE StartCabin
      BY <3>1 DEF StartCabin, Cabins
    <3>2. CASE MakeDeck \/ StartServer
      BY <3>2, ThreadNames DEF MakeDeck, StartServer
    <3>3. CASE JoinCabin
      BY <3>3 DEF JoinCabin
    <3>4. CASE StopServer
      BY <3>4 DEF StopServer
    <3>5. CASE FailDeck \/ FailToStart \/ SeeDeath \/ StopDeck \/ Exit
      BY <3>5 DEF FailDeck, FailToStart, SeeDeath, StopDeck, Exit
    <3> QED
      BY <2>1, <3>1, <3>2, <3>3, <3>4, <3>5 DEF Main
  <2>2. ASSUME NEW c \in Cabins, Register(c)
        PROVE  TypeOK'
    BY <2>2 DEF Register
  <2>3. ASSUME NEW t \in Threads, ThreadStep(t)
        PROVE  TypeOK'
    BY <2>3 DEF ThreadStep, LoopHead, ReadKill, Subscribe
  <2>4. ASSUME NEW t \in Threads, Traffic(t)
        PROVE  TypeOK'
    BY <2>4 DEF Traffic
  <2>5. ASSUME NEW t \in Threads, ReadLine(t)
        PROVE  TypeOK'
    BY <2>5 DEF ReadLine
  <2>6. ASSUME NEW t \in Threads, TearLine(t)
        PROVE  TypeOK'
    BY <2>6 DEF TearLine
  <2>7. ASSUME NEW l \in {"/quit", "other", "closed"}, Type(l)
        PROVE  TypeOK'
    BY <2>7 DEF Type
  <2>8. CASE UNCHANGED vars
    BY <2>8 DEF vars
  <2> QED
    BY <2>1, <2>2, <2>3, <2>4, <2>5, <2>6, <2>7, <2>8 DEF Next
<1> QED
  BY <1>1, <1>2, PTL DEF Spec

\* A thread that has ended stays so: what main has joined is over for good.
LEMMA JoinedHolds == Spec => []Joined
<1>1. Init => Joined
  BY DEF Init, Joined
<1>2. TypeOK /\ Joined /\ [Next]_vars => Joined'
  <2> SUFFICES ASSUME TypeOK, Joined, [Next]_vars
               PROVE  Joined'
    OBVIOUS
  <2>0. /\ N \in Nat /\ joined \in 0 .. N
        /\ pc \in [Threads -> {"new", "head", "blocked", "ended"}]
        /\ cabin \in [1 .. N -> {"new", "registering", "listening", "ended"}]
    BY CabinsAssumption DEF TypeOK, Cabins
  <2> USE <2>0 DEF Joined, ioVars
  <2>1. CASE StartCabin
    <3>1. joined' = 0 /\ main' = "starting"
      BY <2>1 DEF StartCabin
    <3>2. 1 .. joined' = {}
      BY ONLY <3>1
    <3> QED
      BY <3>1, <3>2
  <2>2. CASE MakeDeck \/ StartServer
    BY <2>2 DEF MakeDeck, StartServer
  <2>3. CASE FailDeck \/ FailToStart \/ SeeDeath \/ StopServer \/ StopDeck \/ Exit
    BY <2>3 DEF FailDeck, FailToStart, SeeDeath, StopServer, StopDeck, ServerJoined, Exit
  <2>4. CASE JoinCabin
    BY <2>4 DEF JoinCabin
  <2>5. ASSUME NEW c \in Cabins, Register(c)
        PROVE  Joined'
    <3>1. cabin[c] # "ended"
      BY <2>5 DEF Register
    <3>2. \A d \in 1 .. N \ {c} : cabin'[d] = cabin[d]
      BY <2>5 DEF Register, Cabins
    <3>4. ASSUME NEW d \in 1 .. joined
          PROVE  d \in 1 .. N \ {c}
      <4>1. d # c
        BY ONLY <3>1, Joined DEF Joined
      <4>2. d \in 1 .. N
        BY ONLY <2>0
      <4> QED
        BY ONLY <4>1, <4>2
    <3>3. UNCHANGED <<main, joined, pc>>
      BY <2>5 DEF Register
    <3> QED
      BY <3>1, <3>2, <3>3, <3>4
  <2>6. ASSUME NEW t \in Threads,
               LoopHead(t) \/ ReadKill(t) \/ Subscribe(t) \/ Traffic(t)
                 \/ ReadLine(t) \/ TearLine(t)
        PROVE  Joined'
    BY <2>6, ThreadNames DEF LoopHead, ReadKill, Subscribe, Traffic, ReadLine, TearLine
  <2>7. ASSUME NEW l \in {"/quit", "other", "closed"}, Type(l)
        PROVE  Joined'
    BY <2>7 DEF Type
  <2>8. CASE UNCHANGED vars
    BY <2>8 DEF vars
  <2> QED
    BY <2>1, <2>2, <2>3, <2>4, <2>5, <2>6, <2>7, <2>8
       DEF Next, Main, ThreadStep
<1> QED
  BY <1>1, <1>2, ShutdownTypes, PTL DEF Spec

(***************************************************************************)
(* A server that has died does not have its reader of stdin in getline.    *)
(***************************************************************************)
THEOREM JoinIsNotHeldUp == Spec => []JoinNeedsNoLine
<1> DEFINE Inv == /\ JoinNeedsNoLine
                  /\ main \in {"joining", "joining server", "joining deck", "exited"}
                       => ~server_alive
                  /\ main \in {"building", "starting"}
                       => server_alive /\ pc["server_input"] = "new"
<1>0. /\ "server_input" \in Threads
      /\ \A t \in ServerThreads : t \in Threads
      /\ "server_input" \in ServerThreads /\ "server_input" \notin DeckThreads
      /\ "server_input" # "ship_listener"
      /\ "server_input" \in Readers
  BY DEF Threads, ServerThreads, DeckThreads, DeckListeners, Readers
<1>1. Init => Inv
  BY <1>0 DEF Init, JoinNeedsNoLine
<1>2. TypeOK /\ Inv /\ [Next]_vars => Inv'
  <2> SUFFICES ASSUME TypeOK, Inv, [Next]_vars
               PROVE  Inv'
    OBVIOUS
  <2>0. pc \in [Threads -> {"new", "head", "blocked", "ended"}]
    BY DEF TypeOK
  <2> USE <1>0, <2>0 DEF JoinNeedsNoLine, ioVars
  <2>1. CASE MakeDeck \/ StartServer
    BY <2>1 DEF MakeDeck, StartServer
  <2>2. CASE FailDeck \/ FailToStart \/ StartCabin
    BY ONLY Inv, <2>2 DEF JoinNeedsNoLine, ioVars, FailDeck, FailToStart, StartCabin
  <2>3. CASE SeeDeath \/ JoinCabin \/ StopServer \/ StopDeck \/ Exit
    <3>1. ~server_alive /\ main \notin {"building", "starting"}
      BY ONLY Inv, <2>3 DEF SeeDeath, JoinCabin, StopServer, StopDeck, Exit
    <3>2. /\ server_alive' \in {server_alive, FALSE} /\ pc' = pc
          /\ main' \notin {"building", "starting"}
      BY ONLY <2>3 DEF ioVars, SeeDeath, JoinCabin, StopServer, StopDeck, Exit
    <3>3. server_alive' = FALSE
      BY <3>1, <3>2 DEF TypeOK
    <3> QED
      BY <3>1, <3>2, <3>3
  <2>4. ASSUME NEW c \in Cabins, Register(c)
        PROVE  Inv'
    BY <2>4 DEF Register
  <2>5. ASSUME NEW t \in Threads, LoopHead(t)
        PROVE  Inv'
    BY <2>5 DEF LoopHead, Alive
  <2>6. ASSUME NEW t \in Threads, ReadKill(t) \/ Subscribe(t) \/ Traffic(t)
        PROVE  Inv'
    <3>1. UNCHANGED <<main, server_alive>>
      BY <2>6 DEF ReadKill, Subscribe, Traffic
    <3>2. pc'["server_input"] = pc["server_input"] \/ pc'["server_input"] = "head"
      BY <2>6 DEF ReadKill, Subscribe, Traffic
    <3>3. pc["server_input"] = "new" => pc'["server_input"] = "new"
      BY <2>6 DEF ReadKill, Subscribe, Traffic
    <3> QED
      BY ONLY Inv, <3>1, <3>2, <3>3 DEF JoinNeedsNoLine
  <2>7. ASSUME NEW t \in Threads, ReadLine(t)
        PROVE  Inv'
    BY <2>7 DEF ReadLine, Quits
  <2>8. ASSUME NEW t \in Threads, TearLine(t)
        PROVE  Inv'
    BY <2>8 DEF TearLine
  <2>9. ASSUME NEW l \in {"/quit", "other", "closed"}, Type(l)
        PROVE  Inv'
    BY <2>9 DEF Type
  <2>10. CASE UNCHANGED vars
    BY <2>10 DEF vars
  <2> QED
    BY <2>1, <2>2, <2>3, <2>4, <2>5, <2>6, <2>7, <2>8, <2>9, <2>10
       DEF Next, Main, ThreadStep
<1>3. Inv => JoinNeedsNoLine
  OBVIOUS
<1> QED
  BY <1>1, <1>2, <1>3, ShutdownTypes, PTL DEF Spec

(***************************************************************************)
(* What server_hangs finds, for any number of cabins: main joins the cabin *)
(* threads before any destructor runs, and only ~ShipDeck would end them.  *)
(* One cabin that listens is enough for nobody to be told to finish,       *)
(* whatever is typed (server_main.cpp:54, Server.cpp:40).                  *)
(***************************************************************************)
BeforeDestructors ==
  /\ main \notin {"joining server", "joining deck", "exited"}
  /\ kill = {}
  /\ deck_alive

THEOREM NoDestructorRuns ==
  ASSUME NEW c \in Cabins \ MayFail
  PROVE  Spec => []BeforeDestructors
<1> DEFINE Inv == BeforeDestructors /\ cabin[c] # "ended"
<1>1. Init => Inv
  BY DEF Init, BeforeDestructors
<1>2. TypeOK /\ Joined /\ Inv /\ [Next]_vars => Inv'
  <2> SUFFICES ASSUME TypeOK, Joined, Inv, [Next]_vars
               PROVE  Inv'
    OBVIOUS
  <2> USE DEF BeforeDestructors, ioVars
  <2>1. N \in Nat /\ joined \in 0 .. N /\ c \in 1 .. N
        /\ cabin \in [Cabins -> {"new", "registering", "listening", "ended"}]
    BY CabinsAssumption DEF TypeOK, Cabins
  <2>2. joined # N
    BY ONLY <2>1, Inv, Joined DEF Joined
  <2>3. ~StopServer /\ ~StopDeck /\ ~Exit
    BY <2>2 DEF StopServer, StopDeck, Exit
  <2>4. CASE StartCabin
    BY <2>1, <2>4 DEF StartCabin
  <2>5. CASE MakeDeck \/ StartServer \/ FailDeck \/ FailToStart \/ SeeDeath \/ JoinCabin
    BY <2>5 DEF MakeDeck, StartServer, FailDeck, FailToStart, SeeDeath, JoinCabin
  <2>6. ASSUME NEW d \in Cabins, Register(d)
        PROVE  Inv'
    BY <2>1, <2>6 DEF Register
  <2>7. ASSUME NEW t \in Threads,
               LoopHead(t) \/ ReadKill(t) \/ Subscribe(t) \/ Traffic(t)
                 \/ ReadLine(t) \/ TearLine(t)
        PROVE  Inv'
    BY <2>7 DEF LoopHead, ReadKill, Subscribe, Traffic, ReadLine, TearLine
  <2>8. ASSUME NEW l \in {"/quit", "other", "closed"}, Type(l)
        PROVE  Inv'
    BY <2>8 DEF Type
  <2>9. CASE UNCHANGED vars
    BY <2>9 DEF vars
  <2> QED
    BY <2>3, <2>4, <2>5, <2>6, <2>7, <2>8, <2>9 DEF Next, Main, ThreadStep
<1>3. Inv => BeforeDestructors
  OBVIOUS
<1> QED
  BY <1>1, <1>2, <1>3, ShutdownTypes, JoinedHolds, PTL DEF Spec

(***************************************************************************)
(* ~ShipDeck sends a kill message nobody has subscribed to, and by then    *)
(* there is nobody who could send anything else: a listener of the deck    *)
(* that waits when the destructor joins it waits for ever                  *)
(* (Shipdeck.cpp:38, 61, 93).                                              *)
(***************************************************************************)
NoUserLeft ==
  main \in {"joining deck", "exited"} =>
    /\ \A c \in Cabins : cabin[c] = "ended"
    /\ ServerJoined

LEMMA UsersLeave == Spec => []NoUserLeft
<1>1. Joined => NoUserLeft
  BY DEF Joined, NoUserLeft, ServerJoined, Cabins
<1> QED
  BY <1>1, JoinedHolds, PTL

DeckWaits(t) == main = "joining deck" /\ pc[t] = "blocked"

THEOREM DeckIsJoinedForEver ==
  ASSUME NEW t \in DeckListeners
  PROVE  Spec => [](DeckWaits(t) => []DeckWaits(t))
<1>0. /\ t \in DeckThreads \ ServerThreads /\ t \notin Readers /\ t \in Threads
      /\ t \in {"server_listener", "services_listener"}
  BY DEF DeckListeners, DeckThreads, ServerThreads, ServerListeners, Readers, Threads
<1>1. TypeOK /\ NoUserLeft /\ DeckWaits(t) /\ [Next]_vars => DeckWaits(t)'
  <2> SUFFICES ASSUME TypeOK, NoUserLeft, DeckWaits(t), [Next]_vars
               PROVE  DeckWaits(t)'
    OBVIOUS
  <2> USE DEF DeckWaits, ioVars
  <2>1. pc \in [Threads -> {"new", "head", "blocked", "ended"}] /\ t \notin kill
    BY <1>0 DEF TypeOK, ServerThreads
  <2>2. ~HasPeers(t)
    BY <1>0 DEF HasPeers, NoUserLeft, ServerJoined, ServerThreads, ServerListeners
  <2>3. ~Main
    BY <1>0 DEF Main, MakeDeck, FailDeck, StartCabin, StartServer, FailToStart, SeeDeath,
                JoinCabin, StopServer, StopDeck, Exit
  <2>4. ASSUME NEW d \in Cabins, Register(d)
        PROVE  DeckWaits(t)'
    BY <2>4 DEF Register
  <2>5. ASSUME NEW s \in Threads, ThreadStep(s)
        PROVE  DeckWaits(t)'
    BY <1>0, <2>1, <2>5 DEF ThreadStep, LoopHead, ReadKill, Subscribe
  <2>6. ASSUME NEW s \in Threads, Traffic(s)
        PROVE  DeckWaits(t)'
    BY <1>0, <2>1, <2>2, <2>6 DEF Traffic
  <2>7. ASSUME NEW s \in Threads, ReadLine(s) \/ TearLine(s)
        PROVE  DeckWaits(t)'
    BY <1>0, <2>1, <2>7 DEF ReadLine, TearLine
  <2>8. ASSUME NEW l \in {"/quit", "other", "closed"}, Type(l)
        PROVE  DeckWaits(t)'
    BY <2>8 DEF Type
  <2>9. CASE UNCHANGED vars
    BY <2>9 DEF vars
  <2> QED
    BY <2>3, <2>4, <2>5, <2>6, <2>7, <2>8, <2>9 DEF Next
<1> QED
  BY <1>1, ShutdownTypes, UsersLeave, PTL DEF Spec
=============================================================================
