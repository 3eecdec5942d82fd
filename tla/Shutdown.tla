------------------------------ MODULE Shutdown ------------------------------
(***************************************************************************)
(* The life of the server process: what src/server_main.cpp starts, joins  *)
(* and destroys, and the threads of the Server and of the ship deck.       *)
(*                                                                         *)
(* The messages of crewmates and cabins are traffic here: they wake a      *)
(* listener and no more.  What matters is which thread waits for what: a   *)
(* line of stdin, which two threads read; a message in a poll without a    *)
(* timeout; a kill message, which a PUB socket sends to those only whose   *)
(* subscription has reached it; the end of another thread in a join.       *)
(***************************************************************************)
EXTENDS Naturals

CONSTANTS
  N,        \* the cabin threads main starts
  MayFail   \* the cabins whose handshake with the deck may fail

Cabins == 1 .. N

ASSUME CabinsAssumption == N \in Nat \ {0} /\ MayFail \subseteq Cabins

ServerListeners == {"ship_listener", "client_listener"}
DeckListeners   == {"server_listener", "services_listener"}
Readers         == {"server_input", "deck_input"}
ServerThreads   == ServerListeners \cup {"server_input"}
DeckThreads     == DeckListeners \cup {"deck_input"}
Threads         == ServerThreads \cup DeckThreads

VARIABLES
  main,          \* what the main thread is doing
  started,       \* cabin threads started
  joined,        \* cabin threads joined
  server_alive,  \* Server::alive
  deck_alive,    \* ShipDeck::alive
  pc,            \* each thread of the two objects
  cabin,         \* each cabin thread
  subscribed,    \* the listeners whose subscription has reached control_pub
  kill,          \* the listeners that have a kill message to read
  stdin,         \* the line that waits to be read
  scraps         \* the readers that hold a piece of a torn line

vars == <<main, started, joined, server_alive, deck_alive, pc, cabin,
          subscribed, kill, stdin, scraps>>
ioVars == <<subscribed, kill, stdin, scraps>>

\* There is a process.
Running == main \notin {"caught", "terminated", "exited"}
-----------------------------------------------------------------------------
(* The main thread                                                         *)

\* The deck binds its sockets and starts its threads.
MakeDeck ==
  /\ main = "building"
  /\ main' = "starting"
  /\ pc' = [t \in Threads |-> IF t \in DeckThreads THEN "head" ELSE pc[t]]
  /\ UNCHANGED <<started, joined, server_alive, deck_alive, cabin, ioVars>>

\* Its port is in use: there is no thread yet, and main catches the exception.
FailDeck ==
  /\ main = "building"
  /\ main' = "caught"
  /\ UNCHANGED <<started, joined, server_alive, deck_alive, pc, cabin, ioVars>>

\* Faulty variant: a cabin thread too many.
StartCabin_Unbounded ==
  /\ main = "starting"
  /\ started' = started + 1
  /\ cabin' = [cabin EXCEPT ![started'] = "registering"]
  /\ UNCHANGED <<main, joined, server_alive, deck_alive, pc, ioVars>>

StartCabin ==
  /\ main = "starting" /\ started < N
  /\ started' = started + 1
  /\ cabin' = [cabin EXCEPT ![started'] = "registering"]
  /\ UNCHANGED <<main, joined, server_alive, deck_alive, pc, ioVars>>

\* The Server binds its sockets and starts its threads.
StartServer ==
  /\ main = "starting" /\ started = N
  /\ main' = "running"
  /\ pc' = [t \in Threads |-> IF t \in ServerThreads THEN "head" ELSE pc[t]]
  /\ UNCHANGED <<started, joined, server_alive, deck_alive, cabin, ioVars>>

\* A port is no number or is in use: the exception destroys the cabin threads,
\* which have not been joined, and so ends the process.
FailToStart ==
  /\ main = "starting" /\ started = N
  /\ main' = "terminated"
  /\ UNCHANGED <<started, joined, server_alive, deck_alive, pc, cabin, ioVars>>

\* main looks at is_alive every 500 milliseconds.
SeeDeath ==
  /\ main = "running" /\ ~server_alive
  /\ main' = "joining"
  /\ UNCHANGED <<started, joined, server_alive, deck_alive, pc, cabin, ioVars>>

\* The cabin threads are joined in the order they were started.
JoinCabin ==
  /\ main = "joining" /\ joined < N
  /\ cabin[joined + 1] = "ended"
  /\ joined' = joined + 1
  /\ UNCHANGED <<main, started, server_alive, deck_alive, pc, cabin, ioVars>>

\* ~Server: alive is false and the listeners are told.
StopServer ==
  /\ main = "joining" /\ joined = N
  /\ main' = "joining server"
  /\ server_alive' = FALSE
  /\ kill' = kill \cup (subscribed \cap ServerListeners)
  /\ UNCHANGED <<started, joined, deck_alive, pc, cabin, subscribed, stdin,
                 scraps>>

\* ~Server: the three threads can be joined.
ServerJoined == \A t \in ServerThreads : pc[t] = "ended"

\* The threads of the Server are joined; ~ShipDeck sends its kill message,
\* to which neither of the deck's listeners has subscribed.
StopDeck ==
  /\ main = "joining server"
  /\ ServerJoined
  /\ main' = "joining deck"
  /\ deck_alive' = FALSE
  /\ UNCHANGED <<started, joined, server_alive, pc, cabin, ioVars>>

\* The threads of the deck are joined, and main returns.
Exit ==
  /\ main = "joining deck"
  /\ \A t \in DeckThreads : pc[t] = "ended"
  /\ main' = "exited"
  /\ UNCHANGED <<started, joined, server_alive, deck_alive, pc, cabin, ioVars>>
-----------------------------------------------------------------------------
(* The cabin threads                                                       *)

\* authenticate_with_server returns and the cabin listens, or is not alive
\* and its constructor returns.  It may also wait for ever: see Registration.
Register(c) ==
  /\ Running
  /\ cabin[c] = "registering"
  /\ \/ cabin' = [cabin EXCEPT ![c] = "listening"]
     \/ c \in MayFail /\ cabin' = [cabin EXCEPT ![c] = "ended"]
  /\ UNCHANGED <<main, started, joined, server_alive, deck_alive, pc, ioVars>>
-----------------------------------------------------------------------------
(* The threads of the Server and of the deck                               *)

Alive(t) == IF t \in ServerThreads THEN server_alive ELSE deck_alive

\* while (alive): a thread that goes on will wait for something.
LoopHead(t) ==
  /\ Running
  /\ pc[t] = "head"
  /\ pc' = [pc EXCEPT ![t] = IF Alive(t) THEN "blocked" ELSE "ended"]
  /\ UNCHANGED <<main, started, joined, server_alive, deck_alive, cabin,
                 ioVars>>

\* The subscription of a Server's listener reaches control_pub.
Subscribe(t) ==
  /\ Running
  /\ t \in ServerListeners \ subscribed
  /\ pc[t] \in {"head", "blocked"}
  /\ subscribed' = subscribed \cup {t}
  /\ UNCHANGED <<main, started, joined, server_alive, deck_alive, pc, cabin,
                 kill, stdin, scraps>>

\* There is somebody to send to a listener: a crewmate or a ship to those of
\* the Server, these to the deck's, and the cabins.  A message that is on its
\* way when its sender ends is taken to arrive before.
HasPeers(t) ==
  CASE t \in ServerListeners     -> TRUE
    [] t = "server_listener"     -> \E s \in ServerListeners : pc[s] \notin {"new", "ended"}
    [] t = "services_listener"   -> \E c \in Cabins : cabin[c] \notin {"new", "ended"}
    [] OTHER                     -> FALSE

\* A message wakes a listener, which handles it.
Traffic(t) ==
  /\ Running
  /\ pc[t] = "blocked"
  /\ HasPeers(t)
  /\ pc' = [pc EXCEPT ![t] = "head"]
  /\ UNCHANGED <<main, started, joined, server_alive, deck_alive, cabin,
                 ioVars>>

\* A kill message wakes a listener.  The ship listener breaks out of its loop,
\* the client listener looks at alive again.
ReadKill(t) ==
  /\ Running
  /\ pc[t] = "blocked" /\ t \in kill
  /\ kill' = kill \ {t}
  /\ pc' = [pc EXCEPT ![t] = IF t = "ship_listener" THEN "ended" ELSE "head"]
  /\ UNCHANGED <<main, started, joined, server_alive, deck_alive, cabin,
                 subscribed, stdin, scraps>>
-----------------------------------------------------------------------------
(* stdin                                                                   *)

\* The host types a line, or closes stdin.
Type(l) ==
  /\ Running
  /\ stdin = "empty"
  /\ stdin' = l
  /\ UNCHANGED <<main, started, joined, server_alive, deck_alive, pc, cabin,
                 subscribed, kill, scraps>>

\* Faulty variant: a /quit that the deck's thread reads counts too.
Quits_Anyone(t) == stdin = "/quit" /\ t \notin scraps

\* handle_user_input: of all lines only a whole /quit does something, and only
\* for the Server.
Quits(t) == t = "server_input" /\ stdin = "/quit" /\ t \notin scraps

\* getline gives the line to thread t, after what t holds of an earlier one.
ReadLine(t) ==
  /\ Running
  /\ pc[t] = "blocked" /\ t \in Readers
  /\ stdin \in {"/quit", "other", "closed"}
  /\ stdin' = IF stdin = "closed" THEN "closed" ELSE "empty"
  /\ server_alive' = (server_alive /\ ~Quits(t))
  /\ scraps' = scraps \ {t}
  /\ pc' = [pc EXCEPT ![t] = "head"]
  /\ UNCHANGED <<main, started, joined, deck_alive, cabin, subscribed, kill>>

\* Both threads are in getline, and each gets some of the characters.  Thread
\* t gets the end of the line.
TearLine(t) ==
  /\ Running
  /\ \A r \in Readers : pc[r] = "blocked"
  /\ t \in Readers
  /\ stdin \in {"/quit", "other"}
  /\ stdin' = "empty"
  /\ scraps' = Readers \ {t}
  /\ pc' = [pc EXCEPT ![t] = "head"]
  /\ UNCHANGED <<main, started, joined, server_alive, deck_alive, cabin,
                 subscribed, kill>>
-----------------------------------------------------------------------------
\* main is about to make the deck.
Init ==
  /\ main = "building"
  /\ started = 0
  /\ joined = 0
  /\ server_alive = TRUE
  /\ deck_alive = TRUE
  /\ pc = [t \in Threads |-> "new"]
  /\ cabin = [c \in Cabins |-> "new"]
  /\ subscribed = {}
  /\ kill = {}
  /\ stdin = "empty"
  /\ scraps = {}

Main == MakeDeck \/ FailDeck \/ StartCabin \/ StartServer \/ FailToStart
          \/ SeeDeath \/ JoinCabin \/ StopServer \/ StopDeck \/ Exit

ThreadStep(t) == LoopHead(t) \/ ReadKill(t) \/ Subscribe(t)

Next ==
  \/ Main
  \/ \E c \in Cabins : Register(c)
  \/ \E t \in Threads : ThreadStep(t) \/ Traffic(t) \/ ReadLine(t)
                          \/ TearLine(t)
  \/ \E l \in {"/quit", "other", "closed"} : Type(l)

Spec == Init /\ [][Next]_vars

\* main and the loops run when they can, kill messages are read, and cabins
\* register.  Nobody is obliged to type a line or to send a message, and
\* nothing below depends on who reads a line.
Fairness ==
  /\ WF_vars(Main)
  /\ \A c \in Cabins : WF_vars(Register(c))
  /\ \A t \in Threads : WF_vars(ThreadStep(t))

FairSpec == Spec /\ Fairness
-----------------------------------------------------------------------------
(* Properties                                                              *)

\* Every variable has a value of its type: the threads their program counters,
\* the counts of cabin threads no more than there are, kill messages for those
\* only that subscribed.
TypeOK ==
  /\ main \in {"building", "starting", "running", "joining", "joining server",
               "joining deck", "exited", "caught", "terminated"}
  /\ started \in 0 .. N
  /\ joined \in 0 .. N
  /\ server_alive \in BOOLEAN
  /\ deck_alive \in BOOLEAN
  /\ pc \in [Threads -> {"new", "head", "blocked", "ended"}]
  /\ cabin \in [Cabins -> {"new", "registering", "listening", "ended"}]
  /\ subscribed \subseteq ServerListeners
  /\ kill \subseteq subscribed
  /\ stdin \in {"empty", "/quit", "other", "closed"}
  /\ scraps \subseteq Readers

\* ~Server joins the thread that reads stdin before any other (Server.cpp:45),
\* and nothing but a line wakes that thread.  A server that has died, by
\* whichever of the two readers got the /quit, does not have it in getline:
\* nobody has to type once more for the process to end.
JoinNeedsNoLine == ~server_alive => pc["server_input"] # "blocked"

\* "socket to communicate to finish" (Server.hpp:40): when the Server has died
\* its listeners are told to finish, if they have not by themselves.
FinishIsTold ==
  \A t \in ServerListeners : ~server_alive ~> t \in kill \/ pc[t] = "ended"
=============================================================================
