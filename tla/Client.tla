------------------------------- MODULE Client -------------------------------
(***************************************************************************)
(* A client process (src/client/Client.cpp and src/client_main.cpp) from   *)
(* its ACK on: the main thread, and the three threads of the Client, which *)
(* talk through the PULL socket core.                                      *)
(*                                                                         *)
(* What the user types goes from user_input_thread through core_thread to  *)
(* the server; what the server sends from connection_thread to core_thread,*)
(* which prints it.  Only core_thread ends the client, and the others find *)
(* out when they next look.                                                *)
(***************************************************************************)
EXTENDS Naturals, Sequences

LOCAL INSTANCE SequencesExt

CONSTANTS
  MaxLines,  \* lines the user types (a bound of the model)
  MaxNews,   \* messages that wait in core (a bound of the model)
  News,      \* what the server sends, as far as core_thread tells it apart:
             \* something to show, or the command to die
  Hwm        \* messages the DEALER queues before a send blocks

ASSUME ClientAssumption ==
  /\ MaxLines \in Nat /\ MaxNews \in Nat /\ Hwm \in Nat \ {0}
  /\ News \subseteq {"show", "die"}

\* What can be typed, as far as core_thread tells it apart; "/join " and a
\* name, "/join" alone, any other command.
Lines == {"text", "/quit", "/join name", "/join", "/other"}

VARIABLES
  alive,       \* Client::alive
  main,        \* the main thread
  input,       \* user_input_thread
  connection,  \* connection_thread
  core,        \* core_thread: where it is, or the line it is about to send
  fromInput,   \* core, lines of user_input_thread
  fromServer,  \* core, messages of connection_thread
  toServer,    \* dealer: messages the server has not received
  received,    \* history: messages the server has received
  subscribed,  \* whether control_pub knows of connection_thread
  kill,        \* whether control_sub has a message
  typed,       \* history: lines typed, but for the empty ones
  stdin_open,  \* whether the user can still type
  server_up    \* whether the server is there

vars == <<alive, main, input, connection, core, fromInput, fromServer,
          toServer, received, subscribed, kill, typed, stdin_open, server_up>>
threads == <<main, input, connection, core>>
network == <<toServer, received, server_up>>
control == <<subscribed, kill>>
user    == <<typed, stdin_open>>

\* There is a process.
Running == main \notin {"terminated", "exited"}

Sent == received \o toServer
-----------------------------------------------------------------------------
(* user_input_thread                                                       *)

InputHead ==
  /\ Running /\ input = "head"
  /\ input' = IF alive THEN "getline" ELSE "ended"
  /\ UNCHANGED <<alive, main, connection, core, fromInput, fromServer,
                 network, control, user>>

\* getline returns a line, which goes to core.
InputLine(l) ==
  /\ Running /\ input = "getline"
  /\ stdin_open
  /\ Len(typed) < MaxLines
  /\ typed' = Append(typed, l)
  /\ fromInput' = Append(fromInput, l)
  /\ input' = "head"
  /\ UNCHANGED <<alive, main, connection, core, fromServer, network, control,
                 stdin_open>>

\* getline returns an empty line, because the user typed one or because there
\* will be no more.
InputNothing ==
  /\ Running /\ input = "getline"
  /\ input' = "head"
  /\ UNCHANGED <<alive, main, connection, core, fromInput, fromServer,
                 network, control, user>>

CloseStdin ==
  /\ stdin_open
  /\ stdin_open' = FALSE
  /\ UNCHANGED <<alive, threads, fromInput, fromServer, network, control, typed>>
-----------------------------------------------------------------------------
(* connection_thread                                                       *)

\* Faulty variant: the loop does not look at alive.
ConnectionHead_Deaf ==
  /\ Running /\ connection = "head"
  /\ connection' = "blocked"
  /\ UNCHANGED <<alive, main, input, core, fromInput, fromServer, network,
                 control, user>>

ConnectionHead ==
  /\ Running /\ connection = "head"
  /\ connection' = IF alive THEN "blocked" ELSE "ended"
  /\ UNCHANGED <<alive, main, input, core, fromInput, fromServer, network,
                 control, user>>

\* A message of the server goes to core.
ConnectionNews(m) ==
  /\ Running /\ connection = "blocked"
  /\ server_up
  /\ Len(fromServer) < MaxNews
  /\ fromServer' = Append(fromServer, m)
  /\ connection' = "head"
  /\ UNCHANGED <<alive, main, input, core, fromInput, network, control, user>>

\* The kill message makes it look at alive.
ConnectionKill ==
  /\ Running /\ connection = "blocked"
  /\ kill
  /\ kill' = FALSE
  /\ connection' = "head"
  /\ UNCHANGED <<alive, main, input, core, fromInput, fromServer, network,
                 subscribed, user>>

\* The subscription reaches control_pub before ~Client uses it, or is of no use.
Subscribe ==
  /\ main = "running" /\ ~subscribed
  /\ subscribed' = TRUE
  /\ UNCHANGED <<alive, threads, fromInput, fromServer, network, kill, user>>
-----------------------------------------------------------------------------
(* core_thread                                                             *)

CoreHead ==
  /\ Running /\ core = "head"
  /\ core' = IF alive THEN "blocked" ELSE "ended"
  /\ UNCHANGED <<alive, main, input, connection, fromInput, fromServer,
                 network, control, user>>

\* handle_ship_input and handle_cabin_input: a message is shown, or it is the
\* command to die.
CoreNews ==
  /\ Running /\ core = "blocked"
  /\ fromServer # << >>
  /\ alive' = (alive /\ Head(fromServer) # "die")
  /\ fromServer' = Tail(fromServer)
  /\ core' = "head"
  /\ UNCHANGED <<main, input, connection, fromInput, network, control, user>>

\* handle_user_input: a line is at hand to be sent.
CoreLine ==
  /\ Running /\ core = "blocked"
  /\ fromInput # << >>
  /\ Head(fromInput) # "/join"
  /\ core' = Head(fromInput)
  /\ fromInput' = Tail(fromInput)
  /\ UNCHANGED <<alive, main, input, connection, fromServer, network, control,
                 user>>

\* substr(6) of "/join" throws, and nothing in core_thread catches it.
CoreThrows ==
  /\ Running /\ core = "blocked"
  /\ fromInput # << >>
  /\ Head(fromInput) = "/join"
  /\ main' = "terminated"
  /\ UNCHANGED <<alive, input, connection, core, fromInput, fromServer,
                 network, control, user>>

\* Faulty variants: a DEALER that does not block; the loop goes on after a
\* success; /quit does not end the client.
CoreSend_Unlimited ==
  /\ Running /\ core \in Lines
  /\ toServer' = Append(toServer, core)
  /\ alive' = (alive /\ core # "/quit")
  /\ core' = "head"
  /\ UNCHANGED <<main, input, connection, fromInput, fromServer, received,
                 control, user, server_up>>

CoreSend_Again ==
  /\ Running /\ core \in Lines
  /\ Len(toServer) < Hwm
  /\ toServer' = Append(toServer, core)
  /\ alive' = (alive /\ core # "/quit")
  /\ core' \in {core, "head"}
  /\ UNCHANGED <<main, input, connection, fromInput, fromServer, received,
                 control, user, server_up>>

CoreSend_QuitGoesOn ==
  /\ Running /\ core \in Lines
  /\ Len(toServer) < Hwm
  /\ toServer' = Append(toServer, core)
  /\ core' = "head"
  /\ UNCHANGED <<alive, main, input, connection, fromInput, fromServer,
                 received, control, user, server_up>>

\* The line is sent.  A DEALER without room blocks the sender, so that no send
\* fails and the first of up to ten is the only one.  After /quit the client is
\* to end.
CoreSend ==
  /\ Running /\ core \in Lines
  /\ Len(toServer) < Hwm
  /\ toServer' = Append(toServer, core)
  /\ alive' = (alive /\ core # "/quit")
  /\ core' = "head"
  /\ UNCHANGED <<main, input, connection, fromInput, fromServer, received,
                 control, user, server_up>>
-----------------------------------------------------------------------------
(* The main thread                                                         *)

\* Faulty variant: ~Client sends nothing.
SeeDeath_Silent ==
  /\ main = "running" /\ ~alive
  /\ main' = "joining"
  /\ UNCHANGED <<alive, input, connection, core, fromInput, fromServer,
                 network, control, user>>

\* main, which looks every 500 milliseconds, sees that the client is dead;
\* ~Client sends the kill message, to whoever has subscribed.
SeeDeath ==
  /\ main = "running" /\ ~alive
  /\ main' = "joining"
  /\ kill' = subscribed
  /\ UNCHANGED <<alive, input, connection, core, fromInput, fromServer,
                 network, subscribed, user>>

\* The destructor goes on when it has joined the three threads.  The sockets
\* that the threads sent to core with are closed by then, and core is closed
\* before the context: what has not reached core stays where it is, and may
\* hold up the destructor of context, which waits for every socket, for ever.
Join ==
  /\ main = "joining"
  /\ input = "ended" /\ connection = "ended" /\ core = "ended"
  /\ \/ main' = "closing"
     \/ /\ fromInput # << >> \/ fromServer # << >>
        /\ main' = "held"
  /\ UNCHANGED <<alive, input, connection, core, fromInput, fromServer,
                 network, control, user>>

\* Faulty variant: what is queued is thrown away, as with a linger of 0.
Close_NoLinger ==
  /\ main = "closing"
  /\ main' = "exited"
  /\ toServer' = << >>
  /\ UNCHANGED <<alive, input, connection, core, fromInput, fromServer,
                 received, server_up, control, user>>

\* The destructor of context waits until what the dealer has queued is gone.
Close ==
  /\ main = "closing"
  /\ toServer = << >>
  /\ main' = "exited"
  /\ UNCHANGED <<alive, input, connection, core, fromInput, fromServer,
                 network, control, user>>
-----------------------------------------------------------------------------
(* The server, as the client sees it                                       *)

ServerReceives ==
  /\ server_up
  /\ toServer # << >>
  /\ received' = Append(received, Head(toServer))
  /\ toServer' = Tail(toServer)
  /\ UNCHANGED <<alive, threads, fromInput, fromServer, control, user, server_up>>

ServerGoes ==
  /\ server_up
  /\ server_up' = FALSE
  /\ UNCHANGED <<alive, threads, fromInput, fromServer, toServer, received,
                 control, user>>
-----------------------------------------------------------------------------
\* The server has acknowledged the LOGIN, and the threads are started.
Init ==
  /\ alive = TRUE
  /\ main = "running"
  /\ input = "head" /\ connection = "head" /\ core = "head"
  /\ fromInput = << >>
  /\ fromServer = << >>
  /\ toServer = << >>
  /\ received = << >>
  /\ subscribed = FALSE /\ kill = FALSE
  /\ typed = << >>
  /\ stdin_open = TRUE
  /\ server_up = TRUE

InputStep      == InputHead \/ (~stdin_open /\ InputNothing)
ConnectionStep == ConnectionHead \/ ConnectionKill
CoreStep       == CoreHead \/ CoreNews \/ CoreLine \/ CoreThrows \/ CoreSend
MainStep       == SeeDeath \/ Join \/ Close

Next ==
  \/ InputStep \/ InputNothing \/ CloseStdin
  \/ \E l \in Lines : InputLine(l)
  \/ ConnectionStep \/ Subscribe
  \/ \E m \in News : ConnectionNews(m)
  \/ CoreStep
  \/ MainStep
  \/ ServerReceives \/ ServerGoes

Spec == Init /\ [][Next]_vars

\* The threads run, getline returns at the end of input, and a server that is
\* there receives.  Nobody is obliged to type or to send.
Fairness ==
  /\ WF_vars(InputStep)
  /\ WF_vars(ConnectionStep)
  /\ WF_vars(CoreStep)
  /\ WF_vars(MainStep)
  /\ WF_vars(ServerReceives)

FairSpec == Spec /\ Fairness
-----------------------------------------------------------------------------
(* Properties                                                              *)

\* Every variable has a value of its type, and the queues keep their bounds.
TypeOK ==
  /\ alive \in BOOLEAN
  /\ main \in {"running", "joining", "closing", "held", "exited",
               "terminated"}
  /\ input \in {"head", "getline", "ended"}
  /\ connection \in {"head", "blocked", "ended"}
  /\ core \in {"head", "blocked", "ended"} \cup (Lines \ {"/join"})
  /\ fromInput \in Seq(Lines)
  /\ fromServer \in Seq(News) /\ Len(fromServer) <= MaxNews
  /\ toServer \in Seq(Lines) /\ Len(toServer) <= Hwm
  /\ received \in Seq(Lines)
  /\ subscribed \in BOOLEAN /\ kill \in BOOLEAN
  /\ typed \in Seq(Lines) /\ Len(typed) <= MaxLines
  /\ stdin_open \in BOOLEAN
  /\ server_up \in BOOLEAN

\* The server is sent what the user typed, each line once and in order,
\* whatever the retries of handle_user_input_text do.
SentAsTyped == IsPrefix(Sent, typed)

\* Nothing follows /quit, after which the deck has no use for the client:
\* what the user types between the /quit and the end is not sent.
NothingAfterQuit ==
  \A i \in 1 .. Len(Sent) - 1 : Sent[i] # "/quit"

\* A /quit that core_thread has read reaches the server, if that does not go,
\* while the client ends: neither a full queue, nor the death of the client,
\* nor the closing of its sockets loses it.
QuitIsReceived ==
  core = "/quit" ~> Contains(received, "/quit") \/ ~server_up

\* When the user has quit, core_thread and connection_thread end, whatever
\* they wait for and whether the server is there or not, unless the kill
\* message was sent before connection_thread had subscribed to it.
QuitEndsThreads ==
  ~alive /\ subscribed ~> \/ core = "ended" /\ connection = "ended"
                          \/ main = "terminated"

\* When the user has quit and closed stdin, and the server does not go, the
\* process ends, unless the destructor of context waits for a line or a message
\* that was on its way to core when that was closed (Client.cpp:93, 121).
QuitEndsProcess ==
  ~alive /\ ~stdin_open /\ subscribed
    ~> ~Running \/ ~server_up \/ main = "held"
=============================================================================
