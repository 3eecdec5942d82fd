---------------------------- MODULE Registration ----------------------------
(***************************************************************************)
(* How a cabin comes to be in the ship deck's maps, while crewmates are     *)
(* about: the handshake between Cabin::authenticate_with_server            *)
(* (src/server/Cabin.cpp) and the REGISTRATION branch of                   *)
(* ShipDeck::handle_services_cabins_input (src/server/Shipdeck.cpp), and   *)
(* the crew the deck moves among the cabins that have an entry by then.    *)
(*                                                                         *)
(* Having answered a REGISTRATION the deck waits, inside the handler and   *)
(* for at most half a second, for the cabin's title.  It takes whatever    *)
(* the ROUTER gives it next, from whichever cabin, for that title.         *)
(*                                                                         *)
(* A message is its first frame: the command, or the title of a cabin.     *)
(* What crewmates say, and how a move looks half-way, is in ShipDeck.      *)
(***************************************************************************)
EXTENDS Naturals, Sequences, FiniteSets

CONSTANTS
  Cabins,    \* cabin_id: the routing ids of the cabins' connections
  Titles,    \* titles of cabins
  TitleOf,   \* the title each cabin was made with
  Crew,      \* client_id: the crewmates
  NoCabin,   \* "" as a cabin_id, and an idle listener
  NoTitle,   \* "" as a title, and the title of a cabin that has no entry
  MaxUint,   \* the largest uint32_t
  MaxTold    \* what the crew tell the deck to do (a bound)

ASSUME RegistrationAssumption ==
  /\ TitleOf \in [Cabins -> Titles]
  /\ NoCabin \notin Cabins
  /\ (Cabins \cup {NoCabin}) \cap {"ashore", "gone"} = {}
  /\ IsFiniteSet(Crew)
  /\ MaxUint \in Nat /\ Cardinality(Crew) <= MaxUint
  /\ Titles \cap {"REGISTRATION", "SEND", NoTitle} = {}
  /\ NoTitle \notin {"REGISTRATION", "SEND"}
  /\ MaxTold \in Nat

VARIABLES
  title,             \* the titles in cabin_id_to_info
  cabin_name_to_id,  \* the last cabin that was entered under a title
  default_cabin,     \* the title of the cabin new crewmates are sent to
  registering,       \* the cabin whose title the listener waits for
  phase,             \* each cabin's thread: new, waiting, alive, dead
  curr_playing,      \* cabin_info::curr_playing
  place,             \* client_info::curr_cabin, "ashore" before LOGIN and
                     \* "gone" after /quit
  toDeck,            \* shipdeck_dealer of each cabin -> cabins_router
  toCabin,           \* cabins_router -> shipdeck_dealer of each cabin
  told               \* what the crew have told the deck to do so far

entryVars == <<title, cabin_name_to_id, default_cabin>>
crewVars  == <<place, told>>
vars == <<entryVars, curr_playing, registering, phase, crewVars, toDeck, toCabin>>

\* What the first frame of a message to the deck can be.
Frames == Titles \cup {"REGISTRATION", "SEND"}

\* ... and of a message to a cabin.
CabinFrames == {"SHIP", "JOIN", "DISCONNECT", "TEXT"}

\* The keys of cabin_id_to_info.
Entered == {c \in Cabins : title[c] # NoTitle}

\* cabin_name_to_id[default_cabin], which is "" before one is configured.
DefaultId == IF default_cabin = NoTitle THEN NoCabin ELSE cabin_name_to_id[default_cabin]

\* uint32_t arithmetic.
Increment(n) == IF n = MaxUint THEN 0 ELSE n + 1
Decrement(n) == IF n = 0 THEN MaxUint ELSE n - 1
-----------------------------------------------------------------------------
(* The cabins                                                              *)

\* A cabin starts when its thread does: server_main starts one after another
\* and waits for none of them to be registered.
Start(c) ==
  /\ phase[c] = "new"
  /\ phase' = [phase EXCEPT ![c] = "waiting"]
  /\ toDeck' = [toDeck EXCEPT ![c] = Append(@, "REGISTRATION")]
  /\ UNCHANGED <<entryVars, curr_playing, registering, crewVars, toCabin>>

\* Faulty variant: the title is sent before it is set.
Authenticate_Untitled(c) ==
  /\ phase[c] = "waiting"
  /\ toCabin[c] # << >> /\ Head(toCabin[c]) = "SHIP"
  /\ phase' = [phase EXCEPT ![c] = "alive"]
  /\ toDeck' = [toDeck EXCEPT ![c] = Append(@, NoTitle)]
  /\ toCabin' = [toCabin EXCEPT ![c] = Tail(@)]
  /\ UNCHANGED <<entryVars, curr_playing, registering, crewVars>>

\* authenticate_with_server: SHIP SUCCESS is answered with the title, and any
\* other message ends the cabin.
Authenticate(c) ==
  /\ phase[c] = "waiting"
  /\ toCabin[c] # << >>
  /\ \/ /\ Head(toCabin[c]) = "SHIP"
        /\ phase' = [phase EXCEPT ![c] = "alive"]
        /\ toDeck' = [toDeck EXCEPT ![c] = Append(@, TitleOf[c])]
     \/ /\ Head(toCabin[c]) # "SHIP"
        /\ phase' = [phase EXCEPT ![c] = "dead"]
        /\ UNCHANGED toDeck
  /\ toCabin' = [toCabin EXCEPT ![c] = Tail(@)]
  /\ UNCHANGED <<entryVars, curr_playing, registering, crewVars>>

\* poll_with_control: a cabin that is alive answers a text with a SEND for
\* every user it knows of, the author at least.
Listen(c) ==
  /\ phase[c] = "alive"
  /\ toCabin[c] # << >>
  /\ \/ /\ Head(toCabin[c]) = "TEXT"
        /\ \E n \in 1 .. Cardinality(Crew) :
             toDeck' = [toDeck EXCEPT ![c] = @ \o [i \in 1 .. n |-> "SEND"]]
     \/ /\ Head(toCabin[c]) # "TEXT"
        /\ UNCHANGED toDeck
  /\ toCabin' = [toCabin EXCEPT ![c] = Tail(@)]
  /\ UNCHANGED <<entryVars, curr_playing, registering, phase, crewVars>>
-----------------------------------------------------------------------------
(* The ship deck: server_listener_thread                                   *)

\* A crewmate tells the deck something.
Tells == told < MaxTold /\ told' = told + 1

\* Faulty variant: the cabin that is left is not counted down.
ChangeCabins_Uncounted(from, to) ==
  /\ curr_playing' = [c \in Cabins |-> IF c = to THEN Increment(curr_playing[c])
                                               ELSE curr_playing[c]]
  /\ toCabin' = [c \in Cabins |-> CASE c = from -> Append(toCabin[c], "DISCONNECT")
                                    [] c = to   -> Append(toCabin[c], "JOIN")
                                    [] OTHER    -> toCabin[c]]

\* change_player_cabins for a crewmate that is in cabin "from" (or in none)
\* and goes to an entered cabin, or, having quit, to none.
ChangeCabins(from, to) ==
  /\ curr_playing' = [c \in Cabins |-> CASE c = from -> Decrement(curr_playing[c])
                                         [] c = to   -> Increment(curr_playing[c])
                                         [] OTHER    -> curr_playing[c]]
  /\ toCabin' = [c \in Cabins |-> CASE c = from -> Append(toCabin[c], "DISCONNECT")
                                    [] c = to   -> Append(toCabin[c], "JOIN")
                                    [] OTHER    -> toCabin[c]]

\* LOGIN: a crewmate is moved to the default cabin, if that has an entry.
Login(k) ==
  /\ Tells
  /\ place[k] = "ashore"
  /\ \/ /\ DefaultId \in Entered
        /\ ChangeCabins(NoCabin, DefaultId)
        /\ place' = [place EXCEPT ![k] = DefaultId]
     \/ /\ DefaultId \notin Entered
        /\ place' = [place EXCEPT ![k] = NoCabin]
        /\ UNCHANGED <<curr_playing, toCabin>>
  /\ UNCHANGED <<entryVars, registering, phase, toDeck>>

\* /join, and /leave, which is a /join of the default cabin: a cabin is found
\* by the name it was entered under last.
JoinCabin(k, t) ==
  /\ Tells
  /\ place[k] \in Cabins \cup {NoCabin}
  /\ LET c == cabin_name_to_id[t] IN
       /\ c # place[k] /\ c \in Entered
       /\ ChangeCabins(place[k], c)
       /\ place' = [place EXCEPT ![k] = c]
  /\ UNCHANGED <<entryVars, registering, phase, toDeck>>

\* A text goes to the cabin of its author; without one it is dropped.
Talk(k) ==
  /\ Tells
  /\ place[k] \in Cabins
  /\ toCabin' = [toCabin EXCEPT ![place[k]] = Append(@, "TEXT")]
  /\ UNCHANGED <<entryVars, curr_playing, registering, phase, place, toDeck>>

Quit(k) ==
  /\ Tells
  /\ place[k] \in Cabins \cup {NoCabin}
  /\ ChangeCabins(place[k], NoCabin)
  /\ place' = [place EXCEPT ![k] = "gone"]
  /\ UNCHANGED <<entryVars, registering, phase, toDeck>>

CrewInput(k) == Login(k) \/ (\E t \in Frames : JoinCabin(k, t)) \/ Talk(k) \/ Quit(k)
-----------------------------------------------------------------------------
(* The ship deck: services_listener_thread                                 *)

\* The listener takes a message of cabin c and has no use for it: a SEND (its
\* forwarding is in ShipDeck), a title nobody waits for, or the REGISTRATION
\* of a cabin that has an entry.
Ignore(c) ==
  /\ registering = NoCabin
  /\ toDeck[c] # << >>
  /\ Head(toDeck[c]) # "REGISTRATION" \/ c \in Entered
  /\ toDeck' = [toDeck EXCEPT ![c] = Tail(@)]
  /\ UNCHANGED <<entryVars, curr_playing, registering, phase, crewVars, toCabin>>

\* Faulty variants: the entry, or the name alone, is given to the cabin that
\* is being registered.
Enter_AsRegistering(c, t) ==
  /\ title' = [title EXCEPT ![registering] = t]
  /\ cabin_name_to_id' = [cabin_name_to_id EXCEPT ![t] = registering]
  /\ default_cabin' = IF default_cabin = NoTitle THEN t ELSE default_cabin
  /\ curr_playing' = [curr_playing EXCEPT ![registering] = 0]

Enter_NamedAsRegistering(c, t) ==
  /\ title' = [title EXCEPT ![c] = t]
  /\ cabin_name_to_id' = [cabin_name_to_id EXCEPT ![t] = registering]
  /\ default_cabin' = IF default_cabin = NoTitle THEN t ELSE default_cabin
  /\ curr_playing' = [curr_playing EXCEPT ![c] = 0]

\* Cabin c is entered under title t, with nobody in it.
Enter(c, t) ==
  /\ title' = [title EXCEPT ![c] = t]
  /\ cabin_name_to_id' = [cabin_name_to_id EXCEPT ![t] = c]
  /\ default_cabin' = IF default_cabin = NoTitle THEN t ELSE default_cabin
  /\ curr_playing' = [curr_playing EXCEPT ![c] = 0]

\* Faulty variant: only a cabin that has an entry is answered.
Answer_IfEntered(c) ==
  /\ registering = NoCabin
  /\ toDeck[c] # << >> /\ Head(toDeck[c]) = "REGISTRATION"
  /\ c \in Entered
  /\ toCabin' = [toCabin EXCEPT ![c] = Append(@, "SHIP")]
  /\ toDeck' = [toDeck EXCEPT ![c] = Tail(@)]
  /\ registering' = c
  /\ UNCHANGED <<entryVars, curr_playing, phase, crewVars>>

\* REGISTRATION of a new cabin: it is told SHIP SUCCESS, and the listener goes
\* on to wait for its title.
Answer(c) ==
  /\ registering = NoCabin
  /\ toDeck[c] # << >> /\ Head(toDeck[c]) = "REGISTRATION"
  /\ c \notin Entered
  /\ toCabin' = [toCabin EXCEPT ![c] = Append(@, "SHIP")]
  /\ toDeck' = [toDeck EXCEPT ![c] = Tail(@)]
  /\ registering' = c
  /\ UNCHANGED <<entryVars, curr_playing, phase, crewVars>>

\* The nested poll has a message: whose it is, and what it was meant to say,
\* is not looked at.
TakeTitle(c) ==
  /\ registering # NoCabin
  /\ toDeck[c] # << >>
  /\ Enter(c, Head(toDeck[c]))
  /\ toDeck' = [toDeck EXCEPT ![c] = Tail(@)]
  /\ registering' = NoCabin
  /\ UNCHANGED <<phase, crewVars, toCabin>>

\* The nested poll has waited for 500 milliseconds: a title may take longer.
GiveUp ==
  /\ registering # NoCabin
  /\ registering' = NoCabin
  /\ UNCHANGED <<entryVars, curr_playing, phase, crewVars, toDeck, toCabin>>
-----------------------------------------------------------------------------
Init ==
  /\ title = [c \in Cabins |-> NoTitle]
  /\ cabin_name_to_id = [t \in Frames |-> NoCabin]
  /\ default_cabin = NoTitle
  /\ registering = NoCabin
  /\ phase = [c \in Cabins |-> "new"]
  /\ curr_playing = [c \in Cabins |-> 0]
  /\ place = [k \in Crew |-> "ashore"]
  /\ toDeck = [c \in Cabins |-> << >>]
  /\ toCabin = [c \in Cabins |-> << >>]
  /\ told = 0

CabinStep(c) == Authenticate(c) \/ Listen(c)

DeckStep(c) == Ignore(c) \/ Answer(c) \/ TakeTitle(c)

Next ==
  \/ \E c \in Cabins : \/ Start(c)
                       \/ CabinStep(c)
                       \/ DeckStep(c)
  \/ \E k \in Crew : CrewInput(k)
  \/ GiveUp

Spec == Init /\ [][Next]_vars

\* Every thread runs, the ROUTER reads fairly from the cabins, and a wait of
\* half a second ends.  The crew need never do anything.
Fairness ==
  /\ \A c \in Cabins : /\ WF_vars(Start(c)) /\ WF_vars(CabinStep(c))
                       /\ SF_vars(DeckStep(c))
  /\ WF_vars(GiveUp)

FairSpec == Spec /\ Fairness
-----------------------------------------------------------------------------
(* Properties                                                              *)

TypeOK ==
  /\ title \in [Cabins -> Frames \cup {NoTitle}]
  /\ cabin_name_to_id \in [Frames -> Cabins \cup {NoCabin}]
  /\ default_cabin \in Frames \cup {NoTitle}
  /\ registering \in Cabins \cup {NoCabin}
  /\ phase \in [Cabins -> {"new", "waiting", "alive", "dead"}]
  /\ curr_playing \in [Cabins -> 0 .. MaxUint]
  /\ place \in [Crew -> Cabins \cup {NoCabin, "ashore", "gone"}]
  /\ toDeck \in [Cabins -> Seq(Frames)]
  /\ toCabin \in [Cabins -> Seq(CabinFrames)]
  /\ told \in 0 .. MaxTold

\* As soon as a default cabin is configured, every crewmate that logs in and
\* every /leave leads to a cabin with an entry, whatever was read as a title.
DefaultIsEntered ==
  default_cabin # NoTitle => cabin_name_to_id[default_cabin] \in Entered

\* A cabin that crewmates are moved to is up and reads their messages, unless
\* its REGISTRATION was read as the title of another.
EnteredMeansListening ==
  \A c \in Entered : phase[c] = "alive" \/ title[c] = "REGISTRATION"

\* The number a cabin shows is that of the crewmates in it, even when they
\* come while others register, unless a SEND was read as the title of another
\* cabin and its entry was made anew with crew aboard (Shipdeck.cpp:170).
CountsUnlessOverwritten ==
  \A c \in Cabins :
    title[c] # "SEND" => curr_playing[c] = Cardinality({k \in Crew : place[k] = c})

\* A cabin's thread does not hang in its constructor, unless its REGISTRATION
\* was read as the title of another.
ConstructorReturns ==
  \A c \in Cabins :
    phase[c] = "waiting" ~> phase[c] # "waiting" \/ title[c] = "REGISTRATION"
=============================================================================
